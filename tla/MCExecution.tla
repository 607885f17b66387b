----------------------------- MODULE MCExecution -----------------------------
(* A small daemon: two workers and a few requests of each sort.            *)
EXTENDS Execution

CONSTANTS h, d1, d2, d3, nodir

Request(m, id, raw, ends, out, err, env, dir) ==
    [method |-> m, hasId |-> id, raw |-> raw, ends |-> ends, out |-> out,
     err |-> err, envelope |-> env, dir |-> dir, leaves |-> FALSE]

Create == Request("session.create", TRUE, FALSE, "builtin", <<>>, 0, "none", NoDir)
Destroy == Request("session.destroy", TRUE, FALSE, "builtin", <<>>, 0, "none", NoDir)
Silent == Request("cat", FALSE, FALSE, "once", <<1>>, 0, "none", NoDir)
Ping == Request("ping", FALSE, FALSE, "builtin", <<>>, 0, "none", NoDir)
Long == Request("cat", TRUE, FALSE, "once", <<1, 3, 4>>, 1, "data", Home)
Short == Request("cat", TRUE, FALSE, "once", <<1>>, 0, "error", Home)
Yes == Request("yes", TRUE, TRUE, "error", <<1>>, 0, "none", NoDir)
Follow == Request("tail", TRUE, TRUE, "never", <<1>>, 0, "none", Home)
TarIn(d) == Request("tar", TRUE, TRUE, "once", <<1>>, 0, "none", d)
TarNowhere == Request("tar", TRUE, TRUE, "once", <<>>, 0, "none", d2)

Background == [Request("start-stop-daemon", TRUE, TRUE, "once", <<>>, 0, "none", NoDir)
                  EXCEPT !.leaves = TRUE]

Load(requests, reports, k, refused) ==
    [requests |-> requests, reports |-> reports, taken |-> k, limited |-> refused]

MCLoads ==
    { Load({Create, Destroy}, {"status"}, 2, 0),
      Load({Ping}, {"metrics", "title"}, 2, 1),
      Load({Long, Yes}, {}, 3, 0),
      Load({Silent, Yes, Follow}, {}, 2, 0),
      Load({Background, Short}, {}, 2, 0),
      Load({Short, TarIn(d1), TarIn(d3), TarNowhere}, {}, 2, 0) }
MCDirs == {d1, d2, d3}
MCMissing == {d2}
=============================================================================
