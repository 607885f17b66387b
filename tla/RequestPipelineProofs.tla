------------------------ MODULE RequestPipelineProofs ------------------------
(***************************************************************************)
(* What the request pipeline promises, for any connections, messages, size *)
(* of the worker pool and of the send buffers.                             *)
(*                                                                         *)
(* Neither promise is inductive.  IInv adds where a worker belongs: to one *)
(* request of one decoded message, the handler's present one until it has  *)
(* signalled (JobsInv); what the handler knows of that message             *)
(* (MessageInv); which requests have left a result (ResultsInv); that      *)
(* pending counts the workers that have not signalled (PendingInv); and    *)
(* that at most the present message is unanswered, and only while an       *)
(* answer is due (RepliesInv, Due).                                        *)
(*                                                                         *)
(* Leaves go to Zenon unless they name the SMT solver.                     *)
(***************************************************************************)
EXTENDS RequestPipeline, FiniteSetTheorems, TLAPS

USE ZenonT(30)

Place == {"idle", "decode", "submit", "wait", "write", "return", "ended"}
LinkState == {"unused", "backlog", "open", "closed"}
Entry == [fate : Fates \union {"none"}, ids : Seq(BOOLEAN)]
Listing == {<<>>, <<1>>} \union {Indices(ids, keep) : ids \in Seq(BOOLEAN), keep \in SUBSET Nat}
Reply == [no : Nat, what : Fates \union {"none"}, idxs : Listing]
Job == [conn : Conns, no : Nat, idx : Nat, kind : Fates \union {"none"}, hasId : BOOLEAN,
        at : {"run", "write", "release"}]

TypeOK ==
    /\ link \in [Conns -> LinkState] /\ hungUp \in [Conns -> BOOLEAN]
    /\ inbox \in [Conns -> Seq(Messages)]
    /\ pc \in [Conns -> Place]
    /\ msg \in [Conns -> Entry] /\ nextReq \in [Conns -> Nat]
    /\ results \in [Conns -> SUBSET Nat] /\ pending \in [Conns -> Int]
    /\ reply \in [Conns -> Reply]
    /\ history \in [Conns -> Seq(Entry)] /\ replies \in [Conns -> Seq(Reply)]
    /\ jobs \in SUBSET Job /\ IsFiniteSet(jobs)

(* The workers of a connection, and those the handler still waits for. *)
JobsOf(c) == {j \in jobs : j.conn = c}
Unsignalled(c) == {j \in JobsOf(c) : j.at # "release"}

(* Where a job belongs: to one request of one message, the handler's       *)
(* present one as long as it has not signalled.                            *)
JobsInv(c) ==
    /\ \A j \in JobsOf(c) :
        /\ j.no \in 1 .. Len(history[c])
        /\ j.idx \in 1 .. Len(history[c][j.no].ids)
        /\ j.hasId = history[c][j.no].ids[j.idx]
        /\ j.kind = history[c][j.no].fate
        /\ j.at = "write" => j.kind = "single" /\ j.hasId
        /\ j.at # "release" => pc[c] \in {"submit", "wait"} /\ j.no = Len(history[c])
        /\ j.no = Len(history[c]) /\ pc[c] = "submit" => j.idx < nextReq[c]
    /\ \A j, k \in JobsOf(c) : j.no = k.no /\ j.idx = k.idx => j = k

(* What the handler knows of its message. *)
MessageInv(c) ==
    /\ \A n \in 1 .. Len(history[c]) :
        /\ history[c][n].fate = "single" => Len(history[c][n].ids) = 1
        /\ history[c][n].fate = "batch" => Len(history[c][n].ids) > 0
    /\ pc[c] = "idle" => history[c] = <<>> /\ replies[c] = <<>>
    /\ pc[c] \in {"submit", "wait", "write"} =>
        /\ Len(history[c]) > 0
        /\ msg[c] = history[c][Len(history[c])]
        /\ reply[c].no = Len(history[c])
        /\ reply[c].what = msg[c].fate
    /\ pc[c] \in {"submit", "wait"} => msg[c].fate \in {"single", "batch"}
    /\ pc[c] = "submit" => nextReq[c] \in 1 .. Len(msg[c].ids)
    /\ pc[c] = "wait" => nextReq[c] = Len(msg[c].ids) + 1
    /\ pc[c] = "write" => NeedsAnswer(msg[c]) /\ reply[c] = Answer(Len(history[c]), msg[c])

(* The results are those of the workers that have signalled. *)
(* A batch has the results of the workers that have signalled. *)
ResultsInv(c) ==
    pc[c] \in {"submit", "wait"} /\ msg[c].fate = "batch" =>
        results[c] = {i \in 1 .. nextReq[c] - 1 :
                        msg[c].ids[i] /\ \A j \in Unsignalled(c) : j.idx # i}

(* The count of workers the handler waits for. *)
PendingInv(c) == pending[c] = Cardinality(Unsignalled(c))

(* The handler's present message is still to be answered. *)
Due(c) ==
    \/ pc[c] \in {"submit", "write"}
    \/ pc[c] = "wait" /\ (msg[c].fate = "batch" \/ Unsignalled(c) # {})

(* The replies so far, and what is still owed. *)
RepliesInv(c) ==
    /\ \A i \in DOMAIN replies[c] :
          /\ replies[c][i].no \in Owed(c)
          /\ replies[c][i] = Answer(replies[c][i].no, history[c][replies[c][i].no])
    /\ \A i, k \in DOMAIN replies[c] : i < k => replies[c][i].no < replies[c][k].no
    /\ \A n \in Owed(c) :
          ~Answered(c, n) => \A i \in DOMAIN replies[c] : replies[c][i].no < n
    /\ Due(c) => ~Answered(c, Len(history[c]))
    /\ link[c] = "open" /\ ~hungUp[c] =>
          \A n \in Owed(c) : Answered(c, n) \/ (n = Len(history[c]) /\ Due(c))

(* What holds of each connection, and of all. *)
ConnInv(c) ==
    JobsInv(c) /\ MessageInv(c) /\ ResultsInv(c) /\ PendingInv(c) /\ RepliesInv(c)

IInv == TypeOK /\ \A c \in Conns : ConnInv(c)

-----------------------------------------------------------------------------
(* Nothing of a connection's own state changes. *)
Same(d) ==
    /\ pc'[d] = pc[d] /\ msg'[d] = msg[d] /\ nextReq'[d] = nextReq[d]
    /\ results'[d] = results[d] /\ pending'[d] = pending[d] /\ reply'[d] = reply[d]
    /\ history'[d] = history[d] /\ replies'[d] = replies[d]
    /\ JobsOf(d)' = JobsOf(d)

(* A connection that is served does not come back once an end is closed. *)
Narrower(d) ==
    link'[d] = "open" /\ ~hungUp'[d] => (link[d] = "open" /\ ~hungUp[d]) \/ pc[d] = "idle"

(* A connection nothing happens to keeps its invariant. *)
LEMMA Untouched ==
    ASSUME NEW d \in Conns, ConnInv(d), Same(d), Narrower(d)
    PROVE  ConnInv(d)'
  <1>. USE DEF Same
  <1>0. Unsignalled(d)' = Unsignalled(d)
    BY DEF Unsignalled
  <1>1. JobsInv(d)'
    BY DEF ConnInv, JobsInv
  <1>2. MessageInv(d)'
    BY DEF ConnInv, MessageInv
  <1>3. ResultsInv(d)'
    BY <1>0, SMTT(30) DEF ConnInv, ResultsInv
  <1>4. PendingInv(d)'
    BY <1>0 DEF ConnInv, PendingInv
  <1>5. RepliesInv(d)'
    <2>1. Owed(d)' = Owed(d) /\ \A n : Answered(d, n)' <=> Answered(d, n)
      BY DEF Owed, Answered, NeedsAnswer
    <2>2. Due(d)' <=> Due(d)
      BY <1>0 DEF Due
    <2>3. pc[d] = "idle" => Owed(d) = {}
      BY SMTT(30) DEF ConnInv, MessageInv, Owed
    <2>. QED  BY <2>1, <2>2, <2>3 DEF ConnInv, RepliesInv, Narrower
  <1>. QED  BY <1>1, <1>2, <1>3, <1>4, <1>5 DEF ConnInv

(* Nothing was decoded, submitted or answered at the start. *)
LEMMA InitIInv == Init => IInv
  <1>. SUFFICES ASSUME Init PROVE IInv
    OBVIOUS
  <1>1. TypeOK
    <2>1. NoMessage \in Entry /\ NoReply \in Reply
      BY SMTT(30) DEF NoMessage, Entry, NoReply, Reply, Listing
    <2>. QED  BY <2>1, FS_EmptySet, SMTT(30) DEF Init, TypeOK, LinkState, Place
  <1>2. ASSUME NEW c \in Conns PROVE ConnInv(c)
    <2>1. JobsOf(c) = {} /\ Unsignalled(c) = {}
      BY DEF Init, JobsOf, Unsignalled
    <2>2. pc[c] = "idle" /\ history[c] = <<>> /\ replies[c] = <<>> /\ pending[c] = 0
      BY DEF Init
    <2>3. PendingInv(c)
      BY <2>1, <2>2, FS_EmptySet DEF PendingInv
    <2>. QED  BY <2>1, <2>2, <2>3, SMTT(30)
              DEF ConnInv, JobsInv, MessageInv, ResultsInv, RepliesInv, Owed, Answered, Due
  <1>. QED  BY <1>1, <1>2 DEF IInv

(* Steps that leave every handler, worker and reply alone: clients, and     *)
(* whatever closes a connection.                                            *)
LEMMA OutsideStep ==
    ASSUME IInv,
           UNCHANGED <<handlerVars, results, pending, replies, jobs>>,
           link' \in [Conns -> LinkState], hungUp' \in [Conns -> BOOLEAN],
           inbox' \in [Conns -> Seq(Messages)],
           \A d \in Conns : Narrower(d)
    PROVE  IInv'
  <1>1. TypeOK'
    BY DEF IInv, TypeOK, handlerVars
  <1>2. ASSUME NEW d \in Conns PROVE ConnInv(d)'
    <2>1. Same(d)
      BY DEF Same, handlerVars, JobsOf
    <2>. QED  BY <2>1, Untouched DEF IInv
  <1>. QED  BY <1>1, <1>2 DEF IInv

(* The handler starts. *)
LEMMA StartStep ==
    ASSUME IInv, NEW c \in Conns, Start(c),
           link' \in [Conns -> LinkState],
           \A d \in Conns : Narrower(d)
    PROVE  IInv'
  <1>. USE DEF Start, clientVars
  <1>1. TypeOK'
    BY ZenonT(30) DEF IInv, TypeOK, Place
  <1>2. ASSUME NEW d \in Conns, d # c PROVE ConnInv(d)'
    <2>1. Same(d)
      BY <1>2 DEF IInv, TypeOK, Same, JobsOf
    <2>. QED  BY <2>1, Untouched DEF IInv
  <1>3. ConnInv(c)'
    <2>0. pc[c] = "idle" /\ pc'[c] = "decode" /\ ConnInv(c) /\ history[c] = <<>> /\ replies[c] = <<>>
      BY DEF IInv, TypeOK, ConnInv, MessageInv
    <2>1. JobsOf(c)' = JobsOf(c) /\ Unsignalled(c)' = Unsignalled(c)
      BY DEF JobsOf, Unsignalled
    <2>2. JobsInv(c)'
      BY <2>0, <2>1 DEF ConnInv, JobsInv
    <2>. QED  BY <2>0, <2>1, <2>2, SMTT(30)
              DEF ConnInv, MessageInv, ResultsInv, PendingInv, RepliesInv, Owed, Answered, Due
  <1>. QED  BY <1>2, <1>3, <1>1 DEF IInv

(* The handler leaves its loop, or what is left of it ends. *)
LEMMA LeaveStep ==
    ASSUME IInv, NEW c \in Conns,
           \/ DecodeEOF(c) \/ DecodeClosed(c)
           \/ Return(c) /\ link' \in [Conns -> LinkState] /\ \A d \in Conns : Narrower(d)
    PROVE  IInv'
  <1>. USE DEF DecodeEOF, DecodeClosed, Return, clientVars
  <1>0. /\ pc[c] \in {"decode", "return"} /\ pc'[c] \in {"return", "ended"}
        /\ \A d \in Conns : d # c => pc'[d] = pc[d]
        /\ \A d \in Conns : Narrower(d)
        /\ UNCHANGED <<hungUp, inbox, msg, nextReq, reply, history, results, pending, replies, jobs>>
    BY DEF IInv, TypeOK, Narrower
  <1>1. TypeOK'
    BY ZenonT(30) DEF IInv, TypeOK, Place
  <1>2. ASSUME NEW d \in Conns, d # c PROVE ConnInv(d)'
    <2>1. Same(d)
      BY <1>0, <1>2 DEF Same, JobsOf
    <2>. QED  BY <1>0, <2>1, Untouched DEF IInv
  <1>3. ConnInv(c)'
    <2>0. ConnInv(c)
      BY DEF IInv
    <2>1. JobsOf(c)' = JobsOf(c) /\ Unsignalled(c)' = Unsignalled(c)
      BY <1>0 DEF JobsOf, Unsignalled
    <2>2. JobsInv(c)'
      BY <1>0, <2>0, <2>1 DEF ConnInv, JobsInv
    <2>3. MessageInv(c)' /\ ResultsInv(c)' /\ PendingInv(c)'
      BY <1>0, <2>0, <2>1 DEF ConnInv, MessageInv, ResultsInv, PendingInv
    <2>4. RepliesInv(c)'
      <3>1. Owed(c)' = Owed(c) /\ \A n : Answered(c, n)' <=> Answered(c, n)
        BY <1>0 DEF Owed, Answered
      <3>2. ~Due(c) /\ ~Due(c)'
        BY <1>0 DEF Due
      <3>. QED  BY <1>0, <2>0, <3>1, <3>2 DEF ConnInv, RepliesInv, Narrower
    <2>. QED  BY <2>2, <2>3, <2>4 DEF ConnInv
  <1>. QED  BY <1>2, <1>3, <1>1 DEF IInv

(* A message is taken up: nothing of it is answered yet. *)
LEMMA DecodeStep ==
    ASSUME IInv, NEW c \in Conns, NEW fate \in Fates, Decode(c, fate)
    PROVE  IInv'
  <1>. DEFINE m == Head(inbox[c])
              h == [fate |-> fate, ids |-> m.ids]
              n == Len(history[c]) + 1
  <1>0. /\ pc[c] = "decode" /\ inbox[c] # <<>>
        /\ fate = m.kind \/ (fate = "limited" /\ m.kind # "malformed")
        /\ msg' = [msg EXCEPT ![c] = h]
        /\ history' = [history EXCEPT ![c] = Append(@, h)]
        /\ reply' = [reply EXCEPT ![c] = [no |-> n, what |-> fate, idxs |-> <<>>]]
        /\ inbox' = [inbox EXCEPT ![c] = Tail(@)]
        /\ pc' = [pc EXCEPT ![c] = IF fate \in {"single", "batch"} THEN "submit" ELSE "write"]
        /\ nextReq' = [nextReq EXCEPT ![c] = 1]
        /\ results' = [results EXCEPT ![c] = {}]
        /\ UNCHANGED <<link, hungUp, sent, outbox, pending, replies, jobs>>
    BY DEF Decode
  <1>1. m \in Messages /\ h \in Entry /\ Tail(inbox[c]) \in Seq(Messages)
    BY <1>0, PipelineAssumption, SMTT(30) DEF IInv, TypeOK, Entry
  <1>2. /\ history[c] \in Seq(Entry) /\ Append(history[c], h) \in Seq(Entry)
        /\ Len(history[c]) \in Nat
        /\ Len(Append(history[c], h)) = n /\ Append(history[c], h)[n] = h
        /\ \A i \in 1 .. Len(history[c]) : Append(history[c], h)[i] = history[c][i]
    <2>1. history[c] \in Seq(Entry)
      BY DEF IInv, TypeOK
    <2>. QED  BY <1>1, <2>1, SMTT(30)
  <1>3. TypeOK'
    <2>1. [no |-> n, what |-> fate, idxs |-> <<>>] \in Reply
      BY <1>2, SMTT(30) DEF Reply, Listing
    <2>. QED  BY <1>0, <1>1, <1>2, <2>1 DEF IInv, TypeOK, Place
  <1>4. ASSUME NEW d \in Conns, d # c PROVE ConnInv(d)'
    <2>1. Same(d) /\ Narrower(d)
      BY <1>0, <1>4 DEF IInv, TypeOK, Same, Narrower, JobsOf
    <2>. QED  BY <2>1, Untouched DEF IInv
  <1>5. ConnInv(c)'
    <2>0. ConnInv(c)
      BY DEF IInv
    <2>1. /\ history'[c] = Append(history[c], h) /\ msg'[c] = h /\ nextReq'[c] = 1
          /\ results'[c] = {} /\ pending'[c] = pending[c] /\ replies'[c] = replies[c]
          /\ reply'[c] = [no |-> n, what |-> fate, idxs |-> <<>>]
          /\ pc'[c] = IF fate \in {"single", "batch"} THEN "submit" ELSE "write"
      BY <1>0 DEF IInv, TypeOK
    <2>2. /\ JobsOf(c)' = JobsOf(c) /\ Unsignalled(c)' = Unsignalled(c)
          /\ Unsignalled(c) = {}
      BY <1>0, <2>0 DEF JobsOf, Unsignalled, ConnInv, JobsInv
    <2>. HIDE DEF m, n
    <2>3. JobsInv(c)'
      <3>1. \A j \in JobsOf(c) : j.at = "release"
        BY <2>2 DEF Unsignalled
      <3>2. \A j \in JobsOf(c) : j.no \in 1 .. Len(history[c]) /\ j.no # n
        BY <2>0, <1>2, SMTT(30) DEF ConnInv, JobsInv, n
      <3>. QED  BY <1>2, <2>0, <2>1, <2>2, <3>1, <3>2, SMTT(30) DEF ConnInv, JobsInv, n
    <2>4. MessageInv(c)'
      <3>1. fate = "single" => Len(m.ids) = 1
        BY <1>0, <1>1, PipelineAssumption
      <3>2. fate = "batch" => Len(m.ids) > 0
        BY <1>0, <1>1, PipelineAssumption
      <3>3. \A i \in 1 .. n :
              history'[c][i] = h \/ (i \in 1 .. Len(history[c]) /\ history'[c][i] = history[c][i])
        BY <1>2, <2>1, SMTT(30) DEF n
      <3>4. Len(m.ids) \in Nat
        BY <1>1, SMTT(30) DEF Entry
      <3>5. fate \notin {"single", "batch"} => NeedsAnswer(h) /\ reply'[c] = Answer(n, h)
        BY <2>1 DEF NeedsAnswer, Answer
      <3>6. \A i \in 1 .. Len(history'[c]) :
              /\ history'[c][i].fate = "single" => Len(history'[c][i].ids) = 1
              /\ history'[c][i].fate = "batch" => Len(history'[c][i].ids) > 0
        BY <1>2, <2>0, <2>1, <3>1, <3>2, <3>3, SMTT(30) DEF ConnInv, MessageInv
      <3>7. /\ Len(history'[c]) = n /\ n > 0 /\ msg'[c] = history'[c][n]
            /\ reply'[c].no = n /\ reply'[c].what = msg'[c].fate
        <4>1. n > 0 /\ Len(history'[c]) = n /\ msg'[c] = history'[c][n]
          BY <1>2, <2>1, SMTT(30) DEF n
        <4>. QED  BY <2>1, <4>1, SMTT(30)
      <3>8. pc'[c] = "submit" => /\ msg'[c].fate \in {"single", "batch"}
                                 /\ nextReq'[c] \in 1 .. Len(msg'[c].ids)
        <4>1. msg'[c].fate = fate /\ msg'[c].ids = m.ids /\ nextReq'[c] = 1
          BY <2>1, SMTT(30)
        <4>2. pc'[c] = "submit" => fate \in {"single", "batch"}
          BY <2>1
        <4>3. fate \in {"single", "batch"} => 1 \in 1 .. Len(m.ids)
          <5>. DEFINE len == Len(m.ids)
          <5>1. len \in Nat /\ (fate = "single" => len = 1) /\ (fate = "batch" => len > 0)
            BY <3>1, <3>2, <3>4
          <5>. HIDE DEF len
          <5>2. fate \in {"single", "batch"} => 1 \in 1 .. len
            BY <5>1, SMTT(30)
          <5>. QED  BY <5>2 DEF len
        <4>. QED  BY <4>1, <4>2, <4>3
      <3>9. pc'[c] = "write" => NeedsAnswer(msg'[c]) /\ reply'[c] = Answer(n, msg'[c])
        BY <2>1, <3>5
      <3>10. pc'[c] \in {"submit", "write"}
        BY <2>1
      <3>. QED  BY <3>6, <3>7, <3>8, <3>9, <3>10 DEF MessageInv
    <2>5. ResultsInv(c)' /\ PendingInv(c)'
      BY <2>0, <2>1, <2>2, SMTT(30) DEF ConnInv, ResultsInv, PendingInv
    <2>6. RepliesInv(c)'
      <3>1. \A i : Answered(c, i)' <=> Answered(c, i)
        BY <2>1 DEF Answered
      <3>2. Owed(c) \in SUBSET (1 .. Len(history[c])) /\ Owed(c)' \subseteq Owed(c) \union {n}
            /\ Owed(c) \subseteq Owed(c)'
        BY <1>2, <2>1, SMTT(30) DEF Owed, n
      <3>3. ~Answered(c, n)
        BY <2>0, <1>2, <3>2, SMTT(30) DEF ConnInv, RepliesInv, Answered, n
      <3>4. Due(c)' /\ ~Due(c) /\ Len(history[c])' = n
        BY <1>0, <1>2, <2>1 DEF Due
      <3>5. link'[c] = link[c] /\ hungUp'[c] = hungUp[c]
        BY <1>0
      <3>6. \A i \in DOMAIN replies[c] : replies[c][i].no \in 1 .. Len(history[c])
        BY <2>0, <3>2 DEF ConnInv, RepliesInv
      <3>. QED  BY <1>2, <2>0, <2>1, <3>1, <3>2, <3>3, <3>4, <3>5, <3>6, SMTT(30)
                   DEF ConnInv, RepliesInv, n
    <2>. QED  BY <2>3, <2>4, <2>5, <2>6 DEF ConnInv
  <1>. QED  BY <1>3, <1>4, <1>5 DEF IInv

(* The answer to the present message is written, or lost on a closed        *)
(* connection.                                                              *)
LEMMA AnswerWritten ==
    ASSUME TypeOK, NEW c \in Conns, ConnInv(c), Due(c), ~Due(c)',
           Len(history[c]) \in Owed(c),
           Write(c, Answer(Len(history[c]), history[c][Len(history[c])])),
           Answer(Len(history[c]), history[c][Len(history[c])]) \in Reply,
           UNCHANGED <<link, hungUp, history>>
    PROVE  RepliesInv(c)' /\ replies' \in [Conns -> Seq(Reply)]
                         /\ \A d \in Conns : d # c => replies'[d] = replies[d]
  <1>. DEFINE n == Len(history[c])
              r == Answer(n, history[c][n])
  <1>1. /\ replies[c] \in Seq(Reply) /\ history[c] \in Seq(Entry) /\ n \in Nat
        /\ Owed(c)' = Owed(c) /\ Owed(c) \in SUBSET (1 .. n)
        /\ r.no = n
    BY SMTT(30) DEF TypeOK, Owed, Answer
  <1>2. \A i \in DOMAIN replies[c] : replies[c][i].no < n
    <2>1. \A i \in DOMAIN replies[c] : replies[c][i].no \in 1 .. n /\ replies[c][i].no # n
      BY <1>1 DEF ConnInv, RepliesInv, Answered
    <2>. QED  BY <1>1, <2>1, SMTT(30)
  <1>3. CASE link[c] = "open" /\ ~hungUp[c]
    <2>1. replies' = [replies EXCEPT ![c] = Append(@, r)]
      BY <1>3 DEF Write
    <2>2. /\ replies'[c] = Append(replies[c], r) /\ Append(replies[c], r) \in Seq(Reply)
          /\ replies' \in [Conns -> Seq(Reply)]
          /\ \A d \in Conns : d # c => replies'[d] = replies[d]
      BY <1>1, <2>1, SMTT(30) DEF TypeOK
    <2>3. /\ Len(replies[c]) \in Nat /\ DOMAIN replies[c] = 1 .. Len(replies[c])
          /\ DOMAIN replies'[c] = 1 .. Len(replies[c]) + 1
          /\ replies'[c][Len(replies[c]) + 1] = r
          /\ \A i \in DOMAIN replies[c] : replies'[c][i] = replies[c][i]
      BY <1>1, <2>2, SMTT(30)
    <2>. HIDE DEF n, r
    <2>n. \A i \in DOMAIN replies'[c] :
             \/ i \in DOMAIN replies[c] /\ replies'[c][i] = replies[c][i]
             \/ i = Len(replies[c]) + 1 /\ replies'[c][i] = r
      BY <2>3, SMTT(30)
    <2>4. \A m : Answered(c, m)' <=> Answered(c, m) \/ m = n
      <3>1. ASSUME NEW m, Answered(c, m)' PROVE Answered(c, m) \/ m = n
        BY <1>1, <2>n, <3>1 DEF Answered
      <3>2. ASSUME NEW m, Answered(c, m) PROVE Answered(c, m)'
        BY <2>3, <3>2, SMTT(30) DEF Answered
      <3>3. ASSUME NEW m, m = n PROVE Answered(c, m)'
        BY <1>1, <2>3, <3>3, SMTT(30) DEF Answered
      <3>. QED  BY <3>1, <3>2, <3>3
    <2>5. \A i \in DOMAIN replies'[c] :
             /\ replies'[c][i].no \in Owed(c)
             /\ replies'[c][i] = Answer(replies'[c][i].no, history[c][replies'[c][i].no])
      <3>1. n \in Owed(c) /\ r = Answer(n, history[c][n])
        BY DEF n, r
      <3>. QED  BY <1>1, <2>n, <3>1 DEF ConnInv, RepliesInv
    <2>6. \A i, k \in DOMAIN replies'[c] : i < k => replies'[c][i].no < replies'[c][k].no
      <3>. SUFFICES ASSUME NEW i \in DOMAIN replies'[c], NEW k \in DOMAIN replies'[c], i < k
                    PROVE  replies'[c][i].no < replies'[c][k].no
        OBVIOUS
      <3>1. i \in DOMAIN replies[c] /\ replies'[c][i] = replies[c][i]
        BY <2>3, <2>n, SMTT(30)
      <3>2. CASE k \in DOMAIN replies[c] /\ replies'[c][k] = replies[c][k]
        BY <3>1, <3>2 DEF ConnInv, RepliesInv
      <3>3. CASE replies'[c][k] = r
        BY <1>1, <1>2, <3>1, <3>3
      <3>. QED  BY <2>n, <3>2, <3>3
    <2>7. \A m \in Owed(c) : Answered(c, m)'
      BY <1>1, <1>3, <2>4 DEF ConnInv, RepliesInv, n
    <2>. QED  BY <1>1, <2>2, <2>5, <2>6, <2>7 DEF RepliesInv
  <1>4. CASE ~(link[c] = "open" /\ ~hungUp[c])
    <2>1. replies' = replies
      BY <1>4 DEF Write
    <2>2. \A m : Answered(c, m)' <=> Answered(c, m)
      BY <2>1 DEF Answered
    <2>. QED  BY <1>1, <1>4, <2>1, <2>2 DEF ConnInv, RepliesInv, TypeOK
  <1>. QED  BY <1>3, <1>4

(* The handler writes an error, or the responses of a batch. *)
LEMMA HandlerWritesStep ==
    ASSUME IInv, NEW c \in Conns, HandlerWrites(c)
    PROVE  IInv'
  <1>. USE DEF clientVars
  <1>0. /\ pc[c] = "write" /\ Write(c, reply[c])
        /\ pc' = [pc EXCEPT ![c] = IF msg[c].fate = "malformed" THEN "return" ELSE "decode"]
        /\ UNCHANGED <<link, hungUp, sent, inbox, msg, nextReq, reply, history, results,
                       pending, jobs>>
        /\ TypeOK /\ ConnInv(c)
    BY DEF HandlerWrites, IInv
  <1>1. /\ reply[c] = Answer(Len(history[c]), history[c][Len(history[c])])
        /\ reply[c] \in Reply /\ history[c] \in Seq(Entry) /\ Len(history[c]) \in Owed(c)
    BY <1>0, SMTT(30) DEF ConnInv, MessageInv, TypeOK, Owed
  <1>2. Due(c) /\ ~Due(c)' /\ pc'[c] \in {"return", "decode"}
    BY <1>0 DEF Due, TypeOK
  <1>3. RepliesInv(c)' /\ replies' \in [Conns -> Seq(Reply)]
        /\ \A d \in Conns : d # c => replies'[d] = replies[d]
    BY <1>0, <1>1, <1>2, AnswerWritten
  <1>4. TypeOK'
    BY <1>0, <1>3 DEF TypeOK, Place
  <1>5. ASSUME NEW d \in Conns, d # c PROVE ConnInv(d)'
    <2>1. Same(d) /\ Narrower(d)
      BY <1>0, <1>3, <1>5 DEF TypeOK, Same, Narrower, JobsOf
    <2>. QED  BY <2>1, Untouched DEF IInv
  <1>6. ConnInv(c)'
    <2>1. JobsOf(c)' = JobsOf(c) /\ Unsignalled(c)' = Unsignalled(c)
      BY <1>0 DEF JobsOf, Unsignalled
    <2>2. JobsInv(c)'
      BY <1>0, <1>2, <2>1 DEF ConnInv, JobsInv
    <2>3. MessageInv(c)' /\ ResultsInv(c)' /\ PendingInv(c)'
      BY <1>0, <1>2, <2>1 DEF ConnInv, MessageInv, ResultsInv, PendingInv
    <2>. QED  BY <1>3, <2>2, <2>3 DEF ConnInv
  <1>. QED  BY <1>4, <1>5, <1>6 DEF IInv

(* A request of the message gets a worker. *)
LEMMA SubmitStep ==
    ASSUME IInv, NEW c \in Conns, Submit(c)
    PROVE  IInv'
  <1>. USE DEF clientVars
  <1>. DEFINE new == [conn |-> c, no |-> Len(history[c]), idx |-> nextReq[c],
                      kind |-> msg[c].fate, hasId |-> msg[c].ids[nextReq[c]], at |-> "run"]
  <1>0. /\ pc[c] = "submit" /\ jobs' = jobs \union {new}
        /\ pending' = [pending EXCEPT ![c] = @ + 1]
        /\ nextReq' = [nextReq EXCEPT ![c] = @ + 1]
        /\ pc' = [pc EXCEPT ![c] = IF nextReq[c] = Len(msg[c].ids) THEN "wait" ELSE "submit"]
        /\ UNCHANGED <<link, hungUp, sent, inbox, outbox, msg, results, reply, history, replies>>
        /\ TypeOK /\ ConnInv(c)
    BY DEF Submit, IInv
  <1>1. /\ msg[c] \in Entry /\ Len(msg[c].ids) \in Nat /\ nextReq[c] \in 1 .. Len(msg[c].ids)
        /\ msg[c].ids \in Seq(BOOLEAN) /\ history[c] \in Seq(Entry) /\ Len(history[c]) \in Nat
        /\ Len(history[c]) > 0 /\ msg[c] = history[c][Len(history[c])]
        /\ msg[c].fate \in {"single", "batch"}
    <2>1. msg[c] \in Entry /\ history[c] \in Seq(Entry) /\ Len(history[c]) \in Nat
      BY <1>0, SMTT(30) DEF TypeOK
    <2>2. msg[c].ids \in Seq(BOOLEAN) /\ Len(msg[c].ids) \in Nat
      BY <2>1, SMTT(30) DEF Entry
    <2>. QED  BY <1>0, <2>1, <2>2 DEF ConnInv, MessageInv
  <1>2. new \in Job
    BY <1>1, SMTT(30) DEF Job, Entry
  <1>3. TypeOK'
    <2>. HIDE DEF new
    <2>1. IsFiniteSet(jobs')
      BY <1>0, FS_AddElement DEF TypeOK
    <2>2. pending' \in [Conns -> Int]
      <3>1. pending' = [pending EXCEPT ![c] = @ + 1] /\ pending \in [Conns -> Int]
        BY <1>0 DEF TypeOK
      <3>. QED  BY <3>1, SMTT(30)
    <2>3. nextReq' \in [Conns -> Nat]
      <3>1. nextReq' = [nextReq EXCEPT ![c] = @ + 1] /\ nextReq \in [Conns -> Nat]
        BY <1>0 DEF TypeOK
      <3>. QED  BY <3>1, SMTT(30)
    <2>4. pc' \in [Conns -> Place]
      <3>1. /\ \E p \in {"wait", "submit"} : pc' = [pc EXCEPT ![c] = p]
            /\ pc \in [Conns -> Place]
        BY <1>0 DEF TypeOK
      <3>. QED  BY <3>1, SMTT(30) DEF Place
    <2>5. jobs' \in SUBSET Job
      BY <1>0, <1>2 DEF TypeOK
    <2>. QED  BY <1>0, <2>1, <2>2, <2>3, <2>4, <2>5 DEF TypeOK
  <1>. HIDE DEF new
  <1>4. /\ new.conn = c /\ new.no = Len(history[c]) /\ new.idx = nextReq[c]
        /\ new.kind = msg[c].fate /\ new.hasId = msg[c].ids[nextReq[c]] /\ new.at = "run"
    BY DEF new
  <1>5. ASSUME NEW d \in Conns, d # c PROVE ConnInv(d)'
    <2>1. JobsOf(d)' = JobsOf(d)
      BY <1>0, <1>4, <1>5 DEF JobsOf
    <2>2. Same(d) /\ Narrower(d)
      BY <1>0, <1>5, <2>1 DEF TypeOK, Same, Narrower
    <2>. QED  BY <2>2, Untouched DEF IInv
  <1>6. ConnInv(c)'
    <2>1. /\ JobsOf(c)' = JobsOf(c) \union {new}
          /\ Unsignalled(c)' = Unsignalled(c) \union {new}
      BY <1>0, <1>4 DEF JobsOf, Unsignalled
    <2>2. /\ pc'[c] = IF nextReq[c] = Len(msg[c].ids) THEN "wait" ELSE "submit"
          /\ pending'[c] = pending[c] + 1 /\ nextReq'[c] = nextReq[c] + 1
          /\ msg'[c] = msg[c] /\ history'[c] = history[c] /\ results'[c] = results[c]
          /\ reply'[c] = reply[c] /\ replies'[c] = replies[c]
      BY <1>0 DEF TypeOK
    <2>0. JobsInv(c) /\ MessageInv(c) /\ ResultsInv(c) /\ pc[c] = "submit"
      BY <1>0 DEF ConnInv
    <2>3. \A j \in JobsOf(c) : j.no = Len(history[c]) => j.idx \in Nat /\ j.idx < nextReq[c]
      BY <1>1, <2>0, SMTT(30) DEF JobsInv
    <2>4. new \notin JobsOf(c)
      BY <1>1, <1>4, <2>3, SMTT(30)
    <2>5. JobsInv(c)'
      <3>1. \A j \in JobsOf(c) : j.no = Len(history[c]) => j.idx # new.idx
        BY <1>1, <1>4, <2>3, SMTT(30)
      <3>2. \A j, k \in JobsOf(c)' : j.no = k.no /\ j.idx = k.idx => j = k
        BY <1>4, <2>0, <2>1, <3>1, SMTT(30) DEF JobsInv
      <3>3. ASSUME NEW j \in JobsOf(c)'
            PROVE  /\ j.no \in 1 .. Len(history[c])
                   /\ j.idx \in 1 .. Len(history[c][j.no].ids)
                   /\ j.hasId = history[c][j.no].ids[j.idx]
                   /\ j.kind = history[c][j.no].fate
                   /\ j.at = "write" => j.kind = "single" /\ j.hasId
                   /\ j.at # "release" => j.no = Len(history[c])
                   /\ j.no = Len(history[c]) => j.idx < nextReq[c] + 1
        <4>1. CASE j \in JobsOf(c)
          BY <1>1, <2>0, <2>3, <4>1, SMTT(30) DEF JobsInv
        <4>2. CASE j = new
          BY <1>1, <1>4, <4>2, SMTT(30)
        <4>. QED  BY <2>1, <4>1, <4>2
      <3>. QED  BY <2>2, <3>2, <3>3 DEF JobsInv
    <2>6. MessageInv(c)'
      <3>1. /\ pc'[c] \in {"submit", "wait"}
            /\ pc'[c] = "submit" => nextReq'[c] \in 1 .. Len(msg[c].ids)
            /\ pc'[c] = "wait" => nextReq'[c] = Len(msg[c].ids) + 1
        <4>. DEFINE len == Len(msg[c].ids)
        <4>1. /\ len \in Nat /\ nextReq[c] \in 1 .. len /\ nextReq'[c] = nextReq[c] + 1
              /\ pc'[c] = IF nextReq[c] = len THEN "wait" ELSE "submit"
          BY <1>1, <2>2
        <4>. HIDE DEF len
        <4>2. /\ pc'[c] \in {"submit", "wait"}
              /\ pc'[c] = "submit" => nextReq'[c] \in 1 .. len
              /\ pc'[c] = "wait" => nextReq'[c] = len + 1
          BY <4>1, SMTT(30)
        <4>. QED  BY <4>2 DEF len
      <3>. QED  BY <1>1, <2>0, <2>2, <3>1 DEF MessageInv
    <2>7. ResultsInv(c)'
      <3>1. /\ 1 .. nextReq'[c] - 1 = (1 .. nextReq[c] - 1) \union {nextReq[c]}
            /\ nextReq[c] \notin 1 .. nextReq[c] - 1
        BY <1>1, <2>2, SMTT(30)
      <3>2. {i \in 1 .. nextReq'[c] - 1 :
                msg[c].ids[i] /\ \A j \in Unsignalled(c)' : j.idx # i}
            = {i \in 1 .. nextReq[c] - 1 :
                msg[c].ids[i] /\ \A j \in Unsignalled(c) : j.idx # i}
        BY <1>4, <2>1, <3>1
      <3>. QED  BY <2>0, <2>2, <3>2 DEF ResultsInv
    <2>8. PendingInv(c)'
      <3>1. IsFiniteSet(Unsignalled(c)) /\ new \notin Unsignalled(c)
        BY <1>0, <2>4, FS_Subset DEF TypeOK, Unsignalled, JobsOf
      <3>. QED  BY <1>0, <2>1, <2>2, <3>1, FS_AddElement DEF ConnInv, PendingInv
    <2>9. RepliesInv(c)'
      <3>1. Owed(c)' = Owed(c) /\ \A n : Answered(c, n)' <=> Answered(c, n)
        BY <2>2 DEF Owed, Answered
      <3>2. Due(c) /\ Due(c)'
        BY <1>0, <2>1, <2>2 DEF Due
      <3>. QED  BY <1>0, <2>2, <3>1, <3>2 DEF ConnInv, RepliesInv
    <2>. QED  BY <2>5, <2>6, <2>7, <2>8, <2>9 DEF ConnInv
  <1>. QED  BY <1>3, <1>5, <1>6 DEF IInv

(* All workers of the message have signalled, and the handler goes on. *)
LEMMA ResumeStep ==
    ASSUME IInv, NEW c \in Conns, HandlerResumes(c)
    PROVE  IInv'
  <1>. USE DEF clientVars
  <1>0. /\ pc[c] = "wait" /\ pending[c] = 0
        /\ UNCHANGED <<link, hungUp, inbox, msg, nextReq, history, results, pending, replies, jobs>>
        /\ TypeOK /\ ConnInv(c)
    BY DEF HandlerResumes, IInv
  <1>1. /\ msg[c] \in Entry /\ msg[c].ids \in Seq(BOOLEAN) /\ Len(msg[c].ids) \in Nat
        /\ history[c] \in Seq(Entry) /\ Len(history[c]) \in Nat
    <2>1. msg[c] \in Entry /\ history[c] \in Seq(Entry)
      BY <1>0 DEF TypeOK
    <2>. QED  BY <2>1, SMTT(30) DEF Entry
  <1>2. /\ Len(history[c]) > 0 /\ msg[c] = history[c][Len(history[c])]
        /\ reply[c].no = Len(history[c]) /\ reply[c].what = msg[c].fate
        /\ msg[c].fate \in {"single", "batch"} /\ nextReq[c] = Len(msg[c].ids) + 1
    BY <1>0 DEF ConnInv, MessageInv
  <1>3. /\ JobsOf(c)' = JobsOf(c) /\ Unsignalled(c)' = Unsignalled(c)
        /\ Unsignalled(c) = {}
    <2>1. IsFiniteSet(Unsignalled(c))
      BY <1>0, FS_Subset DEF TypeOK, Unsignalled, JobsOf
    <2>. QED  BY <1>0, <2>1, FS_EmptySet DEF ConnInv, PendingInv, JobsOf, Unsignalled
  <1>4. msg[c].fate = "batch" => results[c] = {i \in DOMAIN msg[c].ids : msg[c].ids[i]}
    <2>1. DOMAIN msg[c].ids = 1 .. nextReq[c] - 1
      BY <1>1, <1>2, SMTT(30)
    <2>. QED  BY <1>0, <1>3, <2>1 DEF ConnInv, ResultsInv
  <1>5. CASE msg[c].fate = "batch" /\ results[c] # {}
    <2>1. /\ reply' = [reply EXCEPT ![c].idxs = Indices(msg[c].ids, results[c])]
          /\ pc' = [pc EXCEPT ![c] = "write"]
      BY <1>5 DEF HandlerResumes
    <2>2. /\ reply'[c] = [reply[c] EXCEPT !.idxs = Indices(msg[c].ids, results[c])]
          /\ pc'[c] = "write" /\ reply[c] \in Reply /\ results[c] \in SUBSET Nat
      BY <1>0, <2>1 DEF TypeOK
    <2>3. reply'[c] \in Reply
      BY <1>1, <2>2, SMTT(30) DEF Reply, Listing
    <2>4. reply'[c] = Answer(Len(history[c]), msg[c]) /\ NeedsAnswer(msg[c])
      <3>1. NeedsAnswer(msg[c])
        BY <1>4, <1>5 DEF NeedsAnswer
      <3>2. reply[c] = [no |-> reply[c].no, what |-> reply[c].what, idxs |-> reply[c].idxs]
        BY <2>2 DEF Reply
      <3>. QED  BY <1>2, <1>4, <1>5, <2>2, <3>1, <3>2 DEF Answer
    <2>5. TypeOK'
      BY <1>0, <2>1, <2>3 DEF TypeOK, Place
    <2>6. ASSUME NEW d \in Conns, d # c PROVE ConnInv(d)'
      <3>1. Same(d) /\ Narrower(d)
        BY <1>0, <2>1, <2>6 DEF TypeOK, Same, Narrower, JobsOf
      <3>. QED  BY <3>1, Untouched DEF IInv
    <2>7. JobsInv(c)'
      BY <1>0, <1>3, <2>2 DEF ConnInv, JobsInv, Unsignalled
    <2>8. MessageInv(c)'
      <3>1. reply'[c].no = Len(history[c]) /\ reply'[c].what = msg[c].fate
        BY <2>4, SMTT(30) DEF Answer
      <3>. QED  BY <1>0, <1>2, <2>2, <2>4, <3>1 DEF ConnInv, MessageInv
    <2>9. RepliesInv(c)'
      <3>1. Owed(c)' = Owed(c) /\ \A n : Answered(c, n)' <=> Answered(c, n)
        BY <1>0 DEF Owed, Answered
      <3>2. Due(c) /\ Due(c)'
        BY <1>0, <1>5, <2>2 DEF Due
      <3>. QED  BY <1>0, <3>1, <3>2 DEF ConnInv, RepliesInv
    <2>10. ResultsInv(c)' /\ PendingInv(c)'
      BY <1>0, <1>3, <2>2 DEF ConnInv, ResultsInv, PendingInv
    <2>. QED  BY <2>5, <2>6, <2>7, <2>8, <2>9, <2>10 DEF ConnInv, IInv
  <1>6. CASE ~(msg[c].fate = "batch" /\ results[c] # {})
    <2>1. reply' = reply /\ pc' = [pc EXCEPT ![c] = "decode"]
      BY <1>6 DEF HandlerResumes
    <2>2. pc'[c] = "decode"
      BY <1>0, <2>1 DEF TypeOK
    <2>3. TypeOK'
      BY <1>0, <2>1 DEF TypeOK, Place
    <2>4. ASSUME NEW d \in Conns, d # c PROVE ConnInv(d)'
      <3>1. Same(d) /\ Narrower(d)
        BY <1>0, <2>1, <2>4 DEF TypeOK, Same, Narrower, JobsOf
      <3>. QED  BY <3>1, Untouched DEF IInv
    <2>5. JobsInv(c)'
      BY <1>0, <1>3, <2>2 DEF ConnInv, JobsInv, Unsignalled
    <2>6. MessageInv(c)' /\ ResultsInv(c)' /\ PendingInv(c)'
      BY <1>0, <1>3, <2>1, <2>2 DEF ConnInv, MessageInv, ResultsInv, PendingInv
    <2>7. RepliesInv(c)'
      <3>1. Owed(c)' = Owed(c) /\ \A n : Answered(c, n)' <=> Answered(c, n)
        BY <1>0 DEF Owed, Answered
      <3>2. ~Due(c)'
        BY <2>2 DEF Due
      <3>3. msg[c].fate = "batch" => Len(history[c]) \notin Owed(c)
        BY <1>2, <1>4, <1>6 DEF Owed, NeedsAnswer
      <3>4. msg[c].fate = "single" => ~Due(c)
        BY <1>0, <1>3 DEF Due
      <3>. QED  BY <1>0, <1>2, <3>1, <3>2, <3>3, <3>4 DEF ConnInv, RepliesInv
    <2>. QED  BY <2>3, <2>4, <2>5, <2>6, <2>7 DEF ConnInv, IInv
  <1>. QED  BY <1>5, <1>6

(* What moving a job does to the sets of jobs. *)
LEMMA MovedJob ==
    ASSUME TypeOK, NEW j \in jobs, NEW place \in {"write", "release"}, Moves(j, place)
    PROVE  /\ jobs' \in SUBSET Job /\ IsFiniteSet(jobs')
           /\ \A d \in Conns : d # j.conn => JobsOf(d)' = JobsOf(d)
           /\ \E k \in Job :
                 /\ k = [j EXCEPT !.at = place]
                 /\ k.conn = j.conn /\ k.no = j.no /\ k.idx = j.idx
                 /\ k.kind = j.kind /\ k.hasId = j.hasId /\ k.at = place
                 /\ JobsOf(j.conn)' = (JobsOf(j.conn) \ {j}) \union {k}
  <1>. DEFINE k == [j EXCEPT !.at = place]
  <1>1. j \in Job /\ jobs' = (jobs \ {j}) \union {k}
    BY DEF Moves, TypeOK
  <1>2. /\ k \in Job /\ k.conn = j.conn /\ k.no = j.no /\ k.idx = j.idx
        /\ k.kind = j.kind /\ k.hasId = j.hasId /\ k.at = place
    BY <1>1 DEF Job
  <1>3. jobs' \in SUBSET Job /\ IsFiniteSet(jobs')
    <2>1. IsFiniteSet(jobs \ {j})
      BY FS_Subset DEF TypeOK
    <2>. QED  BY <1>1, <1>2, <2>1, FS_AddElement DEF TypeOK
  <1>. HIDE DEF k
  <1>4. /\ \A d \in Conns : d # j.conn => JobsOf(d)' = JobsOf(d)
        /\ JobsOf(j.conn)' = (JobsOf(j.conn) \ {j}) \union {k}
    BY <1>1, <1>2 DEF JobsOf
  <1>. QED  BY <1>2, <1>3, <1>4 DEF k

(* A job's place in its message, and what it has signalled. *)
LEMMA WorkingJob ==
    ASSUME TypeOK, NEW c \in Conns, ConnInv(c), NEW j \in JobsOf(c), j.at # "release"
    PROVE  /\ pc[c] \in {"submit", "wait"} /\ Len(history[c]) \in 1 .. Len(history[c])
           /\ j.no = Len(history[c]) /\ msg[c] = history[c][j.no]
           /\ j.kind = msg[c].fate /\ j.hasId = msg[c].ids[j.idx]
           /\ j.idx \in 1 .. nextReq[c] - 1 /\ j.idx \in DOMAIN msg[c].ids
           /\ msg[c].fate \in {"single", "batch"}
           /\ msg[c].fate = "single" => pc[c] = "wait" /\ DOMAIN msg[c].ids = {1} /\ j.idx = 1
           /\ msg[c].fate = "single" => Unsignalled(c) = {j}
           /\ \A k \in Unsignalled(c) : k.idx = j.idx => k = j
  <1>1. /\ pc[c] \in {"submit", "wait"} /\ j.no = Len(history[c])
        /\ j.no \in 1 .. Len(history[c]) /\ j.idx \in 1 .. Len(history[c][j.no].ids)
        /\ j.hasId = history[c][j.no].ids[j.idx] /\ j.kind = history[c][j.no].fate
        /\ pc[c] = "submit" => j.idx < nextReq[c]
    BY DEF ConnInv, JobsInv
  <1>2. /\ msg[c] = history[c][j.no] /\ msg[c].fate \in {"single", "batch"}
        /\ pc[c] = "submit" => nextReq[c] \in 1 .. Len(msg[c].ids)
        /\ pc[c] = "wait" => nextReq[c] = Len(msg[c].ids) + 1
        /\ msg[c].fate = "single" => Len(msg[c].ids) = 1
    BY <1>1 DEF ConnInv, MessageInv
  <1>3. msg[c].ids \in Seq(BOOLEAN) /\ Len(msg[c].ids) \in Nat
        /\ DOMAIN msg[c].ids = 1 .. Len(msg[c].ids) /\ nextReq[c] \in Nat
    <2>1. msg[c] \in Entry /\ nextReq[c] \in Nat
      BY DEF TypeOK
    <2>. QED  BY <2>1, SMTT(30) DEF Entry
  <1>4. \A k \in Unsignalled(c) : k.no = Len(history[c]) /\ k.idx \in 1 .. Len(msg[c].ids)
    BY <1>1, <1>2, SMTT(30) DEF ConnInv, JobsInv, Unsignalled
  <1>5. \A k \in Unsignalled(c) : k.idx = j.idx => k = j
    BY <1>1, <1>4 DEF ConnInv, JobsInv, Unsignalled
  <1>6. msg[c].fate = "single" =>
            pc[c] = "wait" /\ DOMAIN msg[c].ids = {1} /\ j.idx = 1 /\ Unsignalled(c) = {j}
    <2>1. j \in Unsignalled(c)
      BY DEF Unsignalled
    <2>2. SUFFICES ASSUME msg[c].fate = "single"
                   PROVE  pc[c] = "wait" /\ DOMAIN msg[c].ids = {1} /\ j.idx = 1
                            /\ Unsignalled(c) = {j}
      OBVIOUS
    <2>3. Len(msg[c].ids) = 1
      BY <1>2, <2>2
    <2>4. DOMAIN msg[c].ids = {1}
      BY <1>3, <2>3, SMTT(30)
    <2>5. j.idx = 1 /\ pc[c] = "wait"
      BY <1>1, <1>2, <2>3, SMTT(30)
    <2>6. \A k \in Unsignalled(c) : k.idx = 1
      BY <1>4, <2>3, SMTT(30)
    <2>. QED  BY <1>5, <2>1, <2>4, <2>5, <2>6
  <1>. QED  BY <1>1, <1>2, <1>3, <1>5, <1>6, SMTT(30)

(* Moving a job keeps what JobsInv says of it. *)
LEMMA MovedJobInv ==
    ASSUME TypeOK, NEW c \in Conns, ConnInv(c), NEW j \in JobsOf(c), NEW k,
           k.no = j.no, k.idx = j.idx, k.kind = j.kind, k.hasId = j.hasId,
           k.at \in {"write", "release"}, j.at # "release",
           k.at = "write" => j.kind = "single" /\ j.hasId,
           JobsOf(c)' = (JobsOf(c) \ {j}) \union {k},
           pc'[c] = pc[c], history'[c] = history[c], nextReq'[c] = nextReq[c]
    PROVE  JobsInv(c)'
  <1>1. \A i \in JobsOf(c)' :
          /\ i.no \in 1 .. Len(history[c])
          /\ i.idx \in 1 .. Len(history[c][i.no].ids)
          /\ i.hasId = history[c][i.no].ids[i.idx]
          /\ i.kind = history[c][i.no].fate
          /\ i.at = "write" => i.kind = "single" /\ i.hasId
          /\ i.at # "release" => pc[c] \in {"submit", "wait"} /\ i.no = Len(history[c])
          /\ i.no = Len(history[c]) /\ pc[c] = "submit" => i.idx < nextReq[c]
    BY DEF ConnInv, JobsInv
  <1>2. \A i, l \in JobsOf(c)' : i.no = l.no /\ i.idx = l.idx => i = l
    BY SMTT(30) DEF ConnInv, JobsInv
  <1>. QED  BY <1>1, <1>2, SMTT(30) DEF JobsInv

(* A worker signals: one less is waited for. *)
LEMMA SignalCounts ==
    ASSUME TypeOK, NEW c \in Conns, ConnInv(c), NEW j \in JobsOf(c), j.at # "release",
           NEW k, k.at = "release", JobsOf(c)' = (JobsOf(c) \ {j}) \union {k},
           pending' = [pending EXCEPT ![c] = @ - 1]
    PROVE  Unsignalled(c)' = Unsignalled(c) \ {j} /\ PendingInv(c)'
  <1>1. Unsignalled(c)' = Unsignalled(c) \ {j} /\ j \in Unsignalled(c)
    BY DEF Unsignalled
  <1>2. IsFiniteSet(Unsignalled(c))
    BY FS_Subset DEF TypeOK, Unsignalled, JobsOf
  <1>3. Cardinality(Unsignalled(c) \ {j}) = Cardinality(Unsignalled(c)) - 1
    BY <1>1, <1>2, FS_RemoveElement
  <1>4. pending'[c] = pending[c] - 1
    BY DEF TypeOK
  <1>5. pending[c] = Cardinality(Unsignalled(c))
    BY DEF ConnInv, PendingInv
  <1>6. pending'[c] = Cardinality(Unsignalled(c)')
    BY <1>1, <1>3, <1>4, <1>5
  <1>. QED  BY <1>1, <1>6 DEF PendingInv

(* processRequest returns. *)
LEMMA ProcessStep ==
    ASSUME IInv, NEW j \in jobs, Process(j)
    PROVE  IInv'
  <1>. USE DEF clientVars, handlerVars
  <1>. DEFINE c == j.conn
  <1>0. /\ j.at = "run" /\ TypeOK /\ c \in Conns /\ j \in JobsOf(c) /\ ConnInv(c)
        /\ UNCHANGED <<link, hungUp, inbox, pc, msg, nextReq, reply, history, replies>>
    BY DEF Process, IInv, TypeOK, Job, JobsOf
  <1>1. /\ pc[c] \in {"submit", "wait"} /\ j.no = Len(history[c]) /\ msg[c] = history[c][j.no]
        /\ j.no \in DOMAIN history[c]
        /\ j.kind = msg[c].fate /\ j.hasId = msg[c].ids[j.idx] /\ j.hasId \in BOOLEAN
        /\ j.idx \in 1 .. nextReq[c] - 1 /\ j.idx \in DOMAIN msg[c].ids
        /\ msg[c].fate \in {"single", "batch"}
        /\ msg[c].fate = "single" => pc[c] = "wait" /\ DOMAIN msg[c].ids = {1} /\ j.idx = 1
        /\ msg[c].fate = "single" => Unsignalled(c) = {j}
        /\ \A k \in Unsignalled(c) : k.idx = j.idx => k = j
    <2>1. j.at # "release" /\ j \in Job
      BY <1>0 DEF TypeOK
    <2>2. j.no \in Nat /\ j.hasId \in BOOLEAN
      BY <2>1 DEF Job
    <2>3. Len(history[c]) \in 1 .. Len(history[c]) => Len(history[c]) \in DOMAIN history[c]
      BY <1>0, SMTT(30) DEF TypeOK
    <2>. HIDE DEF c
    <2>. QED  BY <1>0, <2>1, <2>2, <2>3, WorkingJob, SMTT(30)
  <1>. HIDE DEF c
  <1>2. Owed(c)' = Owed(c) /\ \A n : Answered(c, n)' <=> Answered(c, n)
    BY <1>0 DEF Owed, Answered
  <1>3. CASE j.kind = "single" /\ j.hasId
    <2>1. Moves(j, "write") /\ results' = results /\ pending' = pending
      BY <1>3 DEF Process
    <2>2. PICK k \in Job :
            /\ k.no = j.no /\ k.idx = j.idx /\ k.kind = j.kind /\ k.hasId = j.hasId
            /\ k.at = "write" /\ JobsOf(c)' = (JobsOf(c) \ {j}) \union {k}
      BY <1>0, <2>1, MovedJob DEF c
    <2>3. TypeOK' /\ \A d \in Conns : d # c => JobsOf(d)' = JobsOf(d)
      <3>1. /\ jobs' \in SUBSET Job /\ IsFiniteSet(jobs')
            /\ \A d \in Conns : d # c => JobsOf(d)' = JobsOf(d)
        BY <1>0, <2>1, MovedJob DEF c
      <3>. QED  BY <1>0, <2>1, <3>1 DEF TypeOK
    <2>4. ASSUME NEW d \in Conns, d # c PROVE ConnInv(d)'
      <3>1. Same(d) /\ Narrower(d)
        BY <1>0, <2>1, <2>3, <2>4 DEF Same, Narrower
      <3>. QED  BY <3>1, Untouched DEF IInv
    <2>5. JobsInv(c)'
      BY <1>0, <1>3, <2>2, MovedJobInv
    <2>6. Unsignalled(c)' = {k} /\ Unsignalled(c) = {j}
      BY <1>0, <1>1, <1>3, <2>2 DEF Unsignalled
    <2>7. MessageInv(c)' /\ ResultsInv(c)'
      BY <1>0, <1>1, <1>3 DEF ConnInv, MessageInv, ResultsInv
    <2>8. PendingInv(c)'
      BY <1>0, <2>1, <2>6, FS_Singleton DEF ConnInv, PendingInv
    <2>9. RepliesInv(c)'
      <3>1. Due(c)' /\ Due(c)
        BY <1>0, <1>1, <1>3, <2>6 DEF Due
      <3>. QED  BY <1>0, <1>2, <3>1 DEF ConnInv, RepliesInv
    <2>. QED  BY <2>3, <2>4, <2>5, <2>7, <2>8, <2>9 DEF ConnInv, IInv
  <1>4. CASE ~(j.kind = "single" /\ j.hasId)
    <2>1. /\ Moves(j, "release") /\ pending' = [pending EXCEPT ![c] = @ - 1]
          /\ results' = [results EXCEPT ![c] = IF j.hasId THEN @ \union {j.idx} ELSE @]
      BY <1>4 DEF Process, Signal, c
    <2>2. PICK k \in Job :
            /\ k.no = j.no /\ k.idx = j.idx /\ k.kind = j.kind /\ k.hasId = j.hasId
            /\ k.at = "release" /\ JobsOf(c)' = (JobsOf(c) \ {j}) \union {k}
      BY <1>0, <2>1, MovedJob DEF c
    <2>3. TypeOK' /\ \A d \in Conns : d # c => JobsOf(d)' = JobsOf(d)
      <3>1. /\ jobs' \in SUBSET Job /\ IsFiniteSet(jobs')
            /\ \A d \in Conns : d # c => JobsOf(d)' = JobsOf(d)
        BY <1>0, <2>1, MovedJob DEF c
      <3>2. j.idx \in Nat
        BY <1>0 DEF TypeOK, Job
      <3>3. results' \in [Conns -> SUBSET Nat] /\ pending' \in [Conns -> Int]
        BY <1>0, <2>1, <3>2, SMTT(30) DEF TypeOK
      <3>. QED  BY <1>0, <3>1, <3>3 DEF TypeOK
    <2>4. ASSUME NEW d \in Conns, d # c PROVE ConnInv(d)'
      <3>1. Same(d) /\ Narrower(d)
        BY <1>0, <2>1, <2>3, <2>4 DEF TypeOK, Same, Narrower
      <3>. QED  BY <3>1, Untouched DEF IInv
    <2>5. JobsInv(c)'
      BY <1>0, <2>2, MovedJobInv
    <2>6. Unsignalled(c)' = Unsignalled(c) \ {j} /\ PendingInv(c)'
      BY <1>0, <2>1, <2>2, SignalCounts
    <2>7. MessageInv(c)'
      BY <1>0 DEF ConnInv, MessageInv
    <2>8. ResultsInv(c)'
      <3>1. results'[c] = IF j.hasId THEN results[c] \union {j.idx} ELSE results[c]
        BY <1>0, <2>1 DEF TypeOK
      <3>2. SUFFICES ASSUME msg[c].fate = "batch"
                     PROVE  results'[c] = {i \in 1 .. nextReq[c] - 1 :
                                msg[c].ids[i] /\ \A l \in Unsignalled(c)' : l.idx # i}
        BY <1>0 DEF ResultsInv
      <3>3. results[c] = {i \in 1 .. nextReq[c] - 1 :
                            msg[c].ids[i] /\ \A l \in Unsignalled(c) : l.idx # i}
        BY <1>0, <1>1, <3>2 DEF ConnInv, ResultsInv
      <3>. QED  BY <1>1, <2>6, <3>1, <3>3, SMTT(30)
    <2>9. RepliesInv(c)'
      <3>1. CASE msg[c].fate = "batch"
        <4>1. Due(c)' <=> Due(c)
          BY <1>0, <3>1 DEF Due
        <4>. QED  BY <1>0, <1>2, <4>1 DEF ConnInv, RepliesInv
      <3>2. CASE msg[c].fate = "single"
        <4>1. ~Due(c)'
          BY <1>0, <1>1, <2>6, <3>2 DEF Due
        <4>2. Len(history[c]) \notin Owed(c)
          BY <1>1, <1>4, <3>2 DEF Owed, NeedsAnswer
        <4>. QED  BY <1>0, <1>2, <4>1, <4>2 DEF ConnInv, RepliesInv
      <3>. QED  BY <1>1, <3>1, <3>2
    <2>. QED  BY <2>3, <2>4, <2>5, <2>6, <2>7, <2>8, <2>9 DEF ConnInv, IInv
  <1>. QED  BY <1>3, <1>4

(* The worker of a single request writes its response. *)
LEMMA WorkerWritesStep ==
    ASSUME IInv, NEW j \in jobs, WorkerWrites(j)
    PROVE  IInv'
  <1>. USE DEF clientVars, handlerVars
  <1>. DEFINE c == j.conn
  <1>0. /\ j.at = "write" /\ TypeOK /\ c \in Conns /\ j \in JobsOf(c) /\ ConnInv(c)
        /\ Write(c, [no |-> j.no, what |-> "single", idxs |-> <<1>>])
        /\ pending' = [pending EXCEPT ![c] = @ - 1] /\ Moves(j, "release")
        /\ UNCHANGED <<link, hungUp, inbox, pc, msg, nextReq, reply, history, results>>
    BY DEF WorkerWrites, Signal, IInv, TypeOK, Job, JobsOf
  <1>1. /\ pc[c] \in {"submit", "wait"} /\ j.no = Len(history[c]) /\ msg[c] = history[c][j.no]
        /\ j.no \in DOMAIN history[c]
        /\ j.kind = msg[c].fate /\ j.hasId = msg[c].ids[j.idx] /\ j.no \in Nat
        /\ j.idx \in DOMAIN msg[c].ids
        /\ msg[c].fate = "single" => pc[c] = "wait" /\ Unsignalled(c) = {j}
    <2>1. j.at # "release" /\ j \in Job
      BY <1>0 DEF TypeOK
    <2>2. j.no \in Nat /\ j.hasId \in BOOLEAN
      BY <2>1 DEF Job
    <2>3. Len(history[c]) \in 1 .. Len(history[c]) => Len(history[c]) \in DOMAIN history[c]
      BY <1>0, SMTT(30) DEF TypeOK
    <2>. HIDE DEF c
    <2>. QED  BY <1>0, <2>1, <2>2, <2>3, WorkingJob, SMTT(30)
  <1>2. j.kind = "single" /\ j.hasId
    BY <1>0 DEF ConnInv, JobsInv
  <1>3. PICK k \in Job :
          /\ k.no = j.no /\ k.idx = j.idx /\ k.kind = j.kind /\ k.hasId = j.hasId
          /\ k.at = "release" /\ JobsOf(c)' = (JobsOf(c) \ {j}) \union {k}
    BY <1>0, MovedJob
  <1>4. /\ jobs' \in SUBSET Job /\ IsFiniteSet(jobs')
        /\ \A d \in Conns : d # c => JobsOf(d)' = JobsOf(d)
    BY <1>0, MovedJob
  <1>. HIDE DEF c
  <1>5. Unsignalled(c)' = Unsignalled(c) \ {j} /\ PendingInv(c)'
    BY <1>0, <1>3, SignalCounts
  <1>6. Due(c) /\ ~Due(c)'
    BY <1>0, <1>1, <1>2, <1>5 DEF Due
  <1>7. /\ RepliesInv(c)' /\ replies' \in [Conns -> Seq(Reply)]
        /\ \A d \in Conns : d # c => replies'[d] = replies[d]
    <2>1. Len(history[c]) \in Owed(c)
      BY <1>1, <1>2 DEF Owed, NeedsAnswer
    <2>2. Answer(Len(history[c]), history[c][Len(history[c])])
            = [no |-> j.no, what |-> "single", idxs |-> <<1>>]
      BY <1>1, <1>2 DEF Answer
    <2>3. [no |-> j.no, what |-> "single", idxs |-> <<1>>] \in Reply
      BY <1>1, SMTT(30) DEF Reply, Listing, Fates, MessageKind
    <2>. QED  BY <1>0, <1>6, <2>1, <2>2, <2>3, AnswerWritten
  <1>8. TypeOK'
    <2>1. pending' \in [Conns -> Int]
      BY <1>0, SMTT(30) DEF TypeOK
    <2>. QED  BY <1>0, <1>4, <1>7, <2>1 DEF TypeOK
  <1>9. ASSUME NEW d \in Conns, d # c PROVE ConnInv(d)'
    <2>1. Same(d) /\ Narrower(d)
      BY <1>0, <1>4, <1>7, <1>9 DEF TypeOK, Same, Narrower
    <2>. QED  BY <2>1, Untouched DEF IInv
  <1>10. ConnInv(c)'
    <2>1. JobsInv(c)'
      BY <1>0, <1>3, MovedJobInv
    <2>2. MessageInv(c)' /\ ResultsInv(c)'
      BY <1>0, <1>1, <1>2 DEF ConnInv, MessageInv, ResultsInv
    <2>. QED  BY <1>5, <1>7, <2>1, <2>2 DEF ConnInv
  <1>. QED  BY <1>8, <1>9, <1>10 DEF IInv

(* A worker gives its slot back: it has signalled long before. *)
LEMMA ReleaseStep ==
    ASSUME IInv, NEW j \in jobs, Release(j)
    PROVE  IInv'
  <1>. USE DEF clientVars, handlerVars
  <1>0. /\ j.at = "release" /\ jobs' = jobs \ {j} /\ TypeOK
        /\ UNCHANGED <<link, hungUp, inbox, pc, msg, nextReq, reply, history,
                       results, pending, replies>>
    BY DEF Release, IInv
  <1>1. TypeOK'
    <2>1. IsFiniteSet(jobs')
      BY <1>0, FS_RemoveElement DEF TypeOK
    <2>. QED  BY <1>0, <2>1 DEF TypeOK
  <1>2. ASSUME NEW d \in Conns PROVE ConnInv(d)'
    <2>0. ConnInv(d)
      BY DEF IInv
    <2>1. JobsOf(d)' \subseteq JobsOf(d) /\ Unsignalled(d)' = Unsignalled(d)
      BY <1>0 DEF JobsOf, Unsignalled
    <2>2. JobsInv(d)'
      BY <1>0, <2>0, <2>1 DEF ConnInv, JobsInv
    <2>3. MessageInv(d)' /\ ResultsInv(d)' /\ PendingInv(d)'
      <3>1. MessageInv(d)'
        BY <1>0, <2>0 DEF ConnInv, MessageInv
      <3>2. ResultsInv(d)'
        <4>1. /\ pc' = pc /\ msg' = msg /\ results' = results /\ nextReq' = nextReq
              /\ Unsignalled(d)' = Unsignalled(d)
          BY <1>0, <2>1
        <4>2. ResultsInv(d)
          BY <2>0 DEF ConnInv
        <4>. QED  BY <4>1, <4>2, SMTT(30) DEF ResultsInv
      <3>3. PendingInv(d)'
        BY <1>0, <2>0, <2>1 DEF ConnInv, PendingInv
      <3>. QED  BY <3>1, <3>2, <3>3
    <2>4. RepliesInv(d)'
      <3>1. Owed(d)' = Owed(d) /\ \A n : Answered(d, n)' <=> Answered(d, n)
        BY <1>0 DEF Owed, Answered
      <3>2. Due(d)' <=> Due(d)
        BY <1>0, <2>1 DEF Due
      <3>. QED  BY <1>0, <2>0, <3>1, <3>2 DEF ConnInv, RepliesInv
    <2>. QED  BY <2>2, <2>3, <2>4 DEF ConnInv
  <1>. QED  BY <1>1, <1>2 DEF IInv

(* What a worker goroutine does. *)
LEMMA WorkerStep ==
    ASSUME IInv, NEW j \in jobs, Worker(j)
    PROVE  IInv'
  BY ProcessStep, WorkerWritesStep, ReleaseStep DEF Worker

(* What a handler goroutine does. *)
LEMMA HandlerStep ==
    ASSUME IInv, NEW c \in Conns, Handler(c) \/ Submit(c)
    PROVE  IInv'
  BY DecodeStep, LeaveStep, HandlerWritesStep, ResumeStep, SubmitStep DEF Handler

(* What the client does, and the server that closes the connection. *)
LEMMA ClientStep ==
    ASSUME IInv, NEW c \in Conns, Client(c) \/ ForceClose(c)
    PROVE  IInv'
  <1>0. TypeOK
    BY DEF IInv
  <1>1. ASSUME NEW m \in Messages, Send(c, m) PROVE IInv'
    <2>1. inbox' \in [Conns -> Seq(Messages)]
      <3>1. Append(inbox[c], m) \in Seq(Messages)
        BY <1>0, SMTT(30) DEF TypeOK
      <3>. QED  BY <1>0, <1>1, <3>1 DEF Send, TypeOK
    <2>. QED  BY <1>0, <1>1, <2>1, OutsideStep DEF Send, TypeOK, Narrower
  <1>2. CASE Receive(c)
    BY <1>0, <1>2, OutsideStep DEF Receive, clientVars, TypeOK, Narrower
  <1>3. CASE HangUp(c)
    BY <1>0, <1>3, OutsideStep DEF HangUp, TypeOK, Narrower
  <1>4. CASE ForceClose(c)
    <2>1. link' \in [Conns -> LinkState]
      BY <1>0, <1>4 DEF ForceClose, TypeOK, LinkState
    <2>. QED  BY <1>0, <1>4, <2>1, OutsideStep DEF ForceClose, clientVars, TypeOK, Narrower
  <1>. QED  BY <1>1, <1>2, <1>3, <1>4 DEF Client

(* No step breaks the invariant. *)
LEMMA NextStep == IInv /\ [Next]_vars => IInv'
  <1>. SUFFICES ASSUME IInv, [Next]_vars PROVE IInv'
    OBVIOUS
  <1>0. TypeOK
    BY DEF IInv
  <1>1. CASE UNCHANGED vars
    BY <1>0, <1>1, OutsideStep DEF vars, handlerVars, TypeOK, Narrower
  <1>2. ASSUME NEW c \in Conns, Client(c) \/ ForceClose(c) PROVE IInv'
    BY <1>2, ClientStep
  <1>3. ASSUME NEW c \in Conns, Handler(c) \/ Submit(c) PROVE IInv'
    BY <1>3, HandlerStep
  <1>4. ASSUME NEW c \in Conns, Open(c) PROVE IInv'
    <2>1. link' \in [Conns -> LinkState] /\ \A d \in Conns : Narrower(d)
      BY <1>0, <1>4 DEF Open, Start, clientVars, TypeOK, LinkState, Narrower
    <2>. QED  BY <1>4, <2>1, StartStep DEF Open
  <1>5. ASSUME NEW c \in Conns, Return(c) PROVE IInv'
    <2>1. link' \in [Conns -> LinkState] /\ \A d \in Conns : Narrower(d)
      BY <1>0, <1>5 DEF Return, clientVars, TypeOK, LinkState, Narrower
    <2>. QED  BY <1>5, <2>1, LeaveStep
  <1>6. ASSUME NEW j \in jobs, Worker(j) PROVE IInv'
    BY <1>6, WorkerStep
  <1>. QED  BY <1>1, <1>2, <1>3, <1>4, <1>5, <1>6 DEF Next

(* The invariant holds throughout. *)
LEMMA Invariance == Spec => []IInv
  BY InitIInv, NextStep, PTL DEF Spec

(* A worker that writes is the only one that has not signalled. *)
LEMMA IInvOneWriter == IInv => OneWriter
  <1>. SUFFICES ASSUME IInv, NEW c \in Conns
                PROVE  LET writers == {j \in jobs : j.conn = c /\ j.at = "write"}
                       IN  /\ Cardinality(writers) <= 1
                           /\ pc[c] \in {"decode", "write", "return", "ended"} => writers = {}
                           /\ pending[c] =
                                Cardinality({j \in jobs : j.conn = c /\ j.at # "release"})
    BY DEF OneWriter
  <1>. DEFINE writers == {j \in jobs : j.conn = c /\ j.at = "write"}
  <1>0. TypeOK /\ ConnInv(c)
    BY DEF IInv
  <1>1. writers \subseteq Unsignalled(c)
    BY DEF Unsignalled, JobsOf
  <1>2. pc[c] \in {"decode", "write", "return", "ended"} => writers = {}
    BY <1>0, <1>1 DEF ConnInv, JobsInv, Unsignalled
  <1>3. \A j \in writers : writers = {j}
    <2>1. ASSUME NEW j \in writers PROVE Unsignalled(c) = {j}
      <3>1. j \in JobsOf(c) /\ j.at # "release" /\ j.kind = "single"
        BY <1>0 DEF JobsOf, ConnInv, JobsInv
      <3>. QED  BY <1>0, <3>1, WorkingJob, SMTT(30)
    <2>. QED  BY <1>1, <2>1
  <1>4. Cardinality(writers) <= 1
    <2>1. CASE writers = {}
      BY <2>1, FS_EmptySet, SMTT(30)
    <2>2. CASE writers # {}
      <3>1. PICK j : writers = {j}
        BY <1>3, <2>2
      <3>2. Cardinality(writers) = 1
        BY <3>1, FS_Singleton
      <3>. QED  BY <3>2, SMTT(30)
    <2>. QED  BY <2>1, <2>2
  <1>5. pending[c] = Cardinality({j \in jobs : j.conn = c /\ j.at # "release"})
    <2>1. Unsignalled(c) = {j \in jobs : j.conn = c /\ j.at # "release"}
      BY DEF Unsignalled, JobsOf
    <2>. QED  BY <1>0, <2>1 DEF ConnInv, PendingInv
  <1>. QED  BY <1>2, <1>4, <1>5

(* The invariant's own claim on replies is the stronger one. *)
LEMMA IInvAnsweredInOrder == IInv => AnsweredInOrder
  BY DEF IInv, ConnInv, RepliesInv, AnsweredInOrder, Due

(* For any connections, messages, pool and send buffers, no two goroutines   *)
(* write on a connection at once, and a handler waits for exactly the        *)
(* workers that have not signalled (handleSingleAsync, handleBatch,          *)
(* WorkerPool.Submit: server.go).                                            *)
THEOREM OneWriterHolds == Spec => []OneWriter
  BY Invariance, IInvOneWriter, PTL

(* And the replies a client sees are the answers to its messages, one        *)
(* each and in order (handleConn, handleBatch: server.go).                   *)
THEOREM AnsweredInOrderHolds == Spec => []AnsweredInOrder
  BY Invariance, IInvAnsweredInOrder, PTL
=============================================================================
