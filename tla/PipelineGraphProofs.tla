------------------------ MODULE PipelineGraphProofs ------------------------
(***************************************************************************)
(* What a finished run says about itself, for any settings and anything    *)
(* the segmenter may find.                                                 *)
(*                                                                         *)
(* The invariant says, for every place in the graph, what each node that   *)
(* has run left behind: an output or its error, never both, never neither. *)
(***************************************************************************)
EXTENDS PipelineGraph, TLAPS

UnderWay == {"calling", "replied", "recorded"}

Early == pc \in {"fetch", "segment", "rescue"}

\* What a branch has returned.
Returned(x) ==
    IF work[x] = "done"
    THEN \/ writes[x] = FailureOf(x) /\ audit[x] = "none"
         \/ writes[x] = ValueOf(x, "default") /\ audit[x] = "none"
         \/ writes[x] = ValueOf(x, "llm") /\ audit[x] # "none"
    ELSE writes[x] = NoUpdate /\ (audit[x] # "none" <=> work[x] = "recorded")

Order ==
    /\ pc \in {"extract", "peers", "write", "gate"} => settings.key
    /\ Early => state.sections = NULL /\ state.missing = {}
    /\ pc = "rescue" => local \in Segmentations /\ settings.key

Branches ==
    /\ \A x \in Extractors : Returned(x)
    /\ Early => \A x \in Extractors : work[x] = "idle"
    /\ \A x \in Extractors : work[x] \in UnderWay => pc = "extract"
    /\ Early \/ pc \in {"extract", "raised"} =>
          \A x \in Extractors : state.extractions[x] = NULL /\ x \notin state.errors
    /\ pc \in {"peers", "write", "gate"} \/ (pc = "done" /\ settings.key) =>
          \A x \in Extractors : work[x] = "done" /\ (x \in state.errors <=> x \in writes[x].errors)
    /\ NoExtractionLost

Writer ==
    /\ pc \notin {"gate", "done"} => state.redline = NULL /\ "writer" \notin state.errors
    /\ pc \notin {"write", "gate", "done"} => work["writer"] = "idle"
    /\ work["writer"] \in UnderWay => pc = "write"
    /\ pc = "gate" \/ (pc = "done" /\ settings.key) =>
          (state.redline = NULL <=> "writer" \in state.errors)
    /\ IF work["writer"] = "done" THEN state.redline = "llm" <=> audit["writer"] # "none"
       ELSE /\ state.redline # "llm"
            /\ audit["writer"] # "none" <=> work["writer"] = "recorded"

Rescuer ==
    /\ work["rescue"] = "recorded" => audit["rescue"] # "none"
    /\ state.rescued => audit["rescue"] # "none"

Sections ==
    /\ pc = "fetch" => ~state.pdf /\ "fetch" \notin state.errors
    /\ pc \notin {"fetch", "raised"} => (state.pdf <=> "fetch" \notin state.errors)
    /\ ~Early /\ pc # "raised" /\ (state.sections = NULL \/ state.missing # {})
          => "segment" \in state.errors
    /\ MissingIsAbsent

IInv == TypeOK /\ Order /\ Branches /\ Writer /\ Rescuer /\ Sections

-----------------------------------------------------------------------------
(* The updates of the branches. *)

LEMMA Sorts ==
    /\ Extractors \subseteq Callers /\ Extractors \subseteq Nodes
    /\ "rescue" \in Callers \ Extractors /\ "writer" \in Callers \ Extractors
    /\ {"fetch", "segment", "peers", "writer"} \subseteq Nodes \ Extractors
  BY DEF Extractors, Callers, Nodes

LEMMA Failure ==
    ASSUME NEW x \in Extractors
    PROVE  /\ FailureOf(x) \in Updates
           /\ FailureOf(x).errors = {x}
           /\ \A y \in Extractors : FailureOf(x).extractions[y] = NULL
  BY Sorts DEF FailureOf, NoUpdate, NoExtractions, Updates, Extractions, Values

LEMMA Value ==
    ASSUME NEW x \in Extractors, NEW v \in {"llm", "default"}
    PROVE  /\ ValueOf(x, v) \in Updates
           /\ ValueOf(x, v).errors = {}
           /\ \A y \in Extractors : ValueOf(x, v).extractions[y] = IF y = x THEN v ELSE NULL
  BY Sorts DEF ValueOf, NoUpdate, NoExtractions, Updates, Extractions, Values

LEMMA Nothing ==
    /\ NoUpdate \in Updates
    /\ NoUpdate.errors = {}
    /\ \A y \in Extractors : NoUpdate.extractions[y] = NULL
  BY DEF NoUpdate, NoExtractions, Updates, Extractions, Values

\* A branch that has returned has a value or an error, of its own.
LEMMA ReturnedIs ==
    ASSUME NEW x \in Extractors, Returned(x)
    PROVE  /\ writes[x] \in Updates
           /\ \A y \in Extractors \ {x} : /\ writes[x].extractions[y] = NULL
                                          /\ y \notin writes[x].errors
           /\ writes[x].errors \subseteq {x}
           /\ work[x] = "done" => (writes[x].extractions[x] = NULL <=> x \in writes[x].errors)
           /\ work[x] = "done" => (writes[x].extractions[x] = "llm" <=> audit[x] # "none")
  <1>1. CASE writes[x] = NoUpdate /\ work[x] # "done"
    BY <1>1, Nothing, NullDistinct
  <1>2. CASE writes[x] = FailureOf(x) /\ audit[x] = "none"
    BY <1>2, Failure, NullDistinct
  <1>3. CASE writes[x] = ValueOf(x, "default") /\ audit[x] = "none"
    BY <1>3, Value, NullDistinct
  <1>4. CASE writes[x] = ValueOf(x, "llm") /\ audit[x] # "none"
    BY <1>4, Value, NullDistinct
  <1> QED
    BY <1>1, <1>2, <1>3, <1>4 DEF Returned

\* Applied one after the other, the updates of different branches do not
\* overwrite each other.
LEMMA JoinKeeps ==
    ASSUME state \in ADVState, \A x \in Extractors : Returned(x),
           \A x \in Extractors : state.extractions[x] = NULL /\ x \notin state.errors,
           NEW s, s = Apply(Apply(Apply(state, writes["fee"]), writes["disciplinary"]),
                            writes["conflicts"])
    PROVE  /\ s \in ADVState
           /\ \A x \in Extractors : s.extractions[x] = writes[x].extractions[x]
           /\ \A x \in Extractors : x \in s.errors <=> x \in writes[x].errors
           /\ \A n \in Nodes \ Extractors : n \in s.errors <=> n \in state.errors
           /\ s.pdf = state.pdf /\ s.sections = state.sections /\ s.missing = state.missing
           /\ s.rescued = state.rescued
           /\ s.peer_context = state.peer_context /\ s.redline = state.redline
           /\ s.review_status = state.review_status /\ s.report_hash = state.report_hash
  <1> DEFINE f == writes["fee"]
             d == writes["disciplinary"]
             c == writes["conflicts"]
             e == [x \in Extractors |->
                     IF c.extractions[x] # NULL THEN c.extractions[x]
                     ELSE IF d.extractions[x] # NULL THEN d.extractions[x]
                     ELSE IF f.extractions[x] # NULL THEN f.extractions[x]
                     ELSE state.extractions[x]]
             r == [state EXCEPT !.extractions = e,
                                !.errors = ((@ \cup f.errors) \cup d.errors) \cup c.errors]
  <1>1. "fee" \in Extractors /\ "disciplinary" \in Extractors /\ "conflicts" \in Extractors
        /\ Extractors = {"fee", "disciplinary", "conflicts"}
    BY DEF Extractors
  <1>2. f \in Updates /\ d \in Updates /\ c \in Updates
    BY <1>1, ReturnedIs
  <1>3. \A x \in Extractors : e[x] = writes[x].extractions[x]
    BY <1>1, ReturnedIs
  <1>4. s = r
    BY <1>2 DEF Apply, MergeExtractions, AddErrors, ADVState, Extractions
  <1>5. e \in Extractions
    BY <1>2 DEF Updates, Extractions, ADVState
  <1>6. f.errors \subseteq {"fee"} /\ d.errors \subseteq {"disciplinary"}
        /\ c.errors \subseteq {"conflicts"}
    BY <1>1, ReturnedIs
  <1> HIDE DEF e
  <1>7. /\ r \in ADVState
        /\ r.extractions = e
        /\ r.errors = ((state.errors \cup f.errors) \cup d.errors) \cup c.errors
        /\ r.pdf = state.pdf /\ r.sections = state.sections /\ r.missing = state.missing
        /\ r.rescued = state.rescued
        /\ r.peer_context = state.peer_context /\ r.redline = state.redline
        /\ r.review_status = state.review_status /\ r.report_hash = state.report_hash
    BY <1>2, <1>5 DEF ADVState, Updates
  <1>8. \A x \in Extractors : x \in r.errors <=> x \in writes[x].errors
    BY <1>1, <1>6, <1>7
  <1>9. \A n \in Nodes \ Extractors : n \in r.errors <=> n \in state.errors
    BY <1>1, <1>6, <1>7
  <1> QED
    BY <1>3, <1>4, <1>7, <1>8, <1>9

-----------------------------------------------------------------------------
(* The calls. *)

\* The parts that are about the state alone.
LEMMA StateKept ==
    ASSUME IInv, UNCHANGED <<settings, pc, local, state>>
    PROVE  Order' /\ Sections'
  BY DEF IInv, Order, Early, Sections, MissingIsAbsent, Absent

\* The parts about the branches, and about the writer, when nobody of them
\* takes a step.
LEMMA BranchesKept ==
    ASSUME IInv, UNCHANGED <<settings, pc, state, writes>>,
           \A x \in Extractors : work'[x] = work[x] /\ audit'[x] = audit[x]
    PROVE  Branches'
  <1>1. \A x \in Extractors : Returned(x)'
    BY DEF IInv, Branches, Returned, FailureOf, ValueOf, NoUpdate, NoExtractions
  <1> QED
    BY <1>1 DEF IInv, Branches, Early, NoExtractionLost

LEMMA WriterKept ==
    ASSUME IInv, UNCHANGED <<settings, pc, state>>,
           work'["writer"] = work["writer"] /\ audit'["writer"] = audit["writer"]
    PROVE  Writer'
  BY DEF IInv, Writer, UnderWay

LEMMA RescuerKept ==
    ASSUME IInv, state'.rescued = state.rescued,
           work'["rescue"] = work["rescue"], audit'["rescue"] = audit["rescue"]
    PROVE  Rescuer'
  BY DEF IInv, Rescuer

\* A call gets its reply, or the record of it is written.
LEMMA CallStep ==
    ASSUME IInv, NEW c \in Callers, NEW w \in {"replied", "recorded"},
           work[c] = IF w = "replied" THEN "calling" ELSE "replied",
           work' = [work EXCEPT ![c] = w],
           audit' \in [Callers -> Records], \A d \in Callers \ {c} : audit'[d] = audit[d],
           IF w = "replied" THEN audit' = audit ELSE audit'[c] # "none",
           UNCHANGED <<settings, pc, local, state, writes>>
    PROVE  IInv'
  <1>1. work \in [Callers -> Progress]
    BY DEF IInv, TypeOK
  <1>2. TypeOK'
    BY <1>1 DEF IInv, TypeOK, Progress
  <1>3. \A d \in Callers : IF d = c THEN work'[d] = w ELSE work'[d] = work[d]
    BY <1>1
  <1>4. Branches'
    <2>1. ASSUME NEW x \in Extractors
          PROVE  Returned(x)'
      <3>1. CASE x # c
        <4>1. work'[x] = work[x] /\ audit'[x] = audit[x]
          BY <1>3, <3>1, Sorts
        <4> QED
          BY <4>1 DEF IInv, Branches, Returned, FailureOf, ValueOf, NoUpdate, NoExtractions
      <3>2. CASE x = c
        <4>1. /\ writes[x] = NoUpdate
              /\ w = "replied" => audit'[x] = "none"
          BY <3>2 DEF IInv, Branches, Returned
        <4> QED
          BY <1>3, <3>2, <4>1 DEF Returned, NoUpdate, NoExtractions
      <3> QED
        BY <3>1, <3>2
    <2>2. \A x \in Extractors : IF x = c THEN work[x] \in UnderWay ELSE work'[x] = work[x]
      BY <1>3, Sorts DEF UnderWay
    <2> QED
      BY <2>1, <2>2 DEF IInv, Branches, Early, NoExtractionLost, UnderWay
  <1>5. Writer'
    <2>1. CASE c = "writer"
      BY <1>3, <2>1 DEF IInv, Writer, UnderWay
    <2>2. CASE c # "writer"
      <3>1. work'["writer"] = work["writer"] /\ audit'["writer"] = audit["writer"]
        BY <1>3, <2>2, Sorts
      <3> QED
        BY <3>1, WriterKept
    <2> QED
      BY <2>1, <2>2
  <1>6. Rescuer'
    <2>1. CASE c = "rescue"
      BY <1>3, <2>1 DEF IInv, Rescuer
    <2>2. CASE c # "rescue"
      <3>1. work'["rescue"] = work["rescue"] /\ audit'["rescue"] = audit["rescue"]
        BY <1>3, <2>2, Sorts
      <3> QED
        BY <3>1, RescuerKept
    <2> QED
      BY <2>1, <2>2
  <1> QED
    BY <1>2, <1>4, <1>5, <1>6, StateKept DEF IInv

LEMMA ReplySound ==
    ASSUME IInv, NEW c \in Callers, Reply(c) \/ Record(c)
    PROVE  IInv'
  <1>0. audit \in [Callers -> Records]
    BY DEF IInv, TypeOK
  <1>1. CASE Reply(c)
    BY <1>0, <1>1, CallStep DEF Reply
  <1>2. CASE Record(c)
    <2>1. PICK place \in {"row", "log"} : audit' = [audit EXCEPT ![c] = place]
      BY <1>2 DEF Record
    <2>2. /\ audit' \in [Callers -> Records] /\ audit'[c] # "none"
          /\ \A d \in Callers \ {c} : audit'[d] = audit[d]
      BY <1>0, <2>1 DEF Records
    <2> QED
      BY <1>2, <2>2, CallStep DEF Record
  <1> QED
    BY <1>1, <1>2

\* A branch takes a step.
LEMMA BranchStep ==
    ASSUME IInv, NEW x \in Extractors, pc = "extract",
           NEW w \in {"calling", "done"}, work' = [work EXCEPT ![x] = w],
           UNCHANGED <<settings, pc, local, state, audit>>,
           NEW u \in Updates, writes' = [writes EXCEPT ![x] = u],
           IF w = "done" THEN \/ u = FailureOf(x) /\ audit[x] = "none"
                              \/ u = ValueOf(x, "default") /\ audit[x] = "none"
                              \/ u = ValueOf(x, "llm") /\ audit[x] # "none"
                         ELSE u = NoUpdate /\ audit[x] = "none"
    PROVE  IInv'
  <1>0. /\ work \in [Callers -> Progress]
        /\ writes \in [Extractors -> Updates]
        /\ x \in Callers /\ x # "writer" /\ x # "rescue"
    BY Sorts DEF IInv, TypeOK
  <1>1. TypeOK'
    BY <1>0 DEF IInv, TypeOK, Progress
  <1>2. Returned(x)'
    <2>1. work'[x] = w /\ writes'[x] = u
      BY <1>0
    <2> QED
      BY <2>1 DEF Returned, FailureOf, ValueOf, NoUpdate, NoExtractions
  <1>3. ASSUME NEW y \in Extractors \ {x}
        PROVE  Returned(y)'
    <2>1. work'[y] = work[y] /\ writes'[y] = writes[y]
      BY <1>0, Sorts
    <2> QED
      BY <2>1 DEF IInv, Branches, Returned, FailureOf, ValueOf, NoUpdate, NoExtractions
  <1>4. Branches'
    BY <1>2, <1>3 DEF IInv, Branches, Early, NoExtractionLost
  <1>5. Writer' /\ Rescuer'
    <2>1. work'["writer"] = work["writer"] /\ work'["rescue"] = work["rescue"]
      BY <1>0, Sorts
    <2> QED
      BY <2>1, WriterKept, RescuerKept
  <1> QED
    BY <1>1, <1>4, <1>5, StateKept DEF IInv

LEMMA ExtractSound ==
    ASSUME IInv, NEW x \in Extractors, Extract(x)
    PROVE  IInv'
  <1>0. /\ writes \in [Extractors -> Updates] /\ audit' = audit
        /\ work[x] = "idle" /\ pc = "extract"
        /\ writes[x] = NoUpdate /\ audit[x] = "none"
    BY DEF IInv, TypeOK, Extract, Branches, Returned
  <1>1. CASE work' = [work EXCEPT ![x] = "done"] /\ Returns(x, FailureOf(x))
    BY <1>0, <1>1, Failure, BranchStep DEF Returns
  <1>2. CASE work' = [work EXCEPT ![x] = "done"] /\ Returns(x, ValueOf(x, "default"))
    BY <1>0, <1>2, Value, BranchStep DEF Returns
  <1>3. CASE Call(x) /\ UNCHANGED <<settings, pc, local, state, writes>>
    <2>1. writes' = [writes EXCEPT ![x] = NoUpdate]
      BY <1>0, <1>3
    <2> QED
      BY <1>0, <1>3, <2>1, Nothing, BranchStep DEF Call
  <1> QED
    BY <1>1, <1>2, <1>3 DEF Extract

LEMMA ExtractEndsSound ==
    ASSUME IInv, NEW x \in Extractors, ExtractFails(x) \/ ExtractDone(x)
    PROVE  IInv'
  <1>1. /\ work[x] = IF ExtractFails(x) THEN "calling" ELSE "recorded"
        /\ work' = [work EXCEPT ![x] = "done"]
    BY DEF ExtractFails, ExtractDone, CallFails, Resumes
  <1>2. pc = "extract" /\ (audit[x] # "none" <=> work[x] = "recorded")
    BY <1>1 DEF IInv, Branches, UnderWay, Returned
  <1>3. CASE ExtractFails(x)
    BY <1>1, <1>2, <1>3, Failure, BranchStep DEF ExtractFails, Returns
  <1>4. CASE ~ExtractFails(x) /\ ExtractDone(x)
    BY <1>1, <1>2, <1>4, Value, BranchStep DEF ExtractDone, Resumes, Returns
  <1> QED
    BY <1>3, <1>4

LEMMA JoinSound ==
    ASSUME IInv, Join
    PROVE  IInv'
  <1>1. /\ pc = "extract" /\ pc' = "peers" /\ UNCHANGED <<settings, local, work, writes, audit>>
        /\ \A x \in Extractors : work[x] = "done"
    BY DEF Join
  <1>2. /\ state' \in ADVState
        /\ \A x \in Extractors : state'.extractions[x] = writes[x].extractions[x]
        /\ \A x \in Extractors : x \in state'.errors <=> x \in writes[x].errors
        /\ \A n \in Nodes \ Extractors : n \in state'.errors <=> n \in state.errors
        /\ state'.pdf = state.pdf /\ state'.sections = state.sections
        /\ state'.missing = state.missing /\ state'.redline = state.redline
        /\ state'.rescued = state.rescued
    BY <1>1, JoinKeeps DEF Join, IInv, TypeOK, Branches
  <1>3. \A n \in {"fetch", "segment", "writer"} : n \in state'.errors <=> n \in state.errors
    BY <1>2, Sorts
  <1>4. TypeOK'
    BY <1>1, <1>2 DEF IInv, TypeOK, Places
  <1>5. Order'
    BY <1>1 DEF IInv, Order, Early
  <1>6. Branches'
    <2>1. \A x \in Extractors : Returned(x)'
      BY <1>1 DEF IInv, Branches, Returned, FailureOf, ValueOf, NoUpdate, NoExtractions
    <2> QED
      BY <1>1, <1>2, <2>1 DEF Branches, Early, NoExtractionLost, UnderWay
  <1>7. Writer'
    BY <1>1, <1>2, <1>3 DEF IInv, Writer
  <1>8. Rescuer'
    BY <1>1, <1>2, RescuerKept
  <1>9. Sections'
    BY <1>1, <1>2, <1>3 DEF IInv, Sections, Early, MissingIsAbsent, Absent
  <1> QED
    BY <1>4, <1>5, <1>6, <1>7, <1>8, <1>9 DEF IInv

-----------------------------------------------------------------------------
(* After the join. *)

\* The nodes after the join leave the fields of the others alone.
LEMMA LateStep ==
    ASSUME IInv, pc \in {"peers", "write", "gate"}, pc' \in {"write", "gate", "done"},
           UNCHANGED <<settings, local, writes>>, state' \in ADVState,
           \A c \in Callers \ {"writer"} : work'[c] = work[c], UNCHANGED audit,
           state'.extractions = state.extractions, state'.pdf = state.pdf,
           state'.sections = state.sections, state'.missing = state.missing,
           state'.rescued = state.rescued,
           \A n \in Extractors \cup {"fetch", "segment"} :
              n \in state'.errors <=> n \in state.errors
    PROVE  Order' /\ Branches' /\ Rescuer' /\ Sections'
  <1>0. \A x \in Extractors : work'[x] = work[x]
    BY Sorts
  <1>1. Order'
    BY DEF IInv, Order, Early
  <1>2. \A x \in Extractors : Returned(x)'
    BY <1>0 DEF IInv, Branches, Returned, FailureOf, ValueOf, NoUpdate, NoExtractions
  <1>3. Branches'
    BY <1>0, <1>2 DEF IInv, Branches, Early, NoExtractionLost, UnderWay
  <1>4. Sections'
    BY DEF IInv, Sections, Early, MissingIsAbsent, Absent
  <1>5. Rescuer'
    BY Sorts, RescuerKept
  <1> QED
    BY <1>1, <1>3, <1>4, <1>5

LEMMA RetrievePeersSound ==
    ASSUME IInv, RetrievePeers
    PROVE  IInv'
  <1>1. /\ pc = "peers" /\ pc' = "write" /\ UNCHANGED <<settings, local, work, writes, audit>>
        /\ state \in ADVState
    BY DEF IInv, TypeOK, RetrievePeers
  <1>2. PICK failed \in SUBSET ItemsToQuery, hits \in BOOLEAN :
          state' = [state EXCEPT
                         !.peer_context = hits,
                         !.errors = IF failed = {} THEN @ ELSE AddErrors(@, {"peers"})]
    BY DEF RetrievePeers
  <1>3. /\ state' \in ADVState
        /\ state'.extractions = state.extractions /\ state'.pdf = state.pdf
        /\ state'.sections = state.sections /\ state'.missing = state.missing
        /\ state'.redline = state.redline /\ state'.rescued = state.rescued
        /\ state'.errors \in {state.errors, state.errors \cup {"peers"}}
    BY <1>1, <1>2, Sorts DEF ADVState, AddErrors
  <1>4. \A n \in Extractors \cup {"fetch", "segment", "writer"} :
           n \in state'.errors <=> n \in state.errors
    BY <1>3 DEF Extractors
  <1>5. TypeOK'
    BY <1>1, <1>3 DEF IInv, TypeOK, Places
  <1>6. Writer'
    BY <1>1, <1>3, <1>4 DEF IInv, Writer
  <1> QED
    BY <1>1, <1>3, <1>4, <1>5, <1>6, LateStep DEF IInv

LEMMA WriterSound ==
    ASSUME IInv, Write \/ WriteFails \/ WriteDone
    PROVE  IInv'
  <1>1. /\ pc = "write" /\ UNCHANGED <<settings, local, writes, audit>> /\ state \in ADVState
        /\ "writer" \notin state.errors /\ state.redline = NULL
        /\ "writer" \in Callers
        /\ work \in [Callers -> Progress]
    BY Sorts DEF IInv, TypeOK, Writer, UnderWay, Write, WriteFails, WriteDone, CallFails,
                 Resumes
  <1>2. PICK w \in {work["writer"], "calling", "done"} :
           /\ work' = [work EXCEPT !["writer"] = w]
           /\ \/ /\ w = "calling" /\ work["writer"] = "idle"
                 /\ UNCHANGED <<pc, state>>
              \/ /\ w = "idle" /\ work["writer"] = "idle"
                 /\ pc' = "gate" /\ state' = [state EXCEPT !.redline = "stub"]
              \/ /\ w = "done" /\ work["writer"] = "calling"
                 /\ pc' = "gate" /\ state' = Fails("writer")
              \/ /\ w = "done" /\ work["writer"] = "recorded"
                 /\ pc' = "gate" /\ state' = [state EXCEPT !.redline = "llm"]
    BY <1>1 DEF Write, WriteFails, WriteDone, Call, CallFails, Resumes
  <1>3. /\ work' \in [Callers -> Progress] /\ work'["writer"] = w
        /\ \A c \in Callers \ {"writer"} : work'[c] = work[c]
    BY <1>1, <1>2 DEF Progress
  <1>4. /\ state' \in ADVState
        /\ state'.extractions = state.extractions /\ state'.pdf = state.pdf
        /\ state'.sections = state.sections /\ state'.missing = state.missing
        /\ state'.rescued = state.rescued
        /\ state'.errors \in {state.errors, state.errors \cup {"writer"}}
    BY <1>1, <1>2, Sorts DEF ADVState, Fails, AddErrors
  <1>5. \A n \in Extractors \cup {"fetch", "segment"} :
           n \in state'.errors <=> n \in state.errors
    BY <1>4 DEF Extractors
  <1>6. TypeOK'
    BY <1>1, <1>2, <1>3, <1>4 DEF IInv, TypeOK, Places
  <1>7. Writer'
    <2>1. audit["writer"] # "none" <=> work["writer"] = "recorded"
      BY <1>1, <1>2, NullDistinct DEF IInv, Writer
    <2>2. CASE UNCHANGED <<pc, state>>
      BY <1>1, <1>2, <1>3, <2>1, <2>2, NullDistinct DEF Writer, UnderWay
    <2>3. CASE pc' = "gate"
      <3>1. \/ w = "idle" /\ state'.redline = "stub" /\ "writer" \notin state'.errors
            \/ /\ w = "done" /\ work["writer"] = "calling"
               /\ state'.redline = NULL /\ "writer" \in state'.errors
            \/ /\ w = "done" /\ work["writer"] = "recorded"
               /\ state'.redline = "llm" /\ "writer" \notin state'.errors
        BY <1>1, <1>2, <2>3 DEF ADVState, Fails, AddErrors
      <3> QED
        BY <1>1, <1>2, <1>3, <2>1, <2>3, <3>1, NullDistinct DEF Writer, UnderWay
    <2> QED
      BY <1>2, <2>2, <2>3
  <1> QED
    BY <1>1, <1>2, <1>3, <1>4, <1>5, <1>6, <1>7, LateStep DEF IInv

LEMMA HitlGateSound ==
    ASSUME IInv, HitlGate
    PROVE  IInv'
  <1>1. /\ pc = "gate" /\ pc' = "done" /\ UNCHANGED <<settings, local, work, writes, audit>>
        /\ state \in ADVState /\ state' = Marked(state) /\ settings.key
    BY DEF IInv, TypeOK, Order, HitlGate
  <1>2. /\ state' \in ADVState
        /\ state'.extractions = state.extractions /\ state'.pdf = state.pdf
        /\ state'.sections = state.sections /\ state'.missing = state.missing
        /\ state'.redline = state.redline /\ state'.errors = state.errors
        /\ state'.rescued = state.rescued
    BY <1>1 DEF ADVState, Marked
  <1>3. TypeOK'
    BY <1>1, <1>2 DEF IInv, TypeOK, Places
  <1>4. Writer'
    BY <1>1, <1>2 DEF IInv, Writer, UnderWay
  <1> QED
    BY <1>1, <1>2, <1>3, <1>4, LateStep DEF IInv

-----------------------------------------------------------------------------
(* Before the branches. *)

LEMMA EarlyStep ==
    ASSUME IInv, Early, UNCHANGED <<settings, writes>>, state' \in ADVState,
           pc' \in {"segment", "rescue", "extract", "done", "raised"},
           pc' = "extract" => settings.key, pc' = "done" => ~settings.key,
           \A c \in Extractors \cup {"writer"} : work'[c] = work[c], UNCHANGED audit,
           state'.extractions = state.extractions, state'.redline = state.redline,
           \A n \in Extractors \cup {"writer"} : n \in state'.errors <=> n \in state.errors
    PROVE  Branches' /\ Writer'
  <1>1. \A x \in Extractors : Returned(x)'
    BY DEF IInv, Branches, Returned, FailureOf, ValueOf, NoUpdate, NoExtractions
  <1>2. \A x \in Extractors : work[x] = "idle" /\ writes[x].extractions[x] = NULL
    <2>1. \A x \in Extractors : writes[x] = NoUpdate /\ work[x] = "idle"
      BY DEF IInv, Branches, Returned
    <2> QED
      BY <2>1, Nothing
  <1>3. NoExtractionLost'
    BY <1>2 DEF IInv, Branches, NoExtractionLost
  <1>4. Branches'
    BY <1>1, <1>2, <1>3 DEF IInv, Branches, Early, UnderWay
  <1>5. Writer'
    BY DEF IInv, Writer, Early, UnderWay
  <1> QED
    BY <1>4, <1>5

\* The state of a run that fails in a node, or returns what it found.
LEMMA FailsIs ==
    ASSUME state \in ADVState, NEW n \in {"fetch", "segment"}
    PROVE  /\ Fails(n) \in ADVState
           /\ Fails(n).errors = state.errors \cup {n}
           /\ Fails(n).extractions = state.extractions /\ Fails(n).redline = state.redline
           /\ Fails(n).rescued = state.rescued
           /\ Fails(n).pdf = state.pdf /\ Fails(n).sections = state.sections
           /\ Fails(n).missing = state.missing
  BY Sorts DEF Fails, AddErrors, ADVState

LEMMA FetchSound ==
    ASSUME IInv, Fetch
    PROVE  IInv'
  <1>1. /\ pc = "fetch" /\ pc' = "segment" /\ UNCHANGED <<settings, local, work, writes, audit>>
        /\ state \in ADVState /\ ~state.pdf /\ "fetch" \notin state.errors
        /\ state.sections = NULL /\ state.missing = {}
    BY DEF Fetch, IInv, TypeOK, Sections, Order, Early
  <1>2. CASE state' = Fails("fetch")
    <2>1. TypeOK'
      BY <1>1, <1>2, FailsIs DEF IInv, TypeOK, Places
    <2>2. Branches' /\ Writer'
      BY <1>1, <1>2, FailsIs, EarlyStep DEF Early, Extractors
    <2>3. Order' /\ Sections'
      BY <1>1, <1>2, FailsIs DEF IInv, Order, Sections, Early, MissingIsAbsent
    <2>4. Rescuer'
      BY <1>1, <1>2, FailsIs, RescuerKept
    <2> QED
      BY <2>1, <2>2, <2>3, <2>4 DEF IInv
  <1>3. CASE state' = [state EXCEPT !.pdf = TRUE]
    <2>0. /\ state' \in ADVState /\ state'.pdf /\ state'.errors = state.errors
          /\ state'.extractions = state.extractions /\ state'.redline = state.redline
          /\ state'.rescued = state.rescued
          /\ state'.sections = state.sections /\ state'.missing = state.missing
      BY <1>1, <1>3 DEF ADVState
    <2>1. TypeOK'
      BY <1>1, <2>0 DEF IInv, TypeOK, Places
    <2>2. Branches' /\ Writer'
      BY <1>1, <2>0, EarlyStep DEF Early
    <2>3. Order' /\ Sections'
      BY <1>1, <2>0 DEF IInv, Order, Sections, Early, MissingIsAbsent
    <2>4. Rescuer'
      BY <1>1, <2>0, RescuerKept
    <2> QED
      BY <2>1, <2>2, <2>3, <2>4 DEF IInv
  <1> QED
    BY <1>2, <1>3 DEF Fetch

LEMMA SegmentFailsSound ==
    ASSUME IInv, SegmentFails
    PROVE  IInv'
  <1>1. /\ pc = "segment" /\ UNCHANGED <<settings, local, work, writes, audit>>
        /\ state \in ADVState /\ state' = Fails("segment")
        /\ pc' = IF settings.key THEN "extract" ELSE "done"
    BY DEF SegmentFails, AfterSegment, IInv, TypeOK
  <1>2. TypeOK'
    BY <1>1, FailsIs DEF IInv, TypeOK, Places
  <1>3. Branches' /\ Writer'
    BY <1>1, FailsIs, EarlyStep DEF Early, Extractors
  <1>4. Order' /\ Sections'
    BY <1>1, FailsIs DEF IInv, Order, Sections, Early, MissingIsAbsent
  <1>5. Rescuer'
    BY <1>1, FailsIs, RescuerKept
  <1> QED
    BY <1>2, <1>3, <1>4, <1>5 DEF IInv

\* segment_brochure returns, after a rescue or without.
LEMMA ReturnSound ==
    ASSUME IInv, pc \in {"segment", "rescue"}, NEW s \in Segmentations, NEW others \in BOOLEAN,
           NEW missing, missing = Absent(s),
           NEW rescued \in BOOLEAN, rescued => audit["rescue"] # "none",
           work'["rescue"] \in {work["rescue"], "done"},
           Return(s, missing, rescued, others),
           UNCHANGED <<settings, writes, audit>>,
           work' \in [Callers -> Progress],
           \A c \in Callers \ {"rescue"} : work'[c] = work[c]
    PROVE  IInv'
  <1>1. /\ pc' = IF settings.key THEN "extract" ELSE "done"
        /\ local' = NULL /\ state \in ADVState
        /\ missing \subseteq Items
    BY DEF Return, AfterSegment, IInv, TypeOK, Absent
  <1>2. /\ state' \in ADVState
        /\ state'.sections = s /\ state'.missing = missing /\ state'.rescued = rescued
        /\ state'.errors \in {state.errors, state.errors \cup {"segment"}}
        /\ missing # {} => "segment" \in state'.errors
        /\ state'.extractions = state.extractions /\ state'.redline = state.redline
        /\ state'.pdf = state.pdf
    BY <1>1, Sorts DEF Return, ADVState, AddErrors
  <1>3. TypeOK'
    BY <1>1, <1>2 DEF IInv, TypeOK, Places
  <1>4. \A c \in Extractors \cup {"writer"} : work'[c] = work[c]
    BY Sorts
  <1>5. Branches' /\ Writer'
    BY <1>1, <1>2, <1>4, EarlyStep DEF Early, Extractors
  <1>6. Order'
    BY <1>1 DEF Order, Early
  <1>7. s # NULL
    BY NullDistinct DEF Segmentations
  <1>8. Sections'
    BY <1>1, <1>2, <1>7 DEF IInv, Sections, Early, MissingIsAbsent, Absent
  <1>9. Rescuer'
    BY <1>2 DEF IInv, Rescuer
  <1> QED
    BY <1>3, <1>5, <1>6, <1>8, <1>9 DEF IInv

LEMMA SegmentSound ==
    ASSUME IInv, Segment
    PROVE  IInv'
  <1>1. /\ pc = "segment" /\ UNCHANGED <<settings, work, writes, audit>>
        /\ work \in [Callers -> Progress] /\ state \in ADVState
    BY DEF Segment, IInv, TypeOK
  <1>2. PICK s \in Segmentations, others \in BOOLEAN :
          \/ Return(s, Absent(s), FALSE, others)
          \/ settings.key /\ pc' = "rescue" /\ local' = s /\ UNCHANGED state
    BY DEF Segment
  <1>3. CASE Return(s, Absent(s), FALSE, others)
    BY <1>1, <1>3, ReturnSound
  <1>4. CASE settings.key /\ pc' = "rescue" /\ local' = s /\ UNCHANGED state
    <2>1. TypeOK'
      BY <1>1, <1>4 DEF IInv, TypeOK, Places
    <2>2. Branches' /\ Writer'
      BY <1>1, <1>4, EarlyStep DEF Early
    <2>3. Order' /\ Sections'
      BY <1>1, <1>4 DEF IInv, Order, Sections, Early, MissingIsAbsent, Absent
    <2>4. Rescuer'
      BY <1>1, <1>4, RescuerKept
    <2> QED
      BY <2>1, <2>2, <2>3, <2>4 DEF IInv
  <1> QED
    BY <1>2, <1>3, <1>4

LEMMA RescueStartSound ==
    ASSUME IInv, RescueStart
    PROVE  IInv'
  <1>1. /\ UNCHANGED <<settings, pc, local, state, writes, audit>>
        /\ work' = [work EXCEPT !["rescue"] = "calling"]
        /\ work \in [Callers -> Progress]
    BY DEF RescueStart, Call, IInv, TypeOK
  <1>2. \A c \in Extractors \cup {"writer"} : work'[c] = work[c]
    BY <1>1, Sorts
  <1>3. TypeOK'
    BY <1>1 DEF IInv, TypeOK, Progress
  <1>4. Rescuer'
    BY <1>1 DEF IInv, Rescuer
  <1> QED
    BY <1>1, <1>2, <1>3, <1>4, StateKept, BranchesKept, WriterKept DEF IInv

\* What the rescue leaves missing is what is absent then.
LEMMA RescuedIs ==
    ASSUME NEW s \in Segmentations, NEW spans \in Spans
    PROVE  /\ Rescued(s, spans) \in Segmentations
           /\ \A i \in Items : s[i] = "narrative" => Rescued(s, spans)[i] = "narrative"
           /\ \A i \in Items : s[i] # "absent" => Rescued(s, spans)[i] # "absent"
           /\ StillMissing(s, Rescued(s, spans)) = Absent(Rescued(s, spans))
  <1>1. PICK S \in SUBSET Items : spans \in [S -> {"short", "narrative"}]
    BY DEF Spans
  <1>2. \A i \in Items : i \in Usable(s, spans) => spans[i] \in {"short", "narrative"}
                                                  /\ s[i] # "narrative"
    BY <1>1 DEF Usable, NeedsRescue
  <1>3. \A i \in Items : Rescued(s, spans)[i] =
                            IF i \in Usable(s, spans) THEN spans[i] ELSE s[i]
    BY DEF Rescued
  <1>4. Rescued(s, spans) \in Segmentations
    BY <1>2 DEF Rescued, Segmentations, Bodies
  <1>5. \A i \in Items : s[i] # "absent" => Rescued(s, spans)[i] # "absent"
    BY <1>2, <1>3
  <1>6. \A i \in Items : s[i] = "narrative" => Rescued(s, spans)[i] = "narrative"
    BY <1>2, <1>3
  <1>7. StillMissing(s, Rescued(s, spans)) = Absent(Rescued(s, spans))
    BY <1>5 DEF StillMissing, Absent
  <1> QED
    BY <1>4, <1>5, <1>6, <1>7

LEMMA RescueEndsSound ==
    ASSUME IInv, RescueSkipped \/ Rescue
    PROVE  IInv'
  <1>1. /\ pc = "rescue" /\ UNCHANGED <<settings, writes, audit>> /\ local \in Segmentations
        /\ work \in [Callers -> Progress]
    BY DEF RescueSkipped, Rescue, Resumes, IInv, TypeOK, Order
  <1>2. /\ work' \in [Callers -> Progress]
        /\ work'["rescue"] \in {work["rescue"], "done"}
        /\ \A c \in Callers \ {"rescue"} : work'[c] = work[c]
    BY <1>1, Sorts DEF RescueSkipped, Rescue, CallFails, Resumes, Progress
  <1>3. CASE RescueSkipped
    <2>1. PICK others \in BOOLEAN : Return(local, Absent(local), FALSE, others)
      BY <1>3 DEF RescueSkipped
    <2> QED
      BY <1>1, <1>2, <2>1, ReturnSound
  <1>4. CASE Rescue
    <2>1. PICK spans \in Spans, others \in BOOLEAN :
             Return(Rescued(local, spans), StillMissing(local, Rescued(local, spans)),
                    Usable(local, spans) # {}, others)
      BY <1>4 DEF Rescue
    <2> DEFINE merged == Rescued(local, spans)
               missing == StillMissing(local, merged)
               rescued == Usable(local, spans) # {}
    <2>2. /\ merged \in Segmentations /\ missing = Absent(merged) /\ rescued \in BOOLEAN
          /\ Return(merged, missing, rescued, others)
      BY <1>1, <2>1, RescuedIs
    <2>3. audit["rescue"] # "none"
      BY <1>4 DEF Rescue, Resumes, IInv, Rescuer
    <2> HIDE DEF merged, missing, rescued
    <2> QED
      BY <1>1, <1>2, <2>2, <2>3, ReturnSound
  <1> QED
    BY <1>3, <1>4

LEMMA RaiseSound ==
    ASSUME IInv, Raise
    PROVE  IInv'
  <1>1. Early /\ pc' = "raised" /\ UNCHANGED <<settings, local, state, work, writes, audit>>
    BY DEF Raise, Early
  <1>2. TypeOK'
    BY <1>1 DEF IInv, TypeOK, Places
  <1>3. Branches' /\ Writer'
    BY <1>1, EarlyStep DEF IInv, TypeOK
  <1>4. Order' /\ Sections'
    BY <1>1 DEF IInv, Order, Sections, Early, MissingIsAbsent, Absent
  <1>5. Rescuer'
    BY <1>1, RescuerKept
  <1> QED
    BY <1>2, <1>3, <1>4, <1>5 DEF IInv

-----------------------------------------------------------------------------
LEMMA InitIInv == Init => IInv
  <1> SUFFICES ASSUME Init
               PROVE  IInv
    OBVIOUS
  <1>1. TypeOK
    BY Nothing DEF Init, TypeOK, Progress, Records, Places, ADVState, Extractions, NoExtractions, Values
  <1>2. \A x \in Extractors : Returned(x)
    BY Sorts DEF Init, Returned
  <1>3. Order /\ Branches
    BY <1>2, Sorts DEF Init, Order, Early, Branches, NoExtractionLost, NoExtractions, UnderWay
  <1>4. Writer /\ Rescuer /\ Sections
    BY Sorts, NullDistinct DEF Init, Writer, Rescuer, Sections, Early, MissingIsAbsent, UnderWay
  <1> QED
    BY <1>1, <1>3, <1>4 DEF IInv

LEMMA NextIInv == IInv /\ [Next]_vars => IInv'
  <1> SUFFICES ASSUME IInv, [Next]_vars
               PROVE  IInv'
    OBVIOUS
  <1>1. CASE UNCHANGED vars
    <2>1. TypeOK'
      BY <1>1 DEF vars, IInv, TypeOK
    <2> QED
      BY <1>1, <2>1, StateKept, BranchesKept, WriterKept, RescuerKept DEF vars, IInv
  <1>2. CASE Next
    BY <1>2, FetchSound, SegmentFailsSound, SegmentSound, RescueStartSound, RescueEndsSound,
       RaiseSound, ReplySound, ExtractSound, ExtractEndsSound, JoinSound, RetrievePeersSound,
       WriterSound, HitlGateSound
    DEF Next
  <1> QED
    BY <1>1, <1>2

LEMMA Invariant == FairSpec => []IInv
  BY InitIInv, NextIInv, PTL DEF FairSpec, Spec

\* The state of a run has its type.
THEOREM TypeCorrect == FairSpec => []TypeOK
  <1>1. IInv => TypeOK
    BY DEF IInv
  <1> QED
    BY <1>1, Invariant, PTL

(***************************************************************************)
(* Every absent output of a finished run, and no present one, has an error *)
(* of the node that failed to produce it.                                  *)
(***************************************************************************)
THEOREM GapsAreExplained == FairSpec => []GapsExplained
  <1>1. IInv => GapsExplained
    <2> SUFFICES ASSUME IInv, pc = "done"
                 PROVE  GapsExplained
      BY DEF GapsExplained
    <2>1. /\ state.pdf <=> "fetch" \notin state.errors
          /\ state.sections = NULL \/ state.missing # {} => "segment" \in state.errors
      BY DEF IInv, Sections, Early
    <2>2. settings.key => (state.redline = NULL <=> "writer" \in state.errors)
      BY DEF IInv, Writer
    <2>3. ASSUME settings.key, NEW x \in Extractors
          PROVE  state.extractions[x] = NULL <=> x \in state.errors
      <3>1. /\ state.extractions[x] = writes[x].extractions[x]
            /\ work[x] = "done" /\ (x \in state.errors <=> x \in writes[x].errors)
            /\ Returned(x)
        BY <2>3 DEF IInv, Branches, NoExtractionLost
      <3> QED
        BY <3>1, ReturnedIs
    <2> QED
      BY <2>1, <2>2, <2>3 DEF GapsExplained
  <1> QED
    BY <1>1, Invariant, PTL

(***************************************************************************)
(* What a branch returned is in the state after the join, whatever the     *)
(* others did.                                                             *)
(***************************************************************************)
THEOREM ExtractionsSurvive == FairSpec => []NoExtractionLost
  <1>1. IInv => NoExtractionLost
    BY DEF IInv, Branches
  <1> QED
    BY <1>1, Invariant, PTL

(***************************************************************************)
(* missing_items are the Items without a section, with a rescue or         *)
(* without.                                                                *)
(***************************************************************************)
THEOREM MissingAreAbsent == FairSpec => []MissingIsAbsent
  <1>1. IInv => MissingIsAbsent
    BY DEF IInv, Sections
  <1> QED
    BY <1>1, Invariant, PTL

(***************************************************************************)
(* What an LLM said is in the state only if a record of it was written, to *)
(* the table or the log; what was recorded of an extractor or the writer   *)
(* is in the state of the finished run, wherever the record went.          *)
(***************************************************************************)
THEOREM RecordsMatch == FairSpec => []RecordsMatchResults
  <1>1. IInv => RecordsMatchResults
    <2> SUFFICES ASSUME IInv
                 PROVE  RecordsMatchResults
      OBVIOUS
    <2>1. \A x \in Extractors : state.extractions[x] \in {NULL, writes[x].extractions[x]}
      BY DEF IInv, TypeOK, Places, Branches, Early, NoExtractionLost
    <2>2. ASSUME NEW x \in Extractors, state.extractions[x] = "llm"
          PROVE  audit[x] # "none"
      <3>1. Returned(x) /\ writes[x].extractions[x] = "llm"
        BY <2>1, <2>2, NullDistinct DEF IInv, Branches
      <3>2. work[x] = "done"
        BY <3>1, Nothing, NullDistinct DEF Returned
      <3> QED
        BY <3>1, <3>2, ReturnedIs
    <2>3. ASSUME pc = "done", NEW x \in Extractors, audit[x] # "none"
          PROVE  state.extractions[x] = "llm"
      <3>1. Returned(x) /\ work[x] # "recorded" /\ state.extractions[x] = writes[x].extractions[x]
        BY <2>3 DEF IInv, Branches, NoExtractionLost, UnderWay
      <3>2. work[x] = "done"
        BY <2>3, <3>1 DEF Returned
      <3> QED
        BY <2>3, <3>1, <3>2, ReturnedIs
    <2>4. /\ state.redline = "llm" => audit["writer"] # "none"
          /\ pc = "done" /\ audit["writer"] # "none" => state.redline = "llm"
      BY DEF IInv, Writer, UnderWay
    <2>5. state.rescued => audit["rescue"] # "none"
      BY DEF IInv, Rescuer
    <2> QED
      BY <2>2, <2>3, <2>4, <2>5 DEF RecordsMatchResults
  <1> QED
    BY <1>1, Invariant, PTL

(***************************************************************************)
(* A rescue keeps what the regular expressions found in full, and every    *)
(* Item that had a section has one.                                        *)
(***************************************************************************)
THEOREM RescueIsSafe == FairSpec => RescueFillsGaps
  <1> DEFINE Fills == pc = "rescue" /\ pc' = "extract" =>
                         \A i \in Items :
                            /\ local[i] = "narrative" => state'.sections[i] = "narrative"
                            /\ local[i] # "absent" => state'.sections[i] # "absent"
  <1>1. ASSUME IInv, [Next]_vars
        PROVE  [Fills]_vars
    <2> SUFFICES ASSUME pc = "rescue", pc' = "extract"
                 PROVE  Fills
      OBVIOUS
    <2>1. local \in Segmentations /\ state \in ADVState
      BY <1>1 DEF IInv, TypeOK, Order
    <2>2. RescueSkipped \/ Rescue
      BY <1>1 DEF vars, Next, Fetch, SegmentFails, Segment, RescueStart, Raise, Reply, Record, Extract,
                  ExtractFails, ExtractDone, Returns, Join, RetrievePeers, Write, WriteFails,
                  WriteDone, HitlGate
    <2>3. ASSUME NEW s, NEW missing, NEW rescued, NEW others,
                 Return(s, missing, rescued, others)
          PROVE  state'.sections = s
      BY <2>1, <2>3 DEF Return, ADVState
    <2>4. CASE RescueSkipped
      <3>1. state'.sections = local
        BY <2>3, <2>4 DEF RescueSkipped
      <3> QED
        BY <3>1
    <2>5. CASE Rescue
      <3>1. PICK spans \in Spans : state'.sections = Rescued(local, spans)
        BY <2>3, <2>5 DEF Rescue
      <3> QED
        BY <2>1, <3>1, RescuedIs
    <2> QED
      BY <2>2, <2>4, <2>5
  <1> QED
    BY <1>1, InitIInv, NextIInv, PTL DEF FairSpec, Spec, RescueFillsGaps
-----------------------------------------------------------------------------
(* A run only goes forward. *)

LEMMA PlaceCounts ==
    ASSUME NEW p
    PROVE  PlacesLeft(p) \in 0 .. 7
  BY DEF PlacesLeft

LEMMA CallCounts ==
    ASSUME NEW w
    PROVE  CallLeft(w) \in 0 .. 4
  BY DEF CallLeft

LEMMA PlaceIs ==
    /\ PlacesLeft("fetch") = 7 /\ PlacesLeft("segment") = 6 /\ PlacesLeft("rescue") = 5
    /\ PlacesLeft("extract") = 4 /\ PlacesLeft("peers") = 3 /\ PlacesLeft("write") = 2
    /\ PlacesLeft("gate") = 1 /\ PlacesLeft("done") = 0 /\ PlacesLeft("raised") = 0
  BY DEF PlacesLeft

LEMMA CallLeftIs ==
    CallLeft("idle") = 4 /\ CallLeft("calling") = 3 /\ CallLeft("replied") = 2
    /\ CallLeft("recorded") = 1 /\ CallLeft("done") = 0
  BY DEF CallLeft

LEMMA FewSteps == StepsLeft \in 0 .. 27
  BY PlaceCounts, CallCounts DEF StepsLeft

\* A step of a call, with or without the end of its node.
LEMMA CallGoesOn ==
    ASSUME work \in [Callers -> Progress],
           NEW c \in Callers, NEW w, work' = [work EXCEPT ![c] = w],
           CallLeft(w) < CallLeft(work[c]), PlacesLeft(pc') <= PlacesLeft(pc)
    PROVE  GoesForward
  <1> DEFINE Left(d) == CallLeft(work[d])
             After(d) == CallLeft(work'[d])
  <1>1. /\ PlacesLeft(pc) \in 0 .. 7 /\ PlacesLeft(pc') \in 0 .. 7
        /\ \A d \in Callers : Left(d) \in 0 .. 4 /\ After(d) \in 0 .. 4
    BY PlaceCounts, CallCounts
  <1>2. /\ After(c) < Left(c)
        /\ \A d \in Callers \ {c} : After(d) = Left(d)
    OBVIOUS
  <1>3. Callers = {"rescue", "fee", "disciplinary", "conflicts", "writer"}
    BY DEF Callers, Extractors
  <1>4. /\ StepsLeft = PlacesLeft(pc) + Left("rescue") + Left("fee")
                          + Left("disciplinary") + Left("conflicts") + Left("writer")
        /\ StepsLeft' = PlacesLeft(pc') + After("rescue") + After("fee")
                          + After("disciplinary") + After("conflicts") + After("writer")
    BY DEF StepsLeft, PlacesLeft, CallLeft
  <1>5. \A d \in Callers : After(d) <= Left(d)
    BY <1>1, <1>2
  <1> HIDE DEF Left, After
  <1>6. \A d \in Callers : Left(d) \in Nat /\ After(d) \in Nat
    BY <1>1
  <1>7. \/ c = "rescue" \/ c = "fee" \/ c = "disciplinary" \/ c = "conflicts" \/ c = "writer"
    BY <1>3
  <1>8. PlacesLeft(pc) \in Nat /\ PlacesLeft(pc') \in Nat
    BY <1>1
  <1> HIDE DEF PlacesLeft
  <1> QED
    <2>1. StepsLeft' < StepsLeft
      BY <1>2, <1>3, <1>4, <1>5, <1>6, <1>7, <1>8
    <2>2. \A d \in Callers : CallLeft(work'[d]) <= CallLeft(work[d])
      BY <1>5 DEF Left, After
    <2> QED
      BY <2>1, <2>2 DEF GoesForward

\* A node that ends without a call.
LEMMA NodeEnds ==
    ASSUME UNCHANGED work, PlacesLeft(pc') < PlacesLeft(pc)
    PROVE  GoesForward
  <1> DEFINE calls == CallLeft(work["rescue"]) + CallLeft(work["fee"])
                      + CallLeft(work["disciplinary"]) + CallLeft(work["conflicts"])
                      + CallLeft(work["writer"])
  <1>1. calls \in Nat /\ PlacesLeft(pc) \in Nat /\ PlacesLeft(pc') \in Nat
    BY PlaceCounts, CallCounts
  <1>2. StepsLeft = PlacesLeft(pc) + calls /\ StepsLeft' = PlacesLeft(pc') + calls
    <2>1. \A c : CallLeft(work[c]) \in Nat
      BY CallCounts
    <2>2. PlacesLeft(pc') = PlacesLeft(pc)'
      BY DEF PlacesLeft
    <2> QED
      BY <1>1, <2>1, <2>2 DEF StepsLeft
  <1>3. \A c \in Callers : CallLeft(work'[c]) <= CallLeft(work[c])
    BY CallCounts
  <1> HIDE DEF calls
  <1> QED
    BY <1>1, <1>2, <1>3 DEF GoesForward

LEMMA ForwardStep ==
    ASSUME IInv, Next
    PROVE  GoesForward
  <1>0. /\ work \in [Callers -> Progress]
        /\ PlacesLeft(pc) <= PlacesLeft(pc)
    BY PlaceCounts DEF IInv, TypeOK
  <1>1. CASE Fetch \/ SegmentFails \/ Segment \/ Raise \/ Join \/ RetrievePeers \/ HitlGate
    <2>1. UNCHANGED work
      BY <1>1 DEF Fetch, SegmentFails, Segment, Raise, Join, RetrievePeers, HitlGate
    <2>2. PlacesLeft(pc') < PlacesLeft(pc)
      <3>1. \/ pc = "fetch" /\ pc' = "segment"
            \/ pc = "segment" /\ pc' \in {"rescue", "extract", "done"}
            \/ pc \in {"fetch", "segment", "rescue"} /\ pc' = "raised"
            \/ pc = "extract" /\ pc' = "peers"
            \/ pc = "peers" /\ pc' = "write"
            \/ pc = "gate" /\ pc' = "done"
        BY <1>1 DEF Fetch, SegmentFails, Segment, Return, AfterSegment, Raise, Join,
                    RetrievePeers, HitlGate
      <3> QED
        BY <3>1, PlaceIs
    <2> QED
      BY <2>1, <2>2, NodeEnds
  <1>2. CASE RescueStart \/ \E c \in Callers : Reply(c) \/ Record(c)
    <2>1. PICK c \in Callers, w \in {"calling", "replied", "recorded"} :
            /\ work' = [work EXCEPT ![c] = w]
            /\ \/ work[c] = "idle" /\ w = "calling"
               \/ work[c] = "calling" /\ w = "replied"
               \/ work[c] = "replied" /\ w = "recorded"
            /\ pc' = pc
      BY <1>2, Sorts DEF RescueStart, Call, Reply, Record
    <2>2. CallLeft(w) < CallLeft(work[c])
      BY <2>1, CallLeftIs
    <2> QED
      BY <1>0, <2>1, <2>2, CallGoesOn
  <1>3. CASE RescueSkipped \/ Rescue
    <2>1. PlacesLeft(pc') < PlacesLeft(pc)
      <3>1. pc = "rescue" /\ pc' \in {"extract", "done"}
        BY <1>3 DEF RescueSkipped, Rescue, Return, AfterSegment
      <3> QED
        BY <3>1, PlaceIs
    <2>2. CASE UNCHANGED work
      BY <2>1, <2>2, NodeEnds
    <2>3. CASE /\ work["rescue"] \in {"calling", "recorded"}
               /\ work' = [work EXCEPT !["rescue"] = "done"]
      <3>1. CallLeft("done") < CallLeft(work["rescue"])
        BY <2>3, CallLeftIs
      <3>2. PlacesLeft(pc') <= PlacesLeft(pc)
        BY <2>1, PlaceCounts
      <3> QED
        BY <1>0, <2>3, <3>1, <3>2, Sorts, CallGoesOn
    <2> QED
      BY <1>3, <2>2, <2>3 DEF RescueSkipped, Rescue, CallFails, Resumes
  <1>4. ASSUME NEW x \in Extractors, Extract(x) \/ ExtractFails(x) \/ ExtractDone(x)
        PROVE  GoesForward
    <2>1. PICK w \in {"calling", "done"} :
            /\ work' = [work EXCEPT ![x] = w]
            /\ \/ work[x] = "idle"
               \/ work[x] = "calling" /\ w = "done"
               \/ work[x] = "recorded" /\ w = "done"
      BY <1>4 DEF Extract, ExtractFails, ExtractDone, Call, CallFails, Resumes
    <2>2. CallLeft(w) < CallLeft(work[x])
      BY <2>1, CallLeftIs
    <2>3. x \in Callers /\ pc' = pc
      BY <1>4, Sorts DEF Extract, ExtractFails, ExtractDone, Returns
    <2> QED
      BY <1>0, <2>1, <2>2, <2>3, CallGoesOn
  <1>5. CASE Write
    <2>1. CASE UNCHANGED work /\ pc' = "gate" /\ pc = "write"
      BY <2>1, NodeEnds DEF PlacesLeft
    <2>2. CASE Call("writer") /\ UNCHANGED pc
      <3>1. CallLeft("calling") < CallLeft(work["writer"])
        BY <2>2 DEF Call, CallLeft
      <3> QED
        BY <1>0, <2>2, <3>1, Sorts, CallGoesOn DEF Call
    <2> QED
      BY <1>5, <2>1, <2>2 DEF Write
  <1>6. CASE WriteFails \/ WriteDone
    <2>1. /\ work["writer"] \in {"calling", "recorded"} /\ pc' = "gate" /\ pc = "write"
          /\ work' = [work EXCEPT !["writer"] = "done"]
      BY <1>6 DEF WriteFails, WriteDone, CallFails, Resumes, IInv, Writer, UnderWay
    <2>2. CallLeft("done") < CallLeft(work["writer"])
      BY <2>1, CallLeftIs
    <2>3. PlacesLeft(pc') <= PlacesLeft(pc)
      BY <2>1 DEF PlacesLeft
    <2> QED
      BY <1>0, <2>1, <2>2, <2>3, Sorts, CallGoesOn
  <1> QED
    BY <1>1, <1>2, <1>3, <1>4, <1>5, <1>6 DEF Next

(***************************************************************************)
(* No run takes more than 27 steps, and none calls the LLM twice for the   *)
(* same caller.                                                            *)
(***************************************************************************)
THEOREM RunsGoForward == FairSpec => OnlyForward /\ [](StepsLeft \in 0 .. 27)
  <1>1. IInv /\ [Next]_vars => [GoesForward]_vars
    BY ForwardStep
  <1>2. StepsLeft \in 0 .. 27
    BY FewSteps
  <1> QED
    BY <1>1, <1>2, FewSteps, InitIInv, NextIInv, PTL DEF FairSpec, Spec, OnlyForward
-----------------------------------------------------------------------------
(***************************************************************************)
(* A run goes node by node.  What the proof needs beyond IInv is hidden    *)
(* from the state until the node returns: what the regular expressions     *)
(* found is kept for the rescue, and what a branch returned, or calls the  *)
(* LLM for, fits the sections it reads, which nobody changes meanwhile;    *)
(* the writer calls the LLM only about an extraction.                      *)
(***************************************************************************)
Fits(x) ==
    /\ work[x] \in UnderWay => ~NothingToRead(x) /\ ~OnlyBlank(x)
    /\ work[x] = "done" =>
          \/ NothingToRead(x) /\ writes[x] = FailureOf(x)
          \/ ~NothingToRead(x) /\ OnlyBlank(x) /\ writes[x] = ValueOf(x, "default")
          \/ /\ ~NothingToRead(x) /\ ~OnlyBlank(x)
             /\ writes[x] \in {FailureOf(x), ValueOf(x, "llm")}

Hidden ==
    /\ pc = "rescue" => state.pdf /\ \A i \in Items : local[i] \in Found[i]
    /\ pc = "extract" => \A x \in Extractors : Fits(x)
    /\ work["writer"] \in UnderWay => HasExtraction

\* A branch's answer depends on the state and its own call alone.
LEMMA FitsKept ==
    ASSUME NEW x \in Extractors, Fits(x), UNCHANGED state,
           work'[x] = work[x], writes'[x] = writes[x]
    PROVE  Fits(x)'
  BY DEF Fits, UnderWay, NothingToRead, OnlyBlank, FailureOf, ValueOf, NoUpdate, NoExtractions

LEMMA BranchFits ==
    ASSUME IInv, Hidden, NEW x \in Extractors, Extract(x) \/ ExtractFails(x) \/ ExtractDone(x)
    PROVE  UNCHANGED pc /\ pc = "extract" /\ \A y \in Extractors : Fits(y)'
  <1>0. /\ writes \in [Extractors -> Updates] /\ x \in Callers
        /\ work \in [Callers -> Progress]
    BY Sorts DEF IInv, TypeOK
  <1>1. /\ UNCHANGED <<pc, local, state>> /\ pc = "extract"
        /\ \A y \in Extractors \ {x} : work'[y] = work[y] /\ writes'[y] = writes[y]
    <2>1. \/ Extract(x)
          \/ /\ ExtractFails(x) \/ ExtractDone(x)
             /\ work[x] \in UnderWay
      BY DEF ExtractFails, ExtractDone, CallFails, Resumes, UnderWay
    <2>2. pc = "extract"
      BY <2>1 DEF Extract, IInv, Branches
    <2>3. UNCHANGED <<pc, local, state>>
      BY DEF Extract, ExtractFails, ExtractDone, Returns
    <2>4. \A y \in Extractors \ {x} : work'[y] = work[y] /\ writes'[y] = writes[y]
      BY <1>0, Sorts DEF Extract, ExtractFails, ExtractDone, Returns, Call, CallFails, Resumes
    <2> QED
      BY <2>2, <2>3, <2>4
  <1>2. Fits(x) /\ \A y \in Extractors : Fits(y)
    BY <1>1 DEF Hidden
  <1>3. Fits(x)'
    <2> DEFINE nothing == NothingToRead(x)
               blank == OnlyBlank(x)
               failed == FailureOf(x)
    <2>1. \/ work'[x] = "calling" /\ ~nothing /\ ~blank
          \/ work'[x] = "done" /\ nothing /\ writes'[x] = failed
          \/ work'[x] = "done" /\ ~nothing /\ blank /\ writes'[x] = ValueOf(x, "default")
          \/ /\ work'[x] = "done" /\ ~nothing /\ ~blank
             /\ writes'[x] \in {failed, ValueOf(x, "llm")}
      <3>1. CASE Extract(x)
        BY <1>0, <3>1 DEF Extract, Returns, Call
      <3>2. CASE ExtractFails(x)
        BY <1>0, <1>2, <3>2 DEF ExtractFails, CallFails, Returns, Fits, UnderWay
      <3>3. CASE ExtractDone(x)
        BY <1>0, <1>2, <3>3 DEF ExtractDone, Resumes, Returns, Fits, UnderWay
      <3> QED
        BY <3>1, <3>2, <3>3
    <2>2. nothing' = nothing /\ blank' = blank /\ failed' = failed
          /\ ValueOf(x, "llm")' = ValueOf(x, "llm")
          /\ ValueOf(x, "default")' = ValueOf(x, "default")
      BY <1>1 DEF NothingToRead, OnlyBlank, FailureOf, ValueOf, NoUpdate, NoExtractions
    <2> QED
      BY <2>1, <2>2 DEF Fits, UnderWay
  <1> QED
    BY <1>1, <1>2, <1>3, FitsKept DEF Hidden

\* The writer's call is about extractions that are there to stay.
LEMMA WriterFits ==
    ASSUME IInv, Hidden, [Next]_vars, work'["writer"] \in UnderWay
    PROVE  HasExtraction'
  <1>0. /\ work \in [Callers -> Progress]
        /\ work["writer"] \in UnderWay => pc = "write" /\ HasExtraction
    BY DEF IInv, TypeOK, Hidden, Writer
  <1>1. CASE UNCHANGED work["writer"]
    <2>1. pc = "write" /\ HasExtraction
      BY <1>0, <1>1
    <2>2. UNCHANGED state
      <3>1. \A x \in Extractors : ~(ExtractFails(x) \/ ExtractDone(x))
        BY <2>1 DEF ExtractFails, ExtractDone, CallFails, Resumes, IInv, Branches, UnderWay
      <3>2. ~WriteFails /\ ~WriteDone
        BY <1>0, <1>1, Sorts DEF WriteFails, WriteDone, CallFails, Resumes
      <3> QED
        BY <1>0, <1>1, <2>1, <3>1, <3>2
        DEF Next, vars, Fetch, SegmentFails, Segment, RescueStart, RescueSkipped, Rescue, Raise,
            Reply, Record, Extract, Join, RetrievePeers, Write, HitlGate
    <2> QED
      BY <2>1, <2>2 DEF HasExtraction
  <1>2. CASE work'["writer"] # work["writer"]
    <2>1. \/ \E c \in Callers : Reply(c) \/ Record(c)
          \/ Write /\ HasExtraction /\ UNCHANGED state
      BY <1>0, <1>2, Sorts
      DEF Next, vars, Fetch, SegmentFails, Segment, RescueStart, RescueSkipped, Rescue, Raise,
          Extract, ExtractFails, ExtractDone, Join, RetrievePeers, Write, WriteFails, WriteDone,
          HitlGate, Call, CallFails, Resumes, UnderWay
    <2>2. ASSUME NEW c \in Callers, Reply(c) \/ Record(c)
          PROVE  HasExtraction /\ UNCHANGED state
      BY <1>0, <1>2, <2>2, Sorts DEF Reply, Record, UnderWay
    <2> QED
      BY <2>1, <2>2 DEF HasExtraction
  <1> QED
    BY <1>1, <1>2

LEMMA HiddenStep == IInv /\ Hidden /\ [Next]_vars => Hidden'
  <1> SUFFICES ASSUME IInv, Hidden, [Next]_vars
               PROVE  Hidden'
    OBVIOUS
  <1>0. work'["writer"] \in UnderWay => HasExtraction'
    BY WriterFits
  <1>1. CASE \E x \in Extractors : Extract(x) \/ ExtractFails(x) \/ ExtractDone(x)
    BY <1>0, <1>1, BranchFits DEF Hidden
  <1>2. ASSUME NEW c \in Callers, Reply(c) \/ Record(c)
        PROVE  Hidden'
    <2>1. PICK w \in {"replied", "recorded"} :
            /\ UNCHANGED <<pc, local, state, writes>>
            /\ work[c] \in UnderWay /\ work' = [work EXCEPT ![c] = w]
            /\ work \in [Callers -> Progress]
      BY <1>2 DEF Reply, Record, IInv, TypeOK, UnderWay
    <2>2. ASSUME NEW x \in Extractors, Fits(x)
          PROVE  Fits(x)'
      <3>1. CASE x = c
        <4>1. work'[x] = w /\ ~NothingToRead(x) /\ ~OnlyBlank(x)
          BY <2>1, <2>2, <3>1 DEF Fits
        <4>2. NothingToRead(x)' = NothingToRead(x) /\ OnlyBlank(x)' = OnlyBlank(x)
          BY <2>1 DEF NothingToRead, OnlyBlank
        <4> QED
          BY <4>1, <4>2 DEF Fits
      <3>2. CASE x # c
        BY <2>1, <2>2, <3>2, FitsKept, Sorts
      <3> QED
        BY <3>1, <3>2
    <2> QED
      BY <1>0, <2>1, <2>2 DEF Hidden
  <1>3. CASE RescueStart \/ Write \/ WriteFails \/ WriteDone \/ UNCHANGED vars
    <2>1. /\ pc \in {"rescue", "extract"} \/ pc' \in {"rescue", "extract"} =>
                 /\ UNCHANGED <<pc, local, state, writes>>
                 /\ \A x \in Extractors : work'[x] = work[x]
      BY <1>3, Sorts DEF RescueStart, Write, WriteFails, WriteDone, Call, CallFails, Resumes,
                         vars, IInv, TypeOK, Writer, UnderWay
    <2> QED
      BY <1>0, <2>1, FitsKept DEF Hidden
  <1>4. CASE Segment
    <2>1. CASE pc' = "rescue"
      BY <1>0, <1>4, <2>1 DEF Segment, Return, AfterSegment, Hidden
    <2>2. CASE pc' # "rescue"
      <3>1. UNCHANGED work /\ Early
        BY <1>4 DEF Segment, Early
      <3>2. \A x \in Extractors : work'[x] = "idle"
        BY <3>1 DEF IInv, Branches
      <3> QED
        BY <1>0, <2>2, <3>2 DEF Hidden, Fits, UnderWay
    <2> QED
      BY <2>1, <2>2
  <1>5. CASE Fetch \/ SegmentFails \/ RescueSkipped \/ Rescue \/ Raise
    <2>1. Early /\ pc' # "rescue" /\ \A x \in Extractors : work'[x] = work[x]
      BY <1>5, Sorts DEF Fetch, SegmentFails, RescueSkipped, Rescue, Raise, Early, Return,
                         AfterSegment, CallFails, Resumes, IInv, TypeOK
    <2>2. \A x \in Extractors : work'[x] = "idle"
      BY <2>1 DEF IInv, Branches
    <2> QED
      BY <1>0, <2>1, <2>2 DEF Hidden, Fits, UnderWay
  <1>6. CASE Join \/ RetrievePeers \/ HitlGate
    BY <1>0, <1>6 DEF Join, RetrievePeers, HitlGate, Hidden
  <1> QED
    BY <1>1, <1>2, <1>3, <1>4, <1>5, <1>6 DEF Next

LEMMA SameState ==
    ASSUME NEW s \in ADVState, NEW t \in ADVState,
           s.pdf = t.pdf, s.sections = t.sections, s.missing = t.missing,
           s.rescued = t.rescued, s.extractions = t.extractions,
           s.peer_context = t.peer_context,
           s.redline = t.redline, s.review_status = t.review_status,
           s.report_hash = t.report_hash, s.errors = t.errors
    PROVE  s = t
  BY DEF ADVState

\* A node that ends without an update of sections or extractions.
LEMMA NodeStep ==
    ASSUME IInv, Hidden,
           Fetch \/ SegmentFails \/ Raise \/ RetrievePeers \/ Write \/ WriteFails \/ WriteDone
             \/ HitlGate
    PROVE  NodeByNode!Next \/ UNCHANGED NodeByNode!run
  <1>0. state \in ADVState /\ pc \in Places
    BY DEF IInv, TypeOK
  <1>1. CASE Fetch
    <2>1. NodeByNode!Fetch
      BY <1>1 DEF Fetch, Fails, AddErrors, NodeByNode!Fetch, NodeByNode!Goes, NodeByNode!Errs
    <2> QED
      BY <2>1 DEF NodeByNode!Next
  <1>2. CASE SegmentFails
    <2>1. NodeByNode!Segment
      BY <1>2 DEF SegmentFails, AfterSegment, Fails, AddErrors, NodeByNode!Segment,
                  NodeByNode!Goes, NodeByNode!Errs
    <2> QED
      BY <2>1 DEF NodeByNode!Next
  <1>4. CASE RetrievePeers
    <2>1. PICK failed \in SUBSET ItemsToQuery, hits \in BOOLEAN :
            /\ hits => failed # ItemsToQuery
            /\ state' = [state EXCEPT
                           !.peer_context = hits,
                           !.errors = IF failed = {} THEN @ ELSE AddErrors(@, {"peers"})]
      BY <1>4 DEF RetrievePeers
    <2> DEFINE told == IF failed = {} THEN {} ELSE {"peers"}
    <2>2. hits \/ told # {} => HasExtraction
      BY <2>1 DEF ItemsToQuery, HasExtraction
    <2>3. state' = [[state EXCEPT !.peer_context = hits] EXCEPT !.errors = @ \cup told]
      BY <1>0, <2>1 DEF AddErrors, ADVState
    <2>4. pc = "peers" /\ pc' = "write" /\ UNCHANGED settings /\ told \in SUBSET {"peers"}
      BY <1>4 DEF RetrievePeers
    <2> HIDE DEF told
    <2>5. NodeByNode!RetrievePeers
      BY <2>2, <2>3, <2>4 DEF NodeByNode!RetrievePeers, NodeByNode!Goes, NodeByNode!Errs,
                              NodeByNode!HasExtraction, HasExtraction
    <2> QED
      BY <2>5 DEF NodeByNode!Next
  <1>5. CASE Write \/ WriteFails \/ WriteDone
    <2>1. /\ pc = "write" /\ UNCHANGED settings
          /\ \/ UNCHANGED <<pc, state>>
             \/ /\ pc' = "gate"
                /\ \/ ~HasExtraction /\ state' = [state EXCEPT !.redline = "stub"]
                   \/ HasExtraction /\ state' = [state EXCEPT !.redline = "llm"]
                   \/ HasExtraction /\ state' = Fails("writer")
      BY <1>5 DEF Write, WriteFails, WriteDone, CallFails, Resumes, IInv, Writer, Hidden, UnderWay
    <2>2. CASE UNCHANGED <<pc, state>>
      BY <2>1, <2>2 DEF NodeByNode!run
    <2>3. CASE pc' = "gate"
      <3>1. NodeByNode!Write
        BY <2>1, <2>3 DEF Fails, AddErrors, HasExtraction, NodeByNode!Write, NodeByNode!Goes,
                          NodeByNode!Errs, NodeByNode!HasExtraction
      <3> QED
        BY <3>1 DEF NodeByNode!Next
    <2> QED
      BY <2>1, <2>2, <2>3
  <1>6. CASE HitlGate
    <2>1. NodeByNode!Gate
      BY <1>6 DEF HitlGate, Marked, NodeByNode!Gate, NodeByNode!Goes
    <2> QED
      BY <2>1 DEF NodeByNode!Next
  <1>7. CASE Raise
    <2>1. /\ pc' = "raised" /\ UNCHANGED <<settings, state>>
          /\ \/ pc = "fetch"
             \/ pc \in {"segment", "rescue"} /\ state.pdf
      BY <1>7 DEF Raise, Hidden
    <2>2. NodeByNode!Raise
      BY <2>1 DEF NodeByNode!Raise, NodeByNode!Goes
    <2> QED
      BY <2>2 DEF NodeByNode!Next
  <1> QED
    BY <1>1, <1>2, <1>4, <1>5, <1>6, <1>7
\* segment_brochure returns sections: the ones found, or some rescued.
LEMMA SectionsStep ==
    ASSUME IInv, pc \in {"segment", "rescue"}, state.pdf, UNCHANGED settings,
           NEW s \in Segmentations, NEW others \in BOOLEAN,
           NEW rescued \in BOOLEAN, rescued => settings.key,
           \A i \in Items : NodeByNode!MayFind(i, s[i], rescued),
           Return(s, Absent(s), rescued, others)
    PROVE  NodeByNode!Next
  <1> DEFINE told == IF Absent(s) # {} \/ others THEN {"segment"} ELSE {}
             t == NodeByNode!Errs([state EXCEPT !.sections = s, !.missing = Absent(s),
                                                !.rescued = rescued], told)
  <1>1. /\ state \in ADVState /\ Absent(s) \in SUBSET Items /\ told \in SUBSET {"segment"}
        /\ Absent(s) # {} => told # {}
    BY DEF IInv, TypeOK, Absent
  <1>2. state' = [state EXCEPT !.sections = s, !.missing = Absent(s), !.rescued = rescued,
                               !.errors = IF Absent(s) # {} \/ others
                                          THEN @ \cup {"segment"} ELSE @]
    BY DEF Return, AddErrors
  <1>3. state' \in ADVState /\ t \in ADVState
    BY <1>1, <1>2, Sorts DEF ADVState, NodeByNode!Errs
  <1>4. /\ state'.pdf = t.pdf /\ state'.sections = t.sections /\ state'.missing = t.missing
        /\ state'.extractions = t.extractions /\ state'.peer_context = t.peer_context
        /\ state'.redline = t.redline /\ state'.review_status = t.review_status
        /\ state'.report_hash = t.report_hash /\ state'.errors = t.errors
        /\ state'.sections = s /\ state'.rescued = rescued /\ t.rescued = rescued
    BY <1>1, <1>2 DEF ADVState, NodeByNode!Errs
  <1> HIDE DEF told, t
  <1>5. state' = t
    BY <1>3, <1>4, SameState
  <1>6. NodeByNode!Goes("segment", IF settings.key THEN "extract" ELSE "done")
    BY DEF Return, AfterSegment, NodeByNode!Goes
  <1>7. NodeByNode!Absent(s) = Absent(s)
    BY DEF Absent, NodeByNode!Absent
  <1>8. NodeByNode!Segment
    BY <1>1, <1>4, <1>5, <1>6, <1>7 DEF t, NodeByNode!Segment, Segmentations
  <1> QED
    BY <1>8 DEF NodeByNode!Next

LEMMA SegmentStep ==
    ASSUME IInv, Hidden, Segment \/ RescueSkipped \/ Rescue
    PROVE  NodeByNode!Next \/ UNCHANGED NodeByNode!run
  <1>1. CASE Segment
    <2>1. PICK s \in Segmentations, others \in BOOLEAN :
            /\ \A i \in Items : s[i] \in Found[i]
            /\ \/ Return(s, Absent(s), FALSE, others)
               \/ pc' = "rescue" /\ UNCHANGED state
      BY <1>1 DEF Segment
    <2>2. pc = "segment" /\ state.pdf /\ UNCHANGED settings
      BY <1>1 DEF Segment
    <2>3. CASE Return(s, Absent(s), FALSE, others)
      BY <2>1, <2>2, <2>3, SectionsStep DEF NodeByNode!MayFind
    <2>4. CASE pc' = "rescue" /\ UNCHANGED state
      BY <2>2, <2>4 DEF NodeByNode!run
    <2> QED
      BY <2>1, <2>3, <2>4
  <1>2. CASE RescueSkipped \/ Rescue
    <2>1. /\ pc = "rescue" /\ state.pdf /\ settings.key /\ UNCHANGED settings
          /\ local \in Segmentations /\ \A i \in Items : local[i] \in Found[i]
      BY <1>2 DEF RescueSkipped, Rescue, IInv, Order, Hidden
    <2>2. CASE RescueSkipped
      <3>1. PICK others \in BOOLEAN : Return(local, Absent(local), FALSE, others)
        BY <2>2 DEF RescueSkipped
      <3> QED
        BY <2>1, <3>1, SectionsStep DEF NodeByNode!MayFind
    <2>3. CASE Rescue
      <3>1. PICK spans \in Spans, others \in BOOLEAN :
              Return(Rescued(local, spans), StillMissing(local, Rescued(local, spans)),
                     Usable(local, spans) # {}, others)
        BY <2>3 DEF Rescue
      <3> DEFINE merged == Rescued(local, spans)
                 rescued == Usable(local, spans) # {}
      <3>2. /\ merged \in Segmentations /\ rescued \in BOOLEAN
            /\ Return(merged, Absent(merged), rescued, others)
        BY <2>1, <3>1, RescuedIs
      <3>3. ASSUME NEW i \in Items
            PROVE  NodeByNode!MayFind(i, merged[i], rescued)
        <4>1. CASE i \in Usable(local, spans)
          <5>1. merged[i] = spans[i]
            BY <4>1 DEF Rescued
          <5>2. spans[i] \in {"short", "narrative"} /\ local[i] # "narrative"
            BY <4>1 DEF Usable, NeedsRescue, Spans
          <5>3. rescued
            BY <4>1
          <5>4. Found[i] # {"narrative"}
            BY <2>1, <5>2
          <5> HIDE DEF merged, rescued
          <5> QED
            BY <5>1, <5>2, <5>3, <5>4 DEF NodeByNode!MayFind
        <4>2. CASE i \notin Usable(local, spans)
          <5>1. merged[i] = local[i]
            BY <4>2 DEF Rescued
          <5> QED
            BY <2>1, <5>1 DEF NodeByNode!MayFind
        <4> QED
          BY <4>1, <4>2
      <3> HIDE DEF merged, rescued
      <3> QED
        BY <2>1, <3>2, <3>3, SectionsStep
    <2> QED
      BY <1>2, <2>2, <2>3
  <1> QED
    BY <1>1, <1>2

\* What a branch returned is what GraphNodes allows it to return.
LEMMA FitsMayReturn ==
    ASSUME NEW x \in Extractors, Fits(x), work[x] = "done"
    PROVE  NodeByNode!MayReturn(x, writes[x].extractions[x])
  <1> DEFINE texts == IF state.sections = NULL THEN {}
                      ELSE {state.sections[i] : i \in Reads[x]}
             value == writes[x].extractions[x]
  <1>1. NothingToRead(x) => value = NULL
    BY Failure DEF Fits
  <1>2. texts \subseteq {"absent"} => NothingToRead(x)
    BY DEF NothingToRead
  <1>3. ~NothingToRead(x) => (OnlyBlank(x) <=> texts \subseteq {"absent", "empty"})
    BY DEF NothingToRead, OnlyBlank
  <1>4. NothingToRead(x) => texts \subseteq {"absent"} \/ ~(texts \subseteq {"absent", "empty"})
    <2>1. CASE state.sections = NULL
      BY <2>1
    <2>2. CASE x = "fee" /\ state.sections[5] = "placeholder" /\ state.sections # NULL
      <3>1. 5 \in Reads[x]
        BY <2>2 DEF Reads, Extractors
      <3> QED
        BY <2>2, <3>1
    <2> QED
      BY <2>1, <2>2 DEF NothingToRead
  <1>5. NULL # "llm" /\ NULL # "default"
    BY NullDistinct
  <1>6. value = "default" <=> ~NothingToRead(x) /\ OnlyBlank(x)
    BY <1>1, <1>5, Failure, Value DEF Fits
  <1>7. value = "llm" => ~NothingToRead(x) /\ ~OnlyBlank(x)
    BY <1>1, <1>5, Failure, Value DEF Fits
  <1> HIDE DEF value
  <1>8. value = "llm" => ~(texts \subseteq {"absent", "empty"})
    BY <1>3, <1>7
  <1>9. value = "default" <=> /\ texts \subseteq {"absent", "empty"}
                              /\ ~(texts \subseteq {"absent"})
    BY <1>2, <1>3, <1>4, <1>6
  <1> QED
    BY <1>8, <1>9 DEF value, NodeByNode!MayReturn

\* The join applies what the branches returned, all at once.
LEMMA JoinStep ==
    ASSUME IInv, Hidden, Join
    PROVE  NodeByNode!Next
  <1> DEFINE values == [x \in Extractors |-> writes[x].extractions[x]]
             failed == {x \in Extractors : values[x] = NULL}
             t == NodeByNode!Errs([state EXCEPT !.extractions = values], failed)
  <1>1. /\ pc = "extract" /\ pc' = "peers" /\ UNCHANGED settings /\ state \in ADVState
        /\ \A x \in Extractors : /\ work[x] = "done" /\ Returned(x) /\ Fits(x)
                                 /\ state.extractions[x] = NULL /\ x \notin state.errors
    BY DEF Join, IInv, TypeOK, Branches, Hidden
  <1>2. \A x \in Extractors : /\ writes[x] \in Updates
                              /\ values[x] = NULL <=> x \in writes[x].errors
    BY <1>1, ReturnedIs
  <1>3. values \in Extractions /\ failed \subseteq Extractors
    BY <1>2 DEF Extractions, Updates
  <1>4. /\ state' \in ADVState
        /\ \A x \in Extractors : state'.extractions[x] = writes[x].extractions[x]
        /\ \A x \in Extractors : x \in state'.errors <=> x \in writes[x].errors
        /\ \A n \in Nodes \ Extractors : n \in state'.errors <=> n \in state.errors
        /\ state'.pdf = state.pdf /\ state'.sections = state.sections
        /\ state'.missing = state.missing /\ state'.peer_context = state.peer_context
        /\ state'.rescued = state.rescued
        /\ state'.redline = state.redline /\ state'.review_status = state.review_status
        /\ state'.report_hash = state.report_hash
    BY <1>1, JoinKeeps DEF Join
  <1>5. state'.extractions = values
    BY <1>3, <1>4 DEF ADVState, Extractions
  <1>6. state'.errors = state.errors \cup failed
    <2>1. state'.errors \subseteq Nodes /\ state.errors \subseteq Nodes
      BY <1>1, <1>4 DEF ADVState
    <2>2. \A x \in Extractors : x \in state'.errors <=> x \in failed
      BY <1>2, <1>4
    <2> HIDE DEF failed
    <2>3. ASSUME NEW n \in Nodes
          PROVE  n \in state'.errors <=> n \in state.errors \cup failed
      BY <1>1, <1>3, <1>4, <2>2
    <2> QED
      BY <1>3, <2>1, <2>3, Sorts
  <1> HIDE DEF values, failed
  <1>7. /\ t \in ADVState
        /\ t.extractions = values /\ t.errors = state.errors \cup failed
        /\ t.pdf = state.pdf /\ t.sections = state.sections /\ t.missing = state.missing
        /\ t.rescued = state.rescued
        /\ t.peer_context = state.peer_context /\ t.redline = state.redline
        /\ t.review_status = state.review_status /\ t.report_hash = state.report_hash
    BY <1>1, <1>3, Sorts DEF ADVState, NodeByNode!Errs
  <1> HIDE DEF t
  <1>8. state' = t
    BY <1>4, <1>5, <1>6, <1>7, SameState
  <1>9. \A x \in Extractors : NodeByNode!MayReturn(x, values[x])
    BY <1>1, FitsMayReturn DEF values
  <1>10. values \in [Extractors -> {"llm", "default", NULL}]
    BY <1>3 DEF Extractions, Values
  <1>11. NodeByNode!Superstep
    BY <1>1, <1>8, <1>9, <1>10 DEF t, failed, NodeByNode!Superstep, NodeByNode!Goes
  <1> QED
    BY <1>11 DEF NodeByNode!Next

\* Every other step is of a call, and the state does not show it.
LEMMA GraphStep ==
    ASSUME IInv, Hidden, [Next]_vars
    PROVE  [NodeByNode!Next]_(NodeByNode!run)
  <1>1. CASE Join
    BY <1>1, JoinStep
  <1>2. CASE Segment \/ RescueSkipped \/ Rescue
    BY <1>2, SegmentStep
  <1>3. CASE Fetch \/ SegmentFails \/ Raise \/ RetrievePeers \/ Write \/ WriteFails
              \/ WriteDone \/ HitlGate
    BY <1>3, NodeStep
  <1>4. CASE \/ RescueStart \/ UNCHANGED vars
             \/ \E c \in Callers : Reply(c) \/ Record(c)
             \/ \E x \in Extractors : Extract(x) \/ ExtractFails(x) \/ ExtractDone(x)
    <2>1. UNCHANGED <<settings, pc, state>>
      BY <1>4 DEF RescueStart, vars, Reply, Record, Extract, ExtractFails, ExtractDone, Returns
    <2> QED
      BY <2>1 DEF NodeByNode!run
  <1> QED
    BY <1>1, <1>2, <1>3, <1>4 DEF Next

(***************************************************************************)
(* The graph with its concurrent branches, LLM calls and audit writes      *)
(* implements the one in which every node, and the superstep of the three  *)
(* extractors, is a single step.                                           *)
(***************************************************************************)
THEOREM ImplementsNodes == FairSpec => RunsNodeByNode
  <1>1. Init => NodeByNode!Init
    BY DEF Init, NoExtractions, NodeByNode!Init
  <1>2. Init => Hidden
    BY Sorts DEF Init, Hidden, UnderWay
  <1>3. IInv /\ Hidden /\ [Next]_vars => [NodeByNode!Next]_(NodeByNode!run)
    BY GraphStep
  <1> QED
    BY <1>1, <1>2, <1>3, InitIInv, NextIInv, HiddenStep, PTL
    DEF FairSpec, Spec, RunsNodeByNode, NodeByNode!Spec
=============================================================================
