--------------------------- MODULE MigrationProofs ---------------------------
(***************************************************************************)
(* Proofs about Migration, for any number of CPUs, flows and endpoints.    *)
(*                                                                         *)
(* Slots: what each program counter of a call means for the two slots and  *)
(* the control word (SlotInv), from which the refinement follows, and      *)
(* which slot a packet in flight resolves (PacketInv).  Path MTUs: a       *)
(* reading is of its slot's pair (PmtuInv).                                *)
(*                                                                         *)
(* Flow affinity: the word a packet loaded and the one in force (SnapInv), *)
(* the entries a collection has passed (GCInv), the age of entries         *)
(* (RecordInv), and the flows seen while priming (PrimedInv).              *)
(*                                                                         *)
(* Calls: the datapath as it was when the call in progress began           *)
(* (CallInv), so that its outcome is one of those that LoaderOps lists.    *)
(***************************************************************************)
EXTENDS Migration, TLAPS

\* The slot not active is a slot, and not the active one.
LEMMA OtherType == \A s \in Slots : Other(s) \in Slots /\ Other(s) # s /\ Other(Other(s)) = s
  BY DEF Slots, Other

\* The record of no operation, and its control word, are well typed.
LEMMA IdleType == Idle \in Operations /\ Idle.word \in Words
  BY ConstantsAssumption
     DEF Idle, Operations, OpNames, OpSteps, Slots, MaybeEndpoint, Words, Epochs

\* The record of no packet is well typed.
LEMMA NoPktType == NoPkt \in Packets
  BY ConstantsAssumption, IdleType DEF NoPkt, Packets, MaybeEndpoint, Slots

\* The entry of a flow not in the table is well typed.
LEMMA AbsentType == Absent \in Entries
  BY ConstantsAssumption DEF Absent, Entries

\* What LoaderOps sees of a well-typed state is one of its datapath states.
LEMMA DPType == TypeOK => DP \in L!Datapaths
  BY Zenon DEF TypeOK, DP, L!Datapaths, L!Slots, Slots, SlotEndpoint, Words, MaybeEndpoint,
         NextHops

\* An operation starts well typed, with the datapath it found.
LEMMA CallType ==
    ASSUME TypeOK, NEW n \in OpNames, NEW p \in OpSteps
    PROVE  Call(n, p) \in Operations
  BY Zenon, DPType, IdleType DEF Call, Operations

\* The control words that the operations build fit their fields.
LEMMA WordTypes ==
    ASSUME TypeOK
    PROVE  /\ PrimingWord \in Words
           /\ DrainingWord \in Words
           /\ \A s \in Slots : SteadyWord(s) \in Words
  BY ConstantsAssumption, OtherType DEF TypeOK, PrimingWord, DrainingWord, SteadyWord, Words, Epochs

\* Returning leaves the operation and the packets well typed.
LEMMA ReturnType ==
    ASSUME TypeOK, Return
    PROVE  op' \in Operations /\ pkt' \in [CPUs -> Packets]
<1>1. op' \in Operations
  BY Zenon, IdleType DEF Return, Operations
<1>2. \A c \in CPUs : pkt[c] \in Packets
  BY Zenon DEF TypeOK, Packets
<1>3. ASSUME NEW c \in CPUs PROVE [pkt[c] EXCEPT !.age = 1] \in Packets
  BY Zenon, <1>2, <1>3 DEF Packets
<1> QED BY Zenon, <1>1, <1>2, <1>3 DEF Return

\* find_dslite_local_slot returns a slot when one matches.
LEMMA FindLocalSlotType ==
    ASSUME NEW e \in Endpoints, LocalSlots(e) # {}
    PROVE  FindLocalSlot(e) \in Slots /\ FindLocalSlot(e) \in LocalSlots(e)
<1>1. \E s \in LocalSlots(e) : \A t \in LocalSlots(e) : s <= t
  <2>1. CASE 0 \in LocalSlots(e)
    BY <2>1 DEF LocalSlots, Slots
  <2>2. CASE 0 \notin LocalSlots(e)
    BY <2>2 DEF LocalSlots, Slots
  <2> QED BY Zenon, <2>1, <2>2
<1> QED BY Zenon, <1>1 DEF FindLocalSlot, LocalSlots

-----------------------------------------------------------------------------

\* The type invariant, as the product of the types of its variables.
LEMMA TypeParts ==
    TypeOK <=> /\ ctrl \in Words
               /\ nh \in [Slots -> NextHops]
               /\ pmtu \in [Slots -> MaybeEndpoint]
               /\ aff \in [Flows -> Entries]
               /\ lost \in BOOLEAN
               /\ op \in Operations
               /\ pkt \in [CPUs -> Packets]
               /\ primed \subseteq recorded /\ recorded \subseteq Flows
               /\ ungced \in Nat
  BY Zenon DEF TypeOK, NextHops, Entries, Operations, Packets

\* SetB4Config leaves a well-typed state.
LEMMA TypeInit == Init => TypeOK
<1> SUFFICES ASSUME Init PROVE TypeOK
  BY Zenon
<1>1. ctrl \in Words /\ op \in Operations
  BY IdleType, ConstantsAssumption DEF Init, Words, Slots, Epochs, Operations
<1>2. nh \in [Slots -> NextHops] /\ pmtu \in [Slots -> MaybeEndpoint]
  BY DEF Init, NextHops, MaybeEndpoint, Whole, Empty
<1>3. aff \in [Flows -> Entries] /\ pkt \in [CPUs -> Packets]
  BY Zenon, AbsentType, NoPktType DEF Init
<1> QED BY Zenon, <1>1, <1>2, <1>3, TypeParts DEF Init

\* TypeOK leaves open whether a packet has a flow; one on its way to the flow
\* table has.
FlowOfPacket == \A c \in CPUs : pkt[c].pc \in {"lookup", "touch"} => pkt[c].flow \in Flows

\* Every step of a Loader operation keeps the types.
LEMMA TypeLoader == TypeOK /\ LoaderNext => TypeOK'
<1> SUFFICES ASSUME TypeOK, LoaderNext PROVE TypeOK'
  BY Zenon
<1> USE TypeParts
<1>p. TypeOK' <=> /\ ctrl' \in Words
                  /\ nh' \in [Slots -> NextHops]
                  /\ pmtu' \in [Slots -> MaybeEndpoint]
                  /\ aff' \in [Flows -> Entries]
                  /\ lost' \in BOOLEAN
                  /\ op' \in Operations
                  /\ pkt' \in [CPUs -> Packets]
                  /\ primed' \subseteq recorded' /\ recorded' \subseteq Flows
                  /\ ungced' \in Nat
  BY Zenon DEF TypeOK, NextHops, Entries, Operations, Packets
<1>c. \A n \in OpNames, p \in OpSteps : Call(n, p) \in Operations
  BY Zenon, CallType
<1>o. \A o \in Operations, e \in Endpoints : SwitchWrite(o, e) \in Operations
  BY ZenonT(30), OtherType, WordTypes DEF SwitchWrite, Operations, Words, OpSteps, MaybeEndpoint
<1>1. ASSUME NEW e \in Endpoints, BeginMigration(e) PROVE TypeOK'
  <2>1. Call("begin", "claim") \in Operations
    BY Zenon, <1>c DEF OpNames, OpSteps
  <2>2. op' \in Operations
    BY Zenon, <1>1, <2>1, OtherType, WordTypes DEF BeginMigration, Operations, Words, MaybeEndpoint
  <2> QED BY Zenon, <1>1, <1>p, <2>2 DEF BeginMigration, swvars
<1>2. ASSUME NEW e \in Endpoints, SwitchAFTR(e) PROVE TypeOK'
  <2>1. SwitchWrite(Call("switch", "claim"), e) \in Operations
    BY Zenon, <1>c, <1>o DEF OpNames, OpSteps
  <2>2. op' \in Operations
    BY ZenonT(30), <1>2, <2>1, OtherType, WordTypes DEF SwitchAFTR, Operations, Words, OpSteps
  <2> QED BY Zenon, <1>2, <1>p, <2>2 DEF SwitchAFTR, swvars, affvars
<1>3. CASE Cutover
  <2>1. Call("cutover", "flip") \in Operations
    BY Zenon, <1>c DEF OpNames, OpSteps
  <2>2. op' \in Operations
    BY Zenon, <1>3, <2>1, WordTypes DEF Cutover, Operations
  <2> QED BY Zenon, <1>3, <1>p, <2>2 DEF Cutover, swvars, affvars
<1>4. CASE CompleteMigration
  <2>1. Call("complete", "retire") \in Operations
    BY Zenon, <1>c DEF OpNames, OpSteps
  <2>2. op' \in Operations
    BY Zenon, <1>4, <2>1, WordTypes DEF CompleteMigration, Operations, Words
  <2> QED BY Zenon, <1>4, <1>p, <2>2 DEF CompleteMigration, swvars, affvars
<1>5. CASE AbortMigration
  <2>1. Call("abort", "retire") \in Operations
    BY Zenon, <1>c DEF OpNames, OpSteps
  <2>2. op' \in Operations
    BY Zenon, <1>5, <2>1, OtherType, WordTypes DEF AbortMigration, Operations, Words
  <2> QED BY Zenon, <1>5, <1>p, <2>2 DEF AbortMigration, swvars, affvars
<1>6. CASE GCFlowAffinity
  <2>1. Call("gc", "walk") \in Operations
    BY Zenon, <1>c DEF OpNames, OpSteps
  <2>2. op' \in Operations
    BY Zenon, <1>6, <2>1 DEF GCFlowAffinity, Operations
  <2> QED BY Zenon, <1>6, <1>p, <2>2 DEF GCFlowAffinity, swvars, affvars
<1>7. CASE Claim
  <2>1. CASE SlotIsLive(op.slot)
    BY Zenon, <1>7, <2>1, <1>p, ReturnType DEF Claim, affvars
  <2>2. CASE ~SlotIsLive(op.slot)
    <3>1. op' \in Operations /\ pmtu' \in [Slots -> MaybeEndpoint]
      BY <1>7, <2>2 DEF Claim, Operations, OpSteps, MaybeEndpoint
    <3> QED BY Zenon, <1>7, <2>2, <3>1, <1>p DEF Claim, affvars
  <2> QED BY Zenon, <2>1, <2>2
<1>8. CASE PutHead
  <2>1. op' \in Operations
    BY Zenon, <1>8 DEF PutHead, Operations, OpSteps
  <2>2. op.slot \in Slots /\ op.ep \in MaybeEndpoint /\ NoEndpoint \in MaybeEndpoint
    BY Zenon DEF Operations, MaybeEndpoint
  <2>3. nh' \in [Slots -> NextHops]
    <3> HIDE TypeParts
    <3> DEFINE v == op.pc = "head"
               b == IF op.pc = "head" THEN op.ep ELSE NoEndpoint
    <3>1. nh \in [Slots -> NextHops] /\ v \in BOOLEAN /\ b \in MaybeEndpoint
      BY Zenon, <2>2, TypeParts
    <3>2. nh' = [nh EXCEPT ![op.slot].valid = v, ![op.slot].b4 = b]
      BY Zenon, <1>8 DEF PutHead
    <3> HIDE DEF v, b
    <3> QED BY Zenon, <2>2, <3>1, <3>2 DEF NextHops
  <2> QED BY Zenon, <1>8, <2>1, <2>3, <1>p DEF PutHead, affvars
<1>9. CASE PutTail
  <2>1. op' \in Operations
    BY Zenon, <1>9 DEF PutTail, Operations, OpSteps
  <2>2. nh' \in [Slots -> NextHops]
    <3> HIDE TypeParts
    <3> DEFINE a == IF op.pc = "tail" THEN op.ep ELSE NoEndpoint
    <3>1. nh \in [Slots -> NextHops] /\ op.slot \in Slots /\ a \in MaybeEndpoint
      BY Zenon, TypeParts DEF Operations, MaybeEndpoint
    <3>2. nh' = [nh EXCEPT ![op.slot].aftr = a]
      BY Zenon, <1>9 DEF PutTail
    <3> HIDE DEF a
    <3> QED BY Zenon, <3>1, <3>2 DEF NextHops
  <2> QED BY Zenon, <1>9, <2>1, <2>2, <1>p DEF PutTail, affvars
<1>10. CASE Flip
  <2>1. op.word \in Words
    BY Zenon DEF Operations
  <2> QED BY <1>10, <2>1, <1>p, ReturnType DEF Flip
<1>11. CASE Retire
  <2>1. op.word \in Words /\ op' \in Operations
    BY Zenon, <1>11 DEF Retire, Operations, OpSteps
  <2> QED BY Zenon, <1>11, <2>1, <1>p DEF Retire, affvars
<1>12. CASE Forget
  <2>1. pmtu' \in [Slots -> MaybeEndpoint]
    BY Zenon, <1>12 DEF Forget, MaybeEndpoint, Operations
  <2>2. op' \in Operations /\ pkt' \in [CPUs -> Packets]
    <3>1. CASE op.name = "switch"
      <4>1. SwitchWrite(op, op.ep) \in Operations
        BY Zenon, OtherType, WordTypes DEF SwitchWrite, Operations, Words, OpSteps
      <4> QED BY Zenon, <1>12, <3>1, <4>1 DEF Forget
    <3>2. CASE op.name # "switch"
      BY Zenon, <1>12, <3>2, ReturnType DEF Forget
    <3> QED BY Zenon, <3>1, <3>2
  <2> QED BY Zenon, <1>12, <2>1, <2>2, <1>p DEF Forget, affvars
<1>13. CASE MapFails
  BY Zenon, <1>13, <1>p, ReturnType DEF MapFails, swvars, affvars
<1>14. ASSUME NEW f \in Flows, Walk(f) PROVE TypeOK'
  <2>1. op' \in Operations
    BY ZenonT(30), <1>14 DEF Walk, Operations, OpSteps
  <2> QED BY Zenon, <1>14, <2>1, <1>p DEF Walk, swvars, affvars
<1>15. ASSUME NEW f \in Flows, Delete(f) PROVE TypeOK'
  <2>1. op' \in Operations
    BY Zenon, <1>15 DEF Delete, Operations
  <2>2. aff' \in [Flows -> Entries]
    BY Zenon, <1>15, AbsentType DEF Delete
  <2> QED BY Zenon, <1>15, <2>1, <2>2, <1>p DEF Delete, swvars
<1>16. CASE GCReturn
  BY Zenon, <1>16, <1>p, ReturnType DEF GCReturn, swvars
<1> QED
  BY Zenon, <1>1, <1>2, <1>3, <1>4, <1>5, <1>6, <1>7, <1>8, <1>9, <1>10, <1>11, <1>12, <1>13,
     <1>14, <1>15, <1>16 DEF LoaderNext

\* Every step of a packet program keeps the types.
LEMMA TypePacket == TypeOK /\ FlowOfPacket /\ PacketNext => TypeOK'
<1> SUFFICES ASSUME TypeOK, FlowOfPacket, NEW c \in CPUs,
                    \/ \E f \in Flows : Encap(c, f) \/ Decap(c, f)
                    \/ \E e \in Endpoints : PacketTooBig(c, e)
                    \/ Lookup(c) \/ Touch(c) \/ Resolve(c) \/ Send(c) \/ Learn(c)
             PROVE  TypeOK'
  BY Zenon DEF PacketNext
<1> USE TypeParts
<1>p. ASSUME UNCHANGED op, UNCHANGED ungced,
             ctrl' = ctrl, nh' = nh, pmtu' \in [Slots -> MaybeEndpoint],
             aff' \in [Flows -> Entries], lost' \in BOOLEAN,
             primed' \subseteq recorded', recorded' \subseteq Flows,
             pkt' \in [CPUs -> Packets]
      PROVE  TypeOK'
  BY Zenon, <1>p DEF TypeOK, NextHops, Entries, Operations, Packets
<1>q. pkt[c] \in Packets
  BY Zenon
<1>r. pkt[c].pc \in {"lookup", "touch"} => pkt[c].flow \in Flows
  BY Zenon DEF FlowOfPacket
<1>1. ASSUME NEW f \in Flows, Encap(c, f) PROVE TypeOK'
  <2>1. pkt' \in [CPUs -> Packets]
    <3> DEFINE new == [NoPkt EXCEPT !.pc = IF ctrl.state = "STEADY" THEN "resolve" ELSE "lookup",
                          !.kind = "encap", !.flow = f, !.snap = ctrl, !.slot = ctrl.active,
                          !.known = f \in primed]
    <3>1. ctrl.active \in Slots /\ (f \in primed) \in BOOLEAN
      BY DEF Words
    <3>2. new \in Packets
      BY Zenon, <3>1, NoPktType DEF Packets
    <3> QED BY Zenon, <1>1, <3>2 DEF Encap
  <2> QED BY Zenon, <1>1, <2>1, <1>p DEF Encap, swvars, affvars
<1>2. ASSUME NEW f \in Flows, Decap(c, f) PROVE TypeOK'
  <2>1. pkt' \in [CPUs -> Packets]
    BY Zenon, <1>2, NoPktType DEF Decap, Packets
  <2> QED BY Zenon, <1>2, <2>1, <1>p DEF Decap, swvars, affvars
<1>3. ASSUME NEW e \in Endpoints, PacketTooBig(c, e) PROVE TypeOK'
  <2>1. pkt' \in [CPUs -> Packets]
    BY Zenon, <1>3, NoPktType, FindLocalSlotType DEF PacketTooBig, Packets, MaybeEndpoint
  <2> QED BY Zenon, <1>3, <2>1, <1>p DEF PacketTooBig, swvars, affvars
<1>4. CASE Lookup(c)
  <2>1. pkt' \in [CPUs -> Packets]
    BY Zenon, <1>4, <1>q, <1>r DEF Lookup, Packets, Entries
  <2> QED BY Zenon, <1>4, <2>1, <1>p DEF Lookup, swvars, affvars
<1>5. CASE Touch(c)
  <2> DEFINE p == pkt[c]
  <2>1. EntryAfter(p) \in Entries
    BY <1>5, <1>q, <1>r, ConstantsAssumption DEF Touch, EntryAfter, Entries, Packets, Words, Epochs
  <2>2. [p EXCEPT !.pc = "resolve", !.slot = PickedSlot(p)] \in Packets
    BY Zenon, <1>q DEF PickedSlot, Packets, Words
  <2>3. pkt' \in [CPUs -> Packets]
    BY Zenon, <1>5, <2>2, NoPktType DEF Touch
  <2>4. aff' \in [Flows -> Entries]
    BY Zenon, <1>5, <2>1 DEF Touch
  <2>5. lost' \in BOOLEAN /\ primed' \subseteq recorded' /\ recorded' \subseteq Flows
    BY Zenon, <1>5, <1>q, <1>r DEF Touch, Packets
  <2> QED BY Zenon, <1>5, <2>3, <2>4, <2>5, <1>p DEF Touch, swvars
<1>6. CASE Resolve(c)
  <2>1. pkt' \in [CPUs -> Packets]
    BY Zenon, <1>6, <1>q, NoPktType DEF Resolve, Packets, NextHops
  <2> QED BY Zenon, <1>6, <2>1, <1>p DEF Resolve, swvars, affvars
<1>7. CASE Send(c)
  <2>1. pkt' \in [CPUs -> Packets]
    BY Zenon, <1>7, NoPktType DEF Send
  <2> QED BY Zenon, <1>7, <2>1, <1>p DEF Send, swvars, affvars
<1>8. CASE Learn(c)
  <2>1. pkt' \in [CPUs -> Packets]
    BY Zenon, <1>8, NoPktType DEF Learn
  <2>2. pmtu' \in [Slots -> MaybeEndpoint]
    BY <1>8, <1>q DEF Learn, Packets
  <2> QED BY Zenon, <1>8, <2>1, <2>2, <1>p DEF Learn, affvars
<1> QED BY Zenon, <1>1, <1>2, <1>3, <1>4, <1>5, <1>6, <1>7, <1>8

\* The passing of time keeps the types.
LEMMA TypeTime == TypeOK /\ TimeNext => TypeOK'
<1> SUFFICES ASSUME TypeOK, TimeNext PROVE TypeOK'
  OBVIOUS
<1> USE TypeParts
<1>1. ASSUME NEW f \in Flows, FlowFallsIdle(f) PROVE TypeOK'
  <2>1. aff' \in [Flows -> Entries]
    BY Zenon, <1>1 DEF FlowFallsIdle, Entries
  <2> QED BY Zenon, <1>1, <2>1 DEF TypeOK, FlowFallsIdle, swvars, Entries
<1>2. ASSUME NEW s \in Slots, PmtuExpires(s) PROVE TypeOK'
  BY Zenon, <1>2 DEF TypeOK, PmtuExpires, affvars, MaybeEndpoint
<1> QED BY Zenon, <1>1, <1>2 DEF TimeNext

\* Every step keeps FlowOfPacket.
LEMMA FlowStep == TypeOK /\ FlowOfPacket /\ [Next]_vars => FlowOfPacket'
<1> SUFFICES ASSUME TypeOK, FlowOfPacket, [Next]_vars PROVE FlowOfPacket'
  BY Zenon
<1> USE TypeParts
<1>1. ASSUME pkt' = pkt PROVE FlowOfPacket'
  BY Zenon, <1>1 DEF FlowOfPacket
<1>2. ASSUME Return PROVE FlowOfPacket'
  BY <1>2 DEF Return, FlowOfPacket, Packets
<1>3. CASE LoaderNext
  <2>1. pkt' = pkt \/ Return
    BY Zenon, <1>3 DEF LoaderNext, BeginMigration, SwitchAFTR, Cutover, CompleteMigration,
                AbortMigration, GCFlowAffinity, Claim, PutHead, PutTail, Flip, Retire,
                Forget, MapFails, Walk, Delete, GCReturn
  <2> QED BY Zenon, <2>1, <1>1, <1>2
<1>4. CASE PacketNext
  <2>1. PICK c \in CPUs :
          \/ \E f \in Flows : Encap(c, f) \/ Decap(c, f)
          \/ \E e \in Endpoints : PacketTooBig(c, e)
          \/ Lookup(c) \/ Touch(c) \/ Resolve(c) \/ Send(c) \/ Learn(c)
    BY Zenon, <1>4 DEF PacketNext
  <2>2. /\ pkt' = [pkt EXCEPT ![c] = pkt'[c]]
        /\ pkt'[c].pc \in {"lookup", "touch"} => pkt'[c].flow \in Flows
    <3>1. ASSUME NEW f \in Flows, Encap(c, f) PROVE <2>2!:
      BY Zenon, <3>1 DEF Encap, NoPkt
    <3>2. ASSUME NEW f \in Flows, Decap(c, f) PROVE <2>2!:
      BY Zenon, <3>2 DEF Decap, NoPkt
    <3>3. ASSUME NEW e \in Endpoints, PacketTooBig(c, e) PROVE <2>2!:
      BY Zenon, <3>3 DEF PacketTooBig, NoPkt
    <3>4. CASE Lookup(c)
      BY ZenonT(30), <3>4 DEF Lookup, FlowOfPacket, Packets
    <3>5. CASE Touch(c)
      BY <3>5 DEF Touch, NoPkt, Packets
    <3>6. CASE Resolve(c)
      BY <3>6 DEF Resolve, NoPkt, Packets
    <3>7. CASE Send(c) \/ Learn(c)
      BY <3>7 DEF Send, Learn, NoPkt
    <3> QED BY Zenon, <2>1, <3>1, <3>2, <3>3, <3>4, <3>5, <3>6, <3>7
  <2> QED BY Zenon, <2>2 DEF FlowOfPacket
<1>5. CASE TimeNext
  BY Zenon, <1>5, <1>1 DEF TimeNext, FlowFallsIdle, PmtuExpires
<1>6. CASE UNCHANGED vars
  BY Zenon, <1>6, <1>1 DEF vars
<1> QED BY Zenon, <1>3, <1>4, <1>5, <1>6 DEF Next

\* A step that changes nothing keeps the types.
LEMMA TypeStutter == TypeOK /\ UNCHANGED vars => TypeOK'
  BY Zenon DEF TypeOK, vars

\* Every variable keeps its type whatever the Loader and the packet programs
\* do, for any number of CPUs, flows and endpoints; in particular the epoch
\* of writeCtrl stays within its field.
THEOREM TypeCorrect == Spec => []TypeOK
<1>1. Init => TypeOK /\ FlowOfPacket
  BY TypeInit DEF Init, FlowOfPacket, NoPkt
<1>2. TypeOK /\ FlowOfPacket /\ [Next]_vars => TypeOK' /\ FlowOfPacket'
  BY Zenon, TypeLoader, TypePacket, TypeTime, TypeStutter, FlowStep DEF Next
<1> QED BY <1>1, <1>2, PTL DEF Spec

-----------------------------------------------------------------------------
(* The inductive invariant: what each step of an operation may rely on.    *)

\* writeNextHop and the flip after it: the slot written is the one no control
\* word in use names, and is whole by the time of the flip.
Writing ==
    op.pc \in {"claim", "head", "tail", "flip"} /\ op.name # "cutover" =>
        /\ ctrl.state = "STEADY"
        /\ op.slot = Other(ctrl.active)
        /\ op.ep \in Endpoints
        /\ \/ /\ op.name = "begin"
              /\ op.word.active = ctrl.active
              /\ op.word.state = "PRIMING"
           \/ /\ op.name = "switch"
              /\ op.word.active = op.slot
              /\ op.word.state = "STEADY"
        /\ op.pc = "tail" => nh[op.slot].valid /\ nh[op.slot].b4 = op.ep
        /\ op.pc = "flip" => nh[op.slot] = Whole(op.ep)

\* Cutover is one write of the control word.
CuttingOver ==
    op.name = "cutover" =>
        /\ op.pc = "flip"
        /\ ctrl.state = "PRIMING"
        /\ op.word.active = Other(ctrl.active)
        /\ op.word.old = ctrl.active
        /\ op.word.state = "DRAINING"

\* The end of a migration: the control word leaves the slot before it is cleared.
Ending ==
    /\ op.pc \in {"retire", "zhead", "ztail", "forget"} =>
         /\ op.slot = Other(ctrl.active)
         /\ op.name \in {"complete", "abort", "switch"}
         /\ op.name = "switch" => op.ep \in Endpoints
    /\ op.pc = "retire" =>
         /\ ctrl.state # "STEADY"
         /\ op.word.active = ctrl.active
         /\ op.word.state = "STEADY"
    /\ op.pc \in {"zhead", "ztail", "forget"} => ctrl.state = "STEADY"

SlotInv ==
    /\ LiveSlotsWhole
    /\ ctrl.state = "DRAINING" => ctrl.old = Other(ctrl.active)
    /\ Writing /\ CuttingOver /\ Ending

InFlight(c) == pkt[c].kind = "encap" /\ pkt[c].pc \in {"lookup", "touch", "resolve", "send"}

\* A packet no operation has returned under still reads the active slot; one
\* that has seen an operation return sees no other one start.
PacketGood(c) ==
    InFlight(c) =>
        /\ pkt[c].age = 0 => pkt[c].snap.active = ctrl.active
        /\ pkt[c].age = 1 => op.pc = "idle" /\ IsWhole(pkt[c].snap.active)
        /\ Resolving(c) /\ ~Pinned(c) => pkt[c].slot = pkt[c].snap.active
        /\ Resolving(c) /\ ~Pinned(c) /\ pkt[c].pc = "send" => pkt[c].ep = nh[pkt[c].slot].aftr
PacketInv == \A c \in CPUs : PacketGood(c)

\* SetB4Config leaves the active slot whole and no operation running.
LEMMA SlotInit == Init => SlotInv
  BY DEF Init, SlotInv, LiveSlotsWhole, IsWhole, Writing, CuttingOver, Ending, Idle, Slots

\* The invariant of the slots reads the control word, the slots and the operation.
LEMMA SlotFrame ==
    ASSUME SlotInv, UNCHANGED <<ctrl, nh, op>>
    PROVE  SlotInv'
  BY Zenon DEF SlotInv, LiveSlotsWhole, IsWhole, Writing, CuttingOver, Ending

\* LiveSlotsWhole reads the control word and the slots only.
LEMMA LiveFrame ==
    ASSUME LiveSlotsWhole, UNCHANGED <<ctrl, nh>>
    PROVE  LiveSlotsWhole'
  BY Zenon DEF LiveSlotsWhole, IsWhole

\* Once an operation has returned, only the slots themselves are constrained.
LEMMA SlotReturn ==
    ASSUME LiveSlotsWhole', (ctrl.state = "DRAINING" => ctrl.old = Other(ctrl.active))', Return
    PROVE  SlotInv'
  BY Zenon DEF SlotInv, Writing, CuttingOver, Ending, Return, Idle

\* Every step of a Loader operation keeps SlotInv.
LEMMA SlotLoader == TypeOK /\ SlotInv /\ LoaderNext => SlotInv'
<1> SUFFICES ASSUME TypeOK, SlotInv, LoaderNext PROVE SlotInv'
  BY Zenon
<1> USE TypeParts
<1>w. /\ ctrl.active \in Slots /\ ctrl.old \in Slots
      /\ ctrl.state \in {"STEADY", "PRIMING", "DRAINING"}
      /\ op.slot \in Slots
  BY Zenon DEF Words, Operations
<1>1. ASSUME NEW e \in Endpoints, BeginMigration(e) PROVE SlotInv'
  BY <1>1, <1>w, LiveFrame DEF BeginMigration, SlotInv, swvars, Writing, CuttingOver, Ending,
     Call, Idle, PrimingWord
<1>2. ASSUME NEW e \in Endpoints, SwitchAFTR(e) PROVE SlotInv'
  BY <1>2, <1>w, LiveFrame DEF SwitchAFTR, SlotInv, swvars, Writing, CuttingOver, Ending, Call,
     Idle, SwitchWrite, SteadyWord
<1>3. CASE Cutover
  BY <1>3, LiveFrame DEF Cutover, SlotInv, swvars, Writing, CuttingOver, Ending, Call, Idle,
     DrainingWord
<1>4. CASE CompleteMigration
  BY <1>4, LiveFrame DEF CompleteMigration, SlotInv, swvars, Writing, CuttingOver, Ending,
     Call, Idle, SteadyWord
<1>5. CASE AbortMigration
  BY <1>5, LiveFrame DEF AbortMigration, SlotInv, swvars, Writing, CuttingOver, Ending,
     Call, Idle, SteadyWord
<1>6. CASE GCFlowAffinity
  BY <1>6, LiveFrame DEF GCFlowAffinity, SlotInv, swvars, Writing, CuttingOver, Ending, Call, Idle
<1>7. CASE Claim
  <2>1. CASE SlotIsLive(op.slot)
    BY Zenon, <1>7, <2>1, LiveFrame, SlotReturn DEF Claim, SlotInv
  <2>2. CASE ~SlotIsLive(op.slot)
    BY <1>7, <2>2, LiveFrame DEF Claim, SlotInv, Writing, CuttingOver, Ending, Operations
  <2> QED BY Zenon, <2>1, <2>2
<1>8. CASE PutHead
  <2>0. op.slot = Other(ctrl.active) /\ ctrl.state = "STEADY"
    BY Zenon, <1>8, <1>w DEF PutHead, SlotInv, Writing, CuttingOver, Ending
  <2>h. /\ nh'[ctrl.active] = nh[ctrl.active]
        /\ op.pc = "head" => nh'[op.slot].valid /\ nh'[op.slot].b4 = op.ep
    BY ZenonT(30), <1>8, <1>w, <2>0, OtherType DEF PutHead, NextHops
  <2>1. /\ op.slot = Other(ctrl.active) /\ ctrl.state = "STEADY"
        /\ nh'[ctrl.active] = nh[ctrl.active]
        /\ op.pc = "head" => nh'[op.slot].valid /\ nh'[op.slot].b4 = op.ep
    BY Zenon, <2>0, <2>h
  <2>2. LiveSlotsWhole'
    BY <1>8, <2>1 DEF PutHead, SlotInv, LiveSlotsWhole, IsWhole
  <2>3. op' = [op EXCEPT !.pc = IF op.pc = "head" THEN "tail" ELSE "ztail"] /\ op \in Operations
    BY Zenon, <1>8 DEF PutHead
  <2> QED BY <1>8, <2>1, <2>2, <2>3
          DEF PutHead, SlotInv, Writing, CuttingOver, Ending, Operations
<1>9. CASE PutTail
  <2>1. /\ op.slot = Other(ctrl.active) /\ ctrl.state = "STEADY"
        /\ nh'[ctrl.active] = nh[ctrl.active]
    BY <1>9, <1>w, OtherType DEF PutTail, SlotInv, Writing, CuttingOver, Ending, NextHops
  <2>2. op.pc = "tail" => nh'[op.slot] = Whole(op.ep)
    BY Zenon, <1>9, <1>w DEF PutTail, SlotInv, Writing, CuttingOver, NextHops, Whole
  <2>3. LiveSlotsWhole'
    BY Zenon, <1>9, <2>1 DEF PutTail, SlotInv, LiveSlotsWhole, IsWhole
  <2>4. op' = [op EXCEPT !.pc = IF op.pc = "tail" THEN "flip" ELSE "forget"] /\ op \in Operations
    BY Zenon, <1>9 DEF PutTail
  <2> QED BY <1>9, <2>1, <2>2, <2>3, <2>4
          DEF PutTail, SlotInv, Writing, CuttingOver, Ending, Operations
<1>10. CASE Flip
  <2>1. LiveSlotsWhole'
    BY SMTT(30), <1>10, <1>w, OtherType
       DEF Flip, SlotInv, LiveSlotsWhole, IsWhole, Writing, CuttingOver
  <2>2. (ctrl.state = "DRAINING" => ctrl.old = Other(ctrl.active))'
    BY Zenon, <1>10, <1>w, OtherType DEF Flip, SlotInv, Writing, CuttingOver
  <2> QED BY Zenon, <1>10, <2>1, <2>2, SlotReturn DEF Flip
<1>11. CASE Retire
  <2>1. LiveSlotsWhole'
    BY Zenon, <1>11 DEF Retire, SlotInv, LiveSlotsWhole, IsWhole, Ending
  <2> QED BY Zenon, <1>11, <2>1 DEF Retire, SlotInv, Writing, CuttingOver, Ending, Operations
<1>12. CASE Forget
  <2>1. CASE op.name = "switch"
    <3>1. /\ op'.pc = "claim" /\ op'.name = "switch" /\ op'.slot = Other(ctrl.active)
          /\ op'.ep = op.ep
          /\ op'.word.active = Other(ctrl.active) /\ op'.word.state = "STEADY"
      <4>1. op' = SwitchWrite(op, op.ep) /\ op \in Operations
        BY Zenon, <1>12, <2>1 DEF Forget
      <4>2. op' = [op EXCEPT !.pc = "claim", !.slot = Other(ctrl.active), !.ep = op.ep,
                             !.word = SteadyWord(Other(ctrl.active))]
        BY Zenon, <4>1 DEF SwitchWrite
      <4> HIDE TypeParts
      <4> QED BY <4>1, <4>2, <2>1 DEF SteadyWord, Operations
    <3>2. UNCHANGED <<ctrl, nh>> /\ op.pc = "forget"
      BY Zenon, <1>12 DEF Forget
    <3> QED BY Zenon, <2>1, <3>1, <3>2, LiveFrame DEF SlotInv, Writing, CuttingOver, Ending
  <2>2. CASE op.name # "switch"
    BY Zenon, <1>12, <2>2, LiveFrame, SlotReturn DEF Forget, SlotInv
  <2> QED BY Zenon, <2>1, <2>2
<1>13. CASE MapFails
  BY Zenon, <1>13, LiveFrame, SlotReturn DEF MapFails, SlotInv, swvars
<1>14. ASSUME NEW f \in Flows, Walk(f) PROVE SlotInv'
  BY Zenon, <1>14, LiveFrame DEF Walk, SlotInv, Writing, CuttingOver, Ending, swvars, Operations
<1>15. ASSUME NEW f \in Flows, Delete(f) PROVE SlotInv'
  BY Zenon, <1>15, LiveFrame DEF Delete, SlotInv, Writing, CuttingOver, Ending, swvars, Operations
<1>16. CASE GCReturn
  BY Zenon, <1>16, LiveFrame, SlotReturn DEF GCReturn, SlotInv, swvars
<1> QED
  BY <1>1, <1>2, <1>3, <1>4, <1>5, <1>6, <1>7, <1>8, <1>9, <1>10, <1>11, <1>12, <1>13,
     <1>14, <1>15, <1>16 DEF LoaderNext

\* Packets and time leave the slots, the control word and the operation alone.
LEMMA OthersFrame == PacketNext \/ TimeNext => UNCHANGED <<ctrl, nh, op>>
  BY ZenonT(30) DEF PacketNext, TimeNext, Encap, Decap, PacketTooBig, Lookup, Touch, Resolve, Send, Learn,
         FlowFallsIdle, PmtuExpires, swvars

\* Every step keeps SlotInv.
LEMMA SlotStep == TypeOK /\ SlotInv /\ [Next]_vars => SlotInv'
  BY Zenon, SlotLoader, OthersFrame, SlotFrame DEF Next, vars

\* The slots the control word lets a packet resolve are whole at every moment:
\* whatever map update of BeginMigration, Cutover, CompleteMigration,
\* AbortMigration or SwitchAFTR has just happened, or failed.
THEOREM SlotsWhole == Spec => []LiveSlotsWhole
<1>1. Init => SlotInv
  BY Zenon, SlotInit
<1>2. TypeOK /\ SlotInv /\ [Next]_vars => SlotInv'
  BY Zenon, SlotStep
<1>3. SlotInv => LiveSlotsWhole
  BY Zenon DEF SlotInv
<1> QED BY <1>1, <1>2, <1>3, TypeCorrect, PTL DEF Spec

-----------------------------------------------------------------------------
(* The slots and the control word implement EndpointSwitch.                *)

\* The pair in a whole slot is the one both its halves hold.
LEMMA WholeEndpoint ==
    ASSUME NEW s \in Slots
    PROVE  /\ IsWhole(s) => SlotEndpoint(s) = nh[s].aftr /\ SlotEndpoint(s) \in Endpoints
           /\ \A e \in Endpoints : nh[s] = Whole(e) => SlotEndpoint(s) = e
<1>1. \A e \in Endpoints : nh[s] = Whole(e) => SlotEndpoint(s) = nh[s].aftr
  BY Zenon DEF SlotEndpoint
<1>2. \A e : Whole(e).aftr = e
  BY Zenon DEF Whole
<1> QED BY Zenon, <1>1, <1>2 DEF IsWhole

\* The state SetB4Config leaves maps to an initial state of EndpointSwitch.
LEMMA AbstractInit == Init => Abstract!Init
<1> SUFFICES ASSUME Init PROVE Abstract!Init
  OBVIOUS
<1>1. ctrl.active = 0 /\ ctrl.state = "STEADY" /\ \E e \in Endpoints : nh[0] = Whole(e)
  BY Zenon DEF Init, Slots
<1>2. SlotEndpoint(ctrl.active) \in Endpoints
  BY Zenon, <1>1, WholeEndpoint DEF Slots
<1> QED BY Zenon, <1>1, <1>2 DEF Abstract!Init, Abstract!NoMigration

\* In STEADY only the active slot shows in the abstract state.
LEMMA AbstractStutter ==
    ASSUME SlotInv, TypeOK, UNCHANGED ctrl, ctrl.state = "STEADY", nh'[ctrl.active] = nh[ctrl.active]
    PROVE  UNCHANGED Abstract!vars
  BY Zenon DEF Abstract!vars, SlotEndpoint

\* The abstract state is a function of the control word and the slots.
LEMMA AbstractFrame ==
    ASSUME UNCHANGED <<ctrl, nh>>
    PROVE  UNCHANGED Abstract!vars
  BY Zenon DEF Abstract!vars, SlotEndpoint

\* The steps that write a slot write one the abstract state does not show.
LEMMA AbstractPut == TypeOK /\ SlotInv /\ (PutHead \/ PutTail) => UNCHANGED Abstract!vars
<1> SUFFICES ASSUME TypeOK, SlotInv, PutHead \/ PutTail PROVE UNCHANGED Abstract!vars
  BY Zenon
<1>1. op.slot = Other(ctrl.active) /\ ctrl.state = "STEADY" /\ ctrl.active \in Slots
  BY Zenon DEF PutHead, PutTail, SlotInv, Writing, CuttingOver, Ending, TypeOK, Words
<1>2. nh'[ctrl.active] = nh[ctrl.active] /\ UNCHANGED ctrl
  BY Zenon, <1>1, OtherType DEF PutHead, PutTail, TypeOK
<1> QED BY Zenon, <1>1, <1>2, AbstractStutter

\* The flip is BeginMigration's Prepare, SwitchAFTR's Replace or Cutover's Cut.
LEMMA AbstractFlip == TypeOK /\ SlotInv /\ Flip => Abstract!Next
<1> SUFFICES ASSUME TypeOK, SlotInv, Flip PROVE Abstract!Next
  BY Zenon
<1>t. /\ ctrl.active \in Slots /\ ctrl.old \in Slots /\ Other(ctrl.active) \in Slots
      /\ op.word = ctrl' /\ nh' = nh /\ op.pc = "flip"
  BY Zenon, OtherType DEF Flip, TypeOK, Words
<1>s. \A s \in Slots : SlotEndpoint(s)' = SlotEndpoint(s)
  BY Zenon, <1>t DEF SlotEndpoint
<1>1. CASE op.name = "begin"
  <2>1. /\ ctrl.state = "STEADY" /\ ctrl'.state = "PRIMING" /\ ctrl'.active = ctrl.active
        /\ op.ep \in Endpoints /\ nh[Other(ctrl.active)] = Whole(op.ep)
    BY Zenon, <1>1, <1>t DEF SlotInv, Writing
  <2>2. SlotEndpoint(Other(ctrl.active)) = op.ep
    BY Zenon, <1>t, <2>1, WholeEndpoint
  <2>3. Abstract!Prepare(op.ep)
    BY Zenon, <1>t, <1>s, <2>1, <2>2 DEF Abstract!Prepare, Abstract!NoMigration
  <2> QED BY Zenon, <2>1, <2>3 DEF Abstract!Next
<1>2. CASE op.name = "cutover"
  <2>1. /\ ctrl.state = "PRIMING" /\ ctrl'.state = "DRAINING"
        /\ ctrl'.active = Other(ctrl.active) /\ ctrl'.old = ctrl.active
        /\ IsWhole(Other(ctrl.active))
    BY Zenon, <1>2, <1>t DEF SlotInv, CuttingOver, LiveSlotsWhole
  <2>2. SlotEndpoint(Other(ctrl.active)) # NoEndpoint
    BY Zenon, <1>t, <2>1, WholeEndpoint, ConstantsAssumption
  <2>3. Abstract!Cut
    BY Zenon, <1>t, <1>s, <2>1, <2>2 DEF Abstract!Cut
  <2> QED BY Zenon, <2>3 DEF Abstract!Next
<1>3. CASE op.name \notin {"begin", "cutover"}
  <2>1. /\ ctrl.state = "STEADY" /\ ctrl'.state = "STEADY" /\ ctrl'.active = Other(ctrl.active)
        /\ op.ep \in Endpoints /\ nh[Other(ctrl.active)] = Whole(op.ep)
    BY Zenon, <1>3, <1>t DEF SlotInv, Writing
  <2>2. SlotEndpoint(Other(ctrl.active)) = op.ep
    BY Zenon, <1>t, <2>1, WholeEndpoint
  <2>3. Abstract!Replace(op.ep)
    BY Zenon, <1>t, <1>s, <2>1, <2>2 DEF Abstract!Replace, Abstract!NoMigration
  <2> QED BY Zenon, <2>1, <2>3 DEF Abstract!Next
<1> QED BY Zenon, <1>1, <1>2, <1>3

\* Leaving PRIMING is Rollback, leaving DRAINING is Retire.
LEMMA AbstractRetire == TypeOK /\ SlotInv /\ Retire => Abstract!Next
<1> SUFFICES ASSUME TypeOK, SlotInv, Retire PROVE Abstract!Next
  OBVIOUS
<1>t. /\ ctrl.active \in Slots /\ ctrl.old \in Slots /\ Other(ctrl.active) \in Slots
      /\ op.word = ctrl' /\ nh' = nh /\ op.pc = "retire"
      /\ ctrl'.active = ctrl.active /\ ctrl'.state = "STEADY"
      /\ ctrl.state \in {"PRIMING", "DRAINING"}
  BY Zenon, OtherType DEF Retire, TypeOK, Words, SlotInv, Ending
<1>s. \A s \in Slots : SlotEndpoint(s)' = SlotEndpoint(s)
  BY Zenon, <1>t DEF SlotEndpoint
<1>1. CASE ctrl.state = "PRIMING"
  <2>1. SlotEndpoint(Other(ctrl.active)) # NoEndpoint
    BY Zenon, <1>1, <1>t, WholeEndpoint, ConstantsAssumption DEF SlotInv, LiveSlotsWhole
  <2>2. Abstract!Rollback
    BY Zenon, <1>1, <1>t, <1>s, <2>1 DEF Abstract!Rollback
  <2> QED BY Zenon, <2>2 DEF Abstract!Next
<1>2. CASE ctrl.state = "DRAINING"
  <2>1. SlotEndpoint(ctrl.old) # NoEndpoint
    BY Zenon, <1>2, <1>t, WholeEndpoint, ConstantsAssumption DEF SlotInv, LiveSlotsWhole
  <2>2. Abstract!Retire
    BY Zenon, <1>2, <1>t, <1>s, <2>1 DEF Abstract!Retire
  <2> QED BY Zenon, <2>2 DEF Abstract!Next
<1> QED BY Zenon, <1>t, <1>1, <1>2

\* Every step maps to a step of EndpointSwitch or to a stutter.
LEMMA AbstractStep == TypeOK /\ SlotInv /\ [Next]_vars => [Abstract!Next]_(Abstract!vars)
<1> SUFFICES ASSUME TypeOK, SlotInv, [Next]_vars PROVE [Abstract!Next]_(Abstract!vars)
  BY Zenon
<1>1. CASE LoaderNext
  <2>1. \/ UNCHANGED <<ctrl, nh>>
        \/ PutHead \/ PutTail \/ Flip \/ Retire
    BY Zenon, <1>1 DEF LoaderNext, BeginMigration, SwitchAFTR, Cutover, CompleteMigration, AbortMigration,
                GCFlowAffinity, Claim, Forget, MapFails, Walk, Delete, GCReturn, swvars
  <2> QED BY Zenon, <2>1, AbstractFrame, AbstractPut, AbstractFlip, AbstractRetire
<1>2. CASE PacketNext \/ TimeNext \/ UNCHANGED vars
  BY Zenon, <1>2, OthersFrame, AbstractFrame DEF vars
<1> QED BY Zenon, <1>1, <1>2 DEF Next

\* Every step of the Loader, of a packet or of time is a step of
\* EndpointSwitch or leaves its state alone: the pair in use is only ever
\* replaced as a whole, by the control word's one write.
THEOREM Refinement == Spec => ImplementsEndpointSwitch
<1>1. Init => SlotInv /\ Abstract!Init
  BY Zenon, SlotInit, AbstractInit
<1>2. TypeOK /\ SlotInv /\ [Next]_vars => SlotInv' /\ [Abstract!Next]_(Abstract!vars)
  BY Zenon, SlotStep, AbstractStep
<1> QED BY <1>1, <1>2, TypeCorrect, PTL DEF Spec, ImplementsEndpointSwitch, Abstract!Spec

-----------------------------------------------------------------------------
(* Packets on the active slot.                                             *)

\* The fields of a packet the proofs below read are well typed.
LEMMA PacketTypes ==
    ASSUME TypeOK, NEW c \in CPUs
    PROVE  pkt[c] \in Packets /\ pkt[c].age \in {0, 1} /\ pkt[c].snap.active \in Slots
  BY Zenon, TypeParts DEF Packets, Words

\* While an operation runs, every packet in flight reads the active slot.
LEMMA BusyPackets ==
    ASSUME TypeOK, SlotInv, PacketInv, op.pc # "idle", NEW c \in CPUs, InFlight(c)
    PROVE  pkt[c].age = 0 /\ pkt[c].snap.active = ctrl.active
  BY Zenon, PacketTypes DEF PacketInv, PacketGood

\* An operation starts: no packet has seen another one return.
LEMMA PacketStart ==
    ASSUME TypeOK, SlotInv, PacketInv, NEW n, OpMayStart(n), UNCHANGED <<ctrl, nh, pkt>>
    PROVE  PacketInv'
<1> SUFFICES ASSUME NEW c \in CPUs, InFlight(c)'
             PROVE  /\ (pkt[c].age = 0 => pkt[c].snap.active = ctrl.active)'
                    /\ pkt[c].age # 1
                    /\ (Resolving(c) /\ ~Pinned(c) => pkt[c].slot = pkt[c].snap.active)'
                    /\ (Resolving(c) /\ ~Pinned(c) /\ pkt[c].pc = "send"
                           => pkt[c].ep = nh[pkt[c].slot].aftr)'
  BY Zenon DEF PacketInv, PacketGood
<1>1. InFlight(c) /\ pkt[c].pc # "idle"
  BY Zenon DEF InFlight
<1>2. pkt[c].age # 1
  <2>1. pkt[c].age < MaxOverlap
    BY Zenon, <1>1 DEF OpMayStart
  <2>2. MaxOverlap \in {0, 1}
    BY Zenon, ConstantsAssumption
  <2> QED BY <2>1, <2>2
<1> QED BY Zenon, <1>1, <1>2 DEF PacketInv, PacketGood, Resolving, Pinned

\* A step of an operation that goes on.
LEMMA PacketGoesOn ==
    ASSUME TypeOK, SlotInv, PacketInv, op.pc # "idle", pkt' = pkt,
           ctrl'.active = ctrl.active, nh'[ctrl.active] = nh[ctrl.active]
    PROVE  PacketInv'
<1> SUFFICES ASSUME NEW c \in CPUs, InFlight(c)'
             PROVE  /\ (pkt[c].age = 0 => pkt[c].snap.active = ctrl.active)'
                    /\ pkt[c].age # 1
                    /\ (Resolving(c) /\ ~Pinned(c) => pkt[c].slot = pkt[c].snap.active)'
                    /\ (Resolving(c) /\ ~Pinned(c) /\ pkt[c].pc = "send"
                           => pkt[c].ep = nh[pkt[c].slot].aftr)'
  BY Zenon DEF PacketInv, PacketGood
<1>1. InFlight(c)
  BY Zenon DEF InFlight
<1>2. pkt[c].age = 0 /\ pkt[c].snap.active = ctrl.active
  BY Zenon, <1>1, BusyPackets
<1> QED BY SMTT(30), <1>1, <1>2 DEF PacketInv, PacketGood, Resolving, Pinned

\* An operation returns, perhaps with the flip.
LEMMA PacketReturn ==
    ASSUME TypeOK, SlotInv, PacketInv, op.pc # "idle", Return, nh' = nh
    PROVE  PacketInv'
<1> SUFFICES ASSUME NEW c \in CPUs, InFlight(c)'
             PROVE  /\ pkt'[c].age # 0
                    /\ (op.pc = "idle" /\ IsWhole(pkt[c].snap.active))'
                    /\ (Resolving(c) /\ ~Pinned(c) => pkt[c].slot = pkt[c].snap.active)'
                    /\ (Resolving(c) /\ ~Pinned(c) /\ pkt[c].pc = "send"
                           => pkt[c].ep = nh[pkt[c].slot].aftr)'
  BY Zenon DEF PacketInv, PacketGood
<1>1. pkt[c] \in Packets /\ pkt[c].pc # "idle" /\ pkt'[c] = [pkt[c] EXCEPT !.age = 1]
  BY Zenon, PacketTypes DEF Return, InFlight
<1>2. /\ pkt'[c].age = 1 /\ pkt'[c].pc = pkt[c].pc /\ pkt'[c].kind = pkt[c].kind
      /\ pkt'[c].snap = pkt[c].snap /\ pkt'[c].slot = pkt[c].slot /\ pkt'[c].ep = pkt[c].ep
  BY Zenon, <1>1 DEF Packets
<1>3. InFlight(c)
  BY Zenon, <1>2 DEF InFlight
<1>4. IsWhole(pkt[c].snap.active)
  BY Zenon, <1>3, BusyPackets DEF SlotInv, LiveSlotsWhole
<1>5. IsWhole(pkt[c].snap.active)'
  BY Zenon, <1>4, <1>2 DEF IsWhole
<1> QED BY SMTT(30), <1>2, <1>3, <1>5 DEF PacketInv, PacketGood, Resolving, Pinned, Return, Idle

\* Every step of a Loader operation keeps PacketInv.
LEMMA PacketLoader == TypeOK /\ SlotInv /\ PacketInv /\ LoaderNext => PacketInv'
<1> SUFFICES ASSUME TypeOK, SlotInv, PacketInv, LoaderNext PROVE PacketInv'
  BY Zenon
<1>1. CASE \/ \E e \in Endpoints : BeginMigration(e) \/ SwitchAFTR(e)
           \/ Cutover \/ CompleteMigration \/ AbortMigration \/ GCFlowAffinity
  <2>1. (\E n : OpMayStart(n)) /\ UNCHANGED <<ctrl, nh, pkt>>
    BY Zenon, <1>1 DEF BeginMigration, SwitchAFTR, Cutover, CompleteMigration, AbortMigration,
                GCFlowAffinity, swvars
  <2> QED BY Zenon, <2>1, PacketStart
<1>2. CASE PutHead \/ PutTail
  <2>1. op.slot = Other(ctrl.active) /\ ctrl.active \in Slots
    BY Zenon, <1>2 DEF PutHead, PutTail, SlotInv, Writing, CuttingOver, Ending, TypeOK, Words
  <2>2. nh'[ctrl.active] = nh[ctrl.active] /\ UNCHANGED <<ctrl, pkt>> /\ op.pc # "idle"
    BY Zenon, <1>2, <2>1, OtherType DEF PutHead, PutTail, TypeOK
  <2> QED BY Zenon, <2>2, PacketGoesOn
<1>3. CASE Retire
  BY Zenon, <1>3, PacketGoesOn DEF Retire, SlotInv, Ending
<1>4. CASE Flip \/ MapFails \/ GCReturn
  BY Zenon, <1>4, PacketReturn DEF Flip, MapFails, GCReturn, swvars
<1>5. CASE Claim
  BY Zenon, <1>5, PacketGoesOn, PacketReturn DEF Claim
<1>6. CASE Forget
  BY Zenon, <1>6, PacketGoesOn, PacketReturn DEF Forget
<1>7. CASE \E f \in Flows : Walk(f) \/ Delete(f)
  BY Zenon, <1>7, PacketGoesOn DEF Walk, Delete, swvars
<1> QED BY Zenon, <1>1, <1>2, <1>3, <1>4, <1>5, <1>6, <1>7 DEF LoaderNext

\* Packets do not disturb one another.
LEMMA OtherPackets ==
    ASSUME TypeOK, PacketInv, UNCHANGED <<ctrl, nh, op>>,
           NEW c \in CPUs, pkt' = [pkt EXCEPT ![c] = pkt'[c]], PacketGood(c)'
    PROVE  PacketInv'
<1>1. ASSUME NEW b \in CPUs, b # c PROVE PacketGood(b)'
  <2>1. pkt'[b] = pkt[b]
    BY Zenon, <1>1 DEF TypeOK
  <2>2. PacketGood(b)
    BY Zenon DEF PacketInv, PacketGood
  <2>3. /\ InFlight(b)' = InFlight(b) /\ Resolving(b)' = Resolving(b)
        /\ Pinned(b)' = Pinned(b)
    BY Zenon, <2>1 DEF InFlight, Resolving, Pinned
  <2>4. IsWhole(pkt[b].snap.active)' = IsWhole(pkt[b].snap.active)
    BY Zenon, <2>1 DEF IsWhole
  <2> QED BY Zenon, <2>1, <2>2, <2>3, <2>4 DEF PacketGood
<1>2. \A b \in CPUs : PacketGood(b)'
  BY Zenon, <1>1
<1> QED BY Zenon, <1>2 DEF PacketInv, PacketGood

\* Every step of a packet program keeps PacketInv.
LEMMA PacketPacket == TypeOK /\ SlotInv /\ PacketInv /\ PacketNext => PacketInv'
<1> SUFFICES ASSUME TypeOK, SlotInv, PacketInv, NEW c \in CPUs,
                    \/ \E f \in Flows : Encap(c, f) \/ Decap(c, f)
                    \/ \E e \in Endpoints : PacketTooBig(c, e)
                    \/ Lookup(c) \/ Touch(c) \/ Resolve(c) \/ Send(c) \/ Learn(c)
             PROVE  PacketInv'
  BY Zenon DEF PacketNext
<1>u. UNCHANGED <<ctrl, nh, op>>
  BY Zenon, OthersFrame DEF PacketNext
<1>g. PacketGood(c) /\ pkt[c] \in Packets /\ pkt \in [CPUs -> Packets]
  BY Zenon, PacketTypes, TypeParts DEF PacketInv, PacketGood
<1> SUFFICES pkt' = [pkt EXCEPT ![c] = pkt'[c]] /\ PacketGood(c)'
  BY Zenon, <1>u, OtherPackets
<1>1. ASSUME NEW f \in Flows, Encap(c, f) PROVE pkt' = [pkt EXCEPT ![c] = pkt'[c]] /\ PacketGood(c)'
  <2>1. /\ pkt' = [pkt EXCEPT ![c] = pkt'[c]]
        /\ pkt'[c].pc \in {"resolve", "lookup"} /\ pkt'[c].age = 0
        /\ pkt'[c].snap = ctrl /\ pkt'[c].slot = ctrl.active
    BY Zenon, <1>1, <1>g DEF Encap, NoPkt
  <2>2. pkt'[c].pc # "send" /\ pkt'[c].age # 1
    BY <2>1
  <2>3. pkt'[c].snap.active = ctrl'.active /\ pkt'[c].slot = pkt'[c].snap.active
    BY <2>1, <1>u, Zenon
  <2>4. PacketGood(c)'
    BY Zenon, <2>2, <2>3 DEF PacketGood
  <2> QED BY Zenon, <2>1, <2>4
<1>2. ASSUME NEW f \in Flows, Decap(c, f) PROVE pkt' = [pkt EXCEPT ![c] = pkt'[c]] /\ PacketGood(c)'
  BY Zenon, <1>2, <1>g DEF Decap, NoPkt, PacketGood, InFlight
<1>3. ASSUME NEW e \in Endpoints, PacketTooBig(c, e)
      PROVE pkt' = [pkt EXCEPT ![c] = pkt'[c]] /\ PacketGood(c)'
  BY Zenon, <1>3, <1>g DEF PacketTooBig, NoPkt, PacketGood, InFlight
<1>4. CASE Lookup(c)
  <2>1. /\ pkt' = [pkt EXCEPT ![c] = pkt'[c]] /\ pkt[c].pc = "lookup" /\ pkt'[c].pc = "touch"
        /\ pkt'[c].age = pkt[c].age /\ pkt'[c].snap = pkt[c].snap /\ pkt'[c].kind = pkt[c].kind
    BY Zenon, <1>4, <1>g DEF Lookup, Packets
  <2> QED BY Zenon, <2>1, <1>g, <1>u DEF PacketGood, InFlight, Resolving, IsWhole
<1>5. CASE Touch(c)
  <2>1. CASE pkt[c].kind = "decap"
    BY Zenon, <1>5, <2>1, <1>g DEF Touch, NoPkt, PacketGood, InFlight
  <2>2. CASE pkt[c].kind # "decap"
    <3>1. /\ pkt' = [pkt EXCEPT ![c] = pkt'[c]]
          /\ pkt[c].pc = "touch" /\ pkt'[c].pc = "resolve" /\ pkt'[c].slot = PickedSlot(pkt[c])
          /\ pkt'[c].age = pkt[c].age /\ pkt'[c].snap = pkt[c].snap /\ pkt'[c].kind = pkt[c].kind
      BY Zenon, <1>5, <2>2, <1>g DEF Touch, Packets
    <3>2. ~Pinned(c)' => pkt'[c].slot = pkt'[c].snap.active
      BY Zenon, <3>1 DEF PickedSlot, Pinned
    <3> QED BY Zenon, <3>1, <3>2, <1>g, <1>u DEF PacketGood, InFlight, Resolving, IsWhole
  <2> QED BY Zenon, <2>1, <2>2
<1>6. CASE Resolve(c)
  <2>1. CASE ~nh[pkt[c].slot].valid
    BY Zenon, <1>6, <2>1, <1>g DEF Resolve, NoPkt, PacketGood, InFlight
  <2>2. CASE nh[pkt[c].slot].valid
    <3>1. /\ pkt' = [pkt EXCEPT ![c] = pkt'[c]]
          /\ pkt[c].pc = "resolve" /\ pkt'[c].pc = "send" /\ pkt'[c].slot = pkt[c].slot
          /\ pkt'[c].age = pkt[c].age /\ pkt'[c].snap = pkt[c].snap /\ pkt'[c].kind = pkt[c].kind
          /\ pkt'[c].ep = nh[pkt[c].slot].b4
      BY Zenon, <1>6, <2>2, <1>g DEF Resolve, Packets
    <3>2. ASSUME Resolving(c)', ~Pinned(c)' PROVE pkt'[c].ep = nh'[pkt'[c].slot].aftr
      <4>1. InFlight(c) /\ Resolving(c) /\ ~Pinned(c)
        BY Zenon, <3>1, <3>2 DEF InFlight, Resolving, Pinned
      <4>2. pkt[c].slot = pkt[c].snap.active /\ IsWhole(pkt[c].snap.active)
        <5>1. pkt[c].slot = pkt[c].snap.active
          BY Zenon, <4>1, <1>g DEF PacketGood
        <5>2. CASE pkt[c].age = 0
          BY Zenon, <5>2, <4>1, <1>g DEF PacketGood, SlotInv, LiveSlotsWhole
        <5>3. CASE pkt[c].age = 1
          BY Zenon, <5>3, <4>1, <1>g DEF PacketGood
        <5> QED BY Zenon, <5>1, <5>2, <5>3, PacketTypes
      <4>3. nh[pkt[c].slot].b4 = nh[pkt[c].slot].aftr
        <5>1. PICK e \in Endpoints : nh[pkt[c].slot] = Whole(e)
          BY <4>2, Zenon DEF IsWhole
        <5> QED BY <5>1 DEF Whole
      <4> QED BY Zenon, <4>3, <3>1, <1>u
    <3>3. ~Pinned(c)' => ~Pinned(c)
      BY Zenon, <3>1 DEF Pinned
    <3> QED BY Zenon, <3>1, <3>2, <3>3, <1>g, <1>u DEF PacketGood, InFlight, Resolving, IsWhole
  <2> QED BY Zenon, <2>1, <2>2
<1>7. CASE Send(c)
  BY Zenon, <1>7, <1>g DEF Send, NoPkt, PacketGood, InFlight
<1>8. CASE Learn(c)
  <2>1. pkt' = [pkt EXCEPT ![c] = NoPkt]
    BY Zenon, <1>8 DEF Learn
  <2> QED BY Zenon, <2>1, <1>g DEF NoPkt, PacketGood, InFlight
<1> QED BY Zenon, <1>1, <1>2, <1>3, <1>4, <1>5, <1>6, <1>7, <1>8

\* PacketInv reads neither the flow table nor the path MTUs.
LEMMA PacketFrame ==
    ASSUME PacketInv, UNCHANGED <<ctrl, nh, op, pkt>>
    PROVE  PacketInv'
  BY ZenonT(30) DEF PacketInv, PacketGood, InFlight, Resolving, Pinned, IsWhole

\* Every step keeps PacketInv.
LEMMA PacketStep == TypeOK /\ SlotInv /\ PacketInv /\ [Next]_vars => PacketInv'
<1>1. TimeNext => UNCHANGED <<ctrl, nh, op, pkt>>
  BY Zenon DEF TimeNext, FlowFallsIdle, PmtuExpires, swvars
<1> QED BY Zenon, <1>1, PacketLoader, PacketPacket, PacketFrame DEF Next, vars

\* A packet on the active slot of the control word it loaded once is sent to
\* one whole pair, whatever single operation runs between its reads.
THEOREM PacketsWhole == Spec => []UnpinnedPacketsWhole
<1>1. Init => SlotInv /\ PacketInv
  <2>1. Init => \A c \in CPUs : pkt[c].pc = "idle"
    BY DEF Init, NoPkt
  <2>2. Init => \A c \in CPUs : ~InFlight(c)
    BY Zenon, <2>1 DEF InFlight
  <2> QED BY Zenon, <2>2, SlotInit DEF PacketInv, PacketGood
<1>2. TypeOK /\ SlotInv /\ PacketInv /\ [Next]_vars => SlotInv' /\ PacketInv'
  BY Zenon, SlotStep, PacketStep
<1>3. TypeOK /\ SlotInv /\ PacketInv => UnpinnedPacketsWhole
  <2> SUFFICES ASSUME TypeOK, SlotInv, PacketInv, NEW c \in CPUs, Resolving(c), ~Pinned(c)
               PROVE  HoldsWhole(c)
    BY Zenon DEF UnpinnedPacketsWhole
  <2>1. InFlight(c)
    BY Zenon DEF InFlight, Resolving
  <2>2. pkt[c].slot = pkt[c].snap.active /\ IsWhole(pkt[c].snap.active)
    BY Zenon, <2>1, PacketTypes DEF PacketInv, PacketGood, SlotInv, LiveSlotsWhole
  <2> QED BY Zenon, <2>1, <2>2 DEF PacketInv, PacketGood, HoldsWhole
<1> QED BY <1>1, <1>2, <1>3, TypeCorrect, PTL DEF Spec

-----------------------------------------------------------------------------
(* A path MTU belongs to the pair in its slot.                             *)

\* When no packet overlaps an operation, none is running while one is; a
\* Packet Too Big on its way to its slot holds the slot's pair; a reading
\* belongs to the pair in its slot but between clearNextHop's clearing of the
\* slot and of its reading, and a slot being written has none.
Quiet == op.pc # "idle" => \A c \in CPUs : pkt[c].pc = "idle"
LearnGood(c) ==
    pkt[c].pc = "learn" => pkt[c].ep \in Endpoints /\ nh[pkt[c].slot] = Whole(pkt[c].ep)
ReadingGood(s) ==
    \/ pmtu[s] = NoEndpoint
    \/ nh[s] = Whole(pmtu[s])
    \/ op.pc \in {"ztail", "forget"} /\ s = op.slot
PmtuInv ==
    /\ Quiet
    /\ \A c \in CPUs : LearnGood(c)
    /\ \A s \in Slots : ReadingGood(s)
    /\ op.pc \in {"head", "tail", "flip"} /\ op.name # "cutover" => pmtu[op.slot] = NoEndpoint

\* The steps of an operation, none of which fails, keep each slot's reading.
LEMMA ReadingLoader ==
    ASSUME "fail" \notin Ops, TypeOK, SlotInv, PmtuInv, LoaderNext, NEW s \in Slots
    PROVE  ReadingGood(s)'
<1> USE TypeParts
<1>w. op.slot \in Slots /\ op \in Operations /\ ReadingGood(s)
  BY Zenon DEF Operations, PmtuInv
<1>1. CASE pmtu'[s] = NoEndpoint
  BY Zenon, <1>1 DEF ReadingGood
<1>2. ASSUME UNCHANGED <<nh, pmtu>>, op.pc \notin {"ztail", "forget"} PROVE ReadingGood(s)'
  BY Zenon, <1>2, <1>w DEF ReadingGood
<1>3. CASE PutHead
  <2>1. CASE s # op.slot
    <3>1. nh'[s] = nh[s] /\ pmtu' = pmtu /\ op.pc \notin {"ztail", "forget"}
      BY Zenon, <1>3, <2>1, <1>w DEF PutHead
    <3> QED BY Zenon, <3>1, <1>w DEF ReadingGood
  <2>2. CASE s = op.slot /\ op.pc = "head"
    <3>1. op.name # "cutover"
      BY Zenon, <2>2 DEF SlotInv, CuttingOver
    <3> QED BY Zenon, <1>3, <2>2, <3>1, <1>1 DEF PutHead, PmtuInv
  <2>3. CASE s = op.slot /\ op.pc # "head"
    BY Zenon, <1>3, <2>3, <1>w DEF PutHead, ReadingGood, Operations
  <2> QED BY Zenon, <2>1, <2>2, <2>3
<1>4. CASE PutTail
  <2>1. CASE s # op.slot
    <3>1. nh'[s] = nh[s] /\ pmtu' = pmtu
      BY Zenon, <1>4, <2>1, <1>w DEF PutTail
    <3> QED BY Zenon, <2>1, <3>1, <1>w DEF ReadingGood
  <2>2. CASE s = op.slot /\ op.pc = "tail"
    <3>1. op.name # "cutover"
      BY Zenon, <2>2 DEF SlotInv, CuttingOver
    <3> QED BY Zenon, <1>4, <2>2, <3>1, <1>1 DEF PutTail, PmtuInv
  <2>3. CASE s = op.slot /\ op.pc # "tail"
    BY Zenon, <1>4, <2>3, <1>w DEF PutTail, ReadingGood, Operations
  <2> QED BY Zenon, <2>1, <2>2, <2>3
<1>5. CASE Claim
  <2>1. CASE SlotIsLive(op.slot)
    BY Zenon, <1>5, <2>1, <1>2 DEF Claim
  <2>2. CASE ~SlotIsLive(op.slot) /\ s = op.slot
    BY Zenon, <1>5, <2>2, <1>1 DEF Claim
  <2>3. CASE ~SlotIsLive(op.slot) /\ s # op.slot
    <3>1. nh'[s] = nh[s] /\ pmtu'[s] = pmtu[s] /\ op.pc = "claim"
      BY Zenon, <1>5, <2>3 DEF Claim
    <3> QED BY Zenon, <3>1, <1>w DEF ReadingGood
  <2> QED BY Zenon, <2>1, <2>2, <2>3
<1>6. CASE Forget
  <2>1. CASE s = op.slot
    BY Zenon, <1>6, <2>1, <1>1 DEF Forget
  <2>2. CASE s # op.slot
    <3>1. nh'[s] = nh[s] /\ pmtu'[s] = pmtu[s]
      BY Zenon, <1>6, <2>2 DEF Forget
    <3> QED BY Zenon, <2>2, <3>1, <1>w DEF ReadingGood
  <2> QED BY Zenon, <2>1, <2>2
<1>7. CASE MapFails
  BY Zenon, <1>7 DEF MapFails
<1>8. CASE \/ \E e \in Endpoints : BeginMigration(e) \/ SwitchAFTR(e)
           \/ Cutover \/ CompleteMigration \/ AbortMigration \/ GCFlowAffinity
  <2>1. UNCHANGED <<nh, pmtu>> /\ op.pc = "idle"
    BY Zenon, <1>8 DEF BeginMigration, SwitchAFTR, Cutover, CompleteMigration, AbortMigration,
                GCFlowAffinity, OpMayStart, swvars
  <2> QED BY Zenon, <2>1, <1>2
<1>9. CASE Flip \/ Retire \/ GCReturn \/ \E f \in Flows : Walk(f) \/ Delete(f)
  <2>1. UNCHANGED <<nh, pmtu>> /\ op.pc \notin {"ztail", "forget"}
    BY Zenon, <1>9 DEF Flip, Retire, GCReturn, Walk, Delete, swvars
  <2> QED BY Zenon, <2>1, <1>2
<1> QED BY <1>3, <1>4, <1>5, <1>6, <1>7, <1>8, <1>9 DEF LoaderNext

\* A step of an operation moves no packet; it starts only when none runs.
LEMMA QuietLoader ==
    ASSUME MaxOverlap = 0, TypeOK, PmtuInv, LoaderNext
    PROVE  /\ Quiet'
           /\ \A c \in CPUs : pkt[c].pc = "idle" /\ pkt'[c].pc = "idle"
<1>1. \A c \in CPUs : pkt[c].pc = "idle"
  <2>1. CASE op.pc # "idle"
    BY Zenon, <2>1 DEF PmtuInv, Quiet
  <2>2. CASE op.pc = "idle"
    <3>1. PICK n : OpMayStart(n)
      BY Zenon, <2>2 DEF LoaderNext, BeginMigration, SwitchAFTR, Cutover, CompleteMigration,
         AbortMigration, GCFlowAffinity, Claim, PutHead, PutTail, Flip, Retire, Forget,
         MapFails, Walk, Delete, GCReturn
    <3>2. \A c \in CPUs : ~(pkt[c].age < 0)
      BY SMTT(30), PacketTypes
    <3> QED BY Zenon, <3>1, <3>2 DEF OpMayStart
  <2> QED BY Zenon, <2>1, <2>2
<1>2. pkt' = pkt \/ Return
  BY Zenon DEF LoaderNext, BeginMigration, SwitchAFTR, Cutover, CompleteMigration,
         AbortMigration, GCFlowAffinity, Claim, PutHead, PutTail, Flip, Retire,
         Forget, MapFails, Walk, Delete, GCReturn
<1>3. \A c \in CPUs : pkt'[c].pc = "idle"
  BY Zenon, <1>1, <1>2 DEF Return
<1> QED BY Zenon, <1>1, <1>3 DEF Quiet

\* A slot that is being written has no reading.
LEMMA WrittenLoader ==
    ASSUME TypeOK, SlotInv, PmtuInv, LoaderNext
    PROVE  (op.pc \in {"head", "tail", "flip"} /\ op.name # "cutover"
              => pmtu[op.slot] = NoEndpoint)'
<1> USE TypeParts
<1>w. op \in Operations /\ op.slot \in Slots
  BY Zenon DEF Operations
<1>1. CASE PutHead \/ PutTail
  <2>1. /\ pmtu' = pmtu /\ op'.slot = op.slot /\ op'.name = op.name
        /\ op'.pc \in {"tail", "flip"} => op.pc \in {"head", "tail"}
        /\ op'.pc # "head"
    BY <1>1, <1>w DEF PutHead, PutTail, Operations
  <2> QED BY Zenon, <2>1 DEF PmtuInv
<1>2. CASE Claim
  <2>1. CASE SlotIsLive(op.slot)
    BY <1>2, <2>1 DEF Claim, Return, Idle
  <2>2. CASE ~SlotIsLive(op.slot)
    BY <1>2, <2>2, <1>w DEF Claim, Operations
  <2> QED BY Zenon, <2>1, <2>2
<1>s. ASSUME NEW e \in Endpoints, SwitchAFTR(e) PROVE op'.pc \in {"claim", "retire"}
  BY Zenon, <1>s DEF SwitchAFTR, SwitchWrite, Call, Idle
<1>b. ASSUME NEW e \in Endpoints, BeginMigration(e) PROVE op'.pc = "claim"
  BY Zenon, <1>b DEF BeginMigration, Call, Idle
<1>c. Cutover => op'.name = "cutover"
  BY Zenon DEF Cutover, Call, Idle
<1>3. CASE CompleteMigration \/ AbortMigration \/ GCFlowAffinity
  <2> HIDE TypeParts
  <2>1. CompleteMigration => op'.pc = "retire"
    BY Zenon DEF CompleteMigration, Call, Idle
  <2>2. AbortMigration => op'.pc = "retire"
    BY Zenon DEF AbortMigration, Call, Idle
  <2>3. GCFlowAffinity => op'.pc = "walk"
    <3>1. GCFlowAffinity => op' = [Call("gc", "walk") EXCEPT !.word = ctrl, !.left = Flows]
      BY Zenon DEF GCFlowAffinity
    <3>2. Call("gc", "walk") \in Operations /\ Call("gc", "walk").pc = "walk"
      BY CallType DEF OpNames, OpSteps, Call, Idle
    <3> QED BY Zenon, <3>1, <3>2 DEF Operations
  <2>4. op'.pc \notin {"head", "tail", "flip"}
    BY Zenon, <1>3, <2>1, <2>2, <2>3
  <2> QED BY Zenon, <2>4
<1>4. CASE Flip \/ MapFails \/ GCReturn
  BY <1>4 DEF Flip, MapFails, GCReturn, Return, Idle
<1>5. CASE Retire \/ Forget
  <2> HIDE TypeParts
  <2>1. Retire => op'.pc = "zhead"
    BY Zenon, <1>w DEF Retire, Operations
  <2>2. Forget /\ op.name = "switch" => op'.pc = "claim"
    BY Zenon, <1>w DEF Forget, SwitchWrite, Operations
  <2>3. Forget /\ op.name # "switch" => op'.pc = "idle"
    BY DEF Forget, Return, Idle
  <2>4. op'.pc \notin {"head", "tail", "flip"}
    BY Zenon, <1>5, <2>1, <2>2, <2>3
  <2> QED BY <2>4
<1>6. CASE \E f \in Flows : Walk(f) \/ Delete(f)
  <2>1. op'.pc \in {"walk", "delete"}
    BY ZenonT(30), <1>6, <1>w DEF Walk, Delete, Operations
  <2> QED BY Zenon, <2>1
<1> QED BY <1>1, <1>2, <1>s, <1>b, <1>c, <1>3, <1>4, <1>5, <1>6 DEF LoaderNext

\* A packet keeps the readings: it learns one for the pair its slot holds.
LEMMA PmtuPacket ==
    ASSUME MaxOverlap = 0, TypeOK, PmtuInv, PacketNext
    PROVE  PmtuInv'
<1> USE TypeParts
<1>u. UNCHANGED <<ctrl, nh, op>>
  BY Zenon, OthersFrame
<1>c. PICK c \in CPUs :
        \/ \E f \in Flows : Encap(c, f) \/ Decap(c, f)
        \/ \E e \in Endpoints : PacketTooBig(c, e)
        \/ Lookup(c) \/ Touch(c) \/ Resolve(c) \/ Send(c) \/ Learn(c)
  BY Zenon DEF PacketNext
<1>i. op.pc = "idle"
  <2>1. CASE \/ \E f \in Flows : Encap(c, f) \/ Decap(c, f)
             \/ \E e \in Endpoints : PacketTooBig(c, e)
    BY Zenon, <2>1 DEF Encap, Decap, PacketTooBig, PktMayStart
  <2>2. CASE Lookup(c) \/ Touch(c) \/ Resolve(c) \/ Send(c) \/ Learn(c)
    <3>1. pkt[c].pc # "idle"
      BY Zenon, <2>2 DEF Lookup, Touch, Resolve, Send, Learn
    <3> QED BY Zenon, <3>1 DEF PmtuInv, Quiet
  <2> QED BY Zenon, <1>c, <2>1, <2>2
<1>q. pkt[c] \in Packets /\ LearnGood(c)
  BY Zenon DEF PmtuInv
<1>1. /\ pkt' = [pkt EXCEPT ![c] = pkt'[c]]
      /\ pkt'[c].pc = "learn" =>
           pkt'[c].ep \in Endpoints /\ nh[pkt'[c].slot] = Whole(pkt'[c].ep)
  <2>1. ASSUME NEW f \in Flows, Encap(c, f) PROVE <1>1!:
    BY Zenon, <2>1 DEF Encap, NoPkt
  <2>2. ASSUME NEW f \in Flows, Decap(c, f) PROVE <1>1!:
    BY Zenon, <2>2 DEF Decap, NoPkt
  <2>3. ASSUME NEW e \in Endpoints, PacketTooBig(c, e) PROVE <1>1!:
    <3>1. FindLocalSlot(e) \in LocalSlots(e)
      BY Zenon, <2>3, FindLocalSlotType DEF PacketTooBig
    <3>2. /\ pkt' = [pkt EXCEPT ![c] = pkt'[c]]
          /\ pkt'[c].slot = FindLocalSlot(e) /\ pkt'[c].ep = e
      BY Zenon, <2>3 DEF PacketTooBig, NoPkt
    <3> QED BY Zenon, <3>1, <3>2 DEF LocalSlots
  <2>4. CASE Lookup(c)
    BY Zenon, <2>4, <1>q DEF Lookup, Packets
  <2>5. CASE Touch(c)
    BY Zenon, <2>5, <1>q DEF Touch, NoPkt, Packets
  <2>6. CASE Resolve(c)
    BY <2>6, <1>q DEF Resolve, NoPkt, Packets
  <2>7. CASE Send(c) \/ Learn(c)
    BY <2>7 DEF Send, Learn, NoPkt
  <2> QED BY <1>c, <2>1, <2>2, <2>3, <2>4, <2>5, <2>6, <2>7
<1>2. \A b \in CPUs : LearnGood(b)'
  BY Zenon, <1>1, <1>u DEF PmtuInv, LearnGood
<1>3. \A s \in Slots : ReadingGood(s)'
  <2>1. CASE Learn(c)
    <3>1. PICK e \in {pkt[c].ep, pmtu[pkt[c].slot]} \ {NoEndpoint} :
            pmtu' = [pmtu EXCEPT ![pkt[c].slot] = e]
      BY Zenon, <2>1 DEF Learn
    <3>2. pkt[c].slot \in Slots /\ nh[pkt[c].slot] = Whole(pkt[c].ep)
      BY Zenon, <2>1, <1>q DEF Learn, Packets, LearnGood
    <3>3. pmtu[pkt[c].slot] # NoEndpoint => nh[pkt[c].slot] = Whole(pmtu[pkt[c].slot])
      BY Zenon, <1>i, <3>2 DEF PmtuInv, ReadingGood
    <3>4. nh[pkt[c].slot] = Whole(e)
      BY Zenon, <3>1, <3>2, <3>3
    <3> QED BY Zenon, <3>1, <3>2, <3>4, <1>i, <1>u DEF PmtuInv, ReadingGood
  <2>2. CASE ~Learn(c)
    <3>1. pmtu' = pmtu
      BY Zenon, <1>c, <2>2 DEF Encap, Decap, PacketTooBig, Lookup, Touch, Resolve, Send, swvars
    <3> QED BY Zenon, <3>1, <1>u DEF PmtuInv, ReadingGood
  <2> QED BY Zenon, <2>1, <2>2
<1> QED BY Zenon, <1>2, <1>3, <1>i, <1>u DEF PmtuInv, Quiet

\* Time takes readings away and adds none.
LEMMA PmtuTime ==
    ASSUME TypeOK, PmtuInv, TimeNext
    PROVE  PmtuInv'
<1>1. UNCHANGED <<ctrl, nh, op, pkt>>
  BY Zenon DEF TimeNext, FlowFallsIdle, PmtuExpires, swvars
<1>2. \A s \in Slots : pmtu'[s] \in {pmtu[s], NoEndpoint}
  BY Zenon DEF TimeNext, FlowFallsIdle, PmtuExpires, swvars, TypeOK
<1>3. op.slot \in Slots
  BY Zenon, TypeParts DEF Operations
<1> QED BY Zenon, <1>1, <1>2, <1>3 DEF PmtuInv, Quiet, LearnGood, ReadingGood

\* Every step of a run in which no map update fails and no packet overlaps an
\* operation keeps PmtuInv.
LEMMA PmtuStep ==
    ASSUME MaxOverlap = 0, "fail" \notin Ops, TypeOK, SlotInv, PmtuInv, [Next]_vars
    PROVE  PmtuInv'
<1>1. CASE LoaderNext
  <2>1. \A s \in Slots : ReadingGood(s)'
    BY Zenon, <1>1, ReadingLoader
  <2>2. Quiet' /\ \A c \in CPUs : LearnGood(c)'
    BY Zenon, <1>1, QuietLoader DEF LearnGood
  <2> QED BY Zenon, <1>1, <2>1, <2>2, WrittenLoader DEF PmtuInv
<1>2. CASE PacketNext
  BY Zenon, <1>2, PmtuPacket
<1>3. CASE TimeNext
  BY Zenon, <1>3, PmtuTime
<1>4. CASE UNCHANGED vars
  BY Zenon, <1>4 DEF PmtuInv, Quiet, LearnGood, ReadingGood, vars
<1> QED BY Zenon, <1>1, <1>2, <1>3, <1>4 DEF Next

\* Between operations a learned path MTU belongs to the pair in its slot, for
\* any number of CPUs, flows and endpoints and any sequence of calls, when the
\* map updates succeed and no packet overlaps an operation: clearTunnelPMTU in
\* writeNextHop and clearNextHop leaves no reading behind for another pair.
THEOREM ReadingsBelong ==
    ASSUME MaxOverlap = 0, "fail" \notin Ops
    PROVE  Spec => []PmtuBelongs
<1>1. Init => SlotInv /\ PmtuInv
  <2>1. Init => op.pc = "idle"
    BY SMTT(30) DEF Init, Idle
  <2>2. Init => \A c \in CPUs : pkt[c].pc = "idle"
    BY DEF Init, NoPkt
  <2>3. Init => \A s \in Slots : pmtu[s] = NoEndpoint
    BY Zenon DEF Init
  <2>4. Init => PmtuInv
    BY Zenon, <2>1, <2>2, <2>3 DEF PmtuInv, Quiet, LearnGood, ReadingGood
  <2> QED BY Zenon, <2>4, SlotInit
<1>2. TypeOK /\ SlotInv /\ PmtuInv /\ [Next]_vars => SlotInv' /\ PmtuInv'
  BY Zenon, SlotStep, PmtuStep
<1>3. PmtuInv => PmtuBelongs
  BY Zenon DEF PmtuInv, ReadingGood, PmtuBelongs
<1> QED BY <1>1, <1>2, <1>3, TypeCorrect, PTL DEF Spec

-----------------------------------------------------------------------------
(* What a packet knows of the control word it loaded.                      *)

Recording(c) == pkt[c].pc \in {"lookup", "touch"}
Flying(c) == pkt[c].kind \in {"encap", "decap"} /\ pkt[c].pc # "idle"

\* An operation that has left the migration behind and goes on.
Retired ==
    /\ ctrl.state = "STEADY" /\ op.pc # "idle"
    /\ op.name = "switch" \/ op.pc \in {"zhead", "ztail", "forget"}

\* A packet that feeds the flow table does so under the epoch in force; one
\* that no operation has returned under still has the state in force, but for
\* an operation that has just left the migration.
SnapGood(c) ==
    /\ pkt[c].pc # "idle" /\ pkt[c].age = 1 => op.pc = "idle"
    /\ Recording(c) => /\ Flying(c)
                       /\ pkt[c].snap.state # "STEADY"
                       /\ pkt[c].snap.epoch = ctrl.epoch
    /\ Flying(c) /\ pkt[c].age = 0 => pkt[c].snap.state = ctrl.state \/ Retired
    /\ Flying(c) /\ pkt[c].snap.state = "DRAINING" =>
         /\ ctrl.state # "PRIMING"
         /\ pkt[c].snap.active # pkt[c].snap.old
\* The word an operation is about to write.
WordInv ==
    /\ op.name = "begin" =>
         /\ op.pc \in {"claim", "head", "tail", "flip"}
         /\ op.word.epoch = (ctrl.epoch + 1) % EpochMod
         /\ ungced < MaxUngced
    /\ op.pc \in {"claim", "head", "tail", "flip", "retire"} /\ op.name # "begin" =>
         op.word.epoch = ctrl.epoch
SnapInv ==
    /\ \A c \in CPUs : SnapGood(c)
    /\ WordInv

\* While an operation runs, the packets in flight have the state in force.
LEMMA BusySnap ==
    ASSUME TypeOK, SnapInv, op.pc # "idle", ~Retired, NEW c \in CPUs, Flying(c)
    PROVE  pkt[c].snap.state = ctrl.state
<1>1. SnapGood(c) /\ pkt[c].pc # "idle" /\ pkt[c].age \in {0, 1}
  BY Zenon, PacketTypes DEF SnapInv, Flying
<1> QED BY Zenon, <1>1 DEF SnapGood

\* BeginMigration runs in STEADY, when no packet feeds the flow table.
LEMMA BeginSnap ==
    ASSUME TypeOK, SlotInv, SnapInv, op.name = "begin", NEW c \in CPUs
    PROVE  ~Recording(c) /\ (Flying(c) => pkt[c].snap.state = "STEADY")
<1>1. op.pc \in {"claim", "head", "tail", "flip"} /\ ctrl.state = "STEADY"
  BY Zenon DEF SnapInv, WordInv, SlotInv, Writing
<1>2. op.pc # "idle" /\ ~Retired
  BY Zenon, <1>1 DEF Retired
<1>3. Flying(c) => pkt[c].snap.state = "STEADY"
  BY Zenon, <1>1, <1>2, BusySnap
<1>4. SnapGood(c)
  BY Zenon DEF SnapInv
<1> QED BY Zenon, <1>3, <1>4 DEF SnapGood

\* An operation starts, when no packet has seen another one return.
LEMMA SnapStart ==
    ASSUME TypeOK, SnapInv, NEW n, OpMayStart(n), UNCHANGED <<ctrl, pkt>>, NEW c \in CPUs
    PROVE  SnapGood(c)'
<1>1. SnapGood(c) /\ op.pc = "idle"
  BY Zenon DEF SnapInv, OpMayStart
<1>2. pkt[c].pc # "idle" => pkt[c].age # 1
  <2>1. pkt[c].pc # "idle" => pkt[c].age < MaxOverlap
    BY Zenon DEF OpMayStart
  <2> QED BY <2>1, ConstantsAssumption
<1>3. Recording(c)' = Recording(c) /\ Flying(c)' = Flying(c)
  BY Zenon DEF Recording, Flying
<1> QED BY Zenon, <1>1, <1>2, <1>3 DEF SnapGood, Retired

\* A step of an operation that goes on under the control word it found.
LEMMA SnapGoesOn ==
    ASSUME TypeOK, SnapInv, op.pc # "idle", UNCHANGED <<ctrl, pkt>>, Retired => Retired',
           NEW c \in CPUs
    PROVE  SnapGood(c)'
<1>1. SnapGood(c) /\ (pkt[c].pc # "idle" => pkt[c].age # 1)
  BY Zenon DEF SnapInv, SnapGood
<1>2. Recording(c)' = Recording(c) /\ Flying(c)' = Flying(c)
  BY Zenon DEF Recording, Flying
<1> QED BY Zenon, <1>1, <1>2 DEF SnapGood

\* The step that leaves a migration.
LEMMA SnapRetire ==
    ASSUME TypeOK, SnapInv, op.pc # "idle", pkt' = pkt, ctrl'.epoch = ctrl.epoch,
           ctrl'.state = "STEADY", Retired', NEW c \in CPUs
    PROVE  SnapGood(c)'
<1>1. SnapGood(c) /\ (pkt[c].pc # "idle" => pkt[c].age # 1)
  BY Zenon DEF SnapInv, SnapGood
<1>2. Recording(c)' = Recording(c) /\ Flying(c)' = Flying(c)
  BY Zenon DEF Recording, Flying
<1> QED BY Zenon, <1>1, <1>2 DEF SnapGood

\* An operation returns, perhaps with the flip.
LEMMA SnapReturn ==
    ASSUME TypeOK, SnapInv, op.pc # "idle", Return, NEW c \in CPUs,
           Recording(c) => ctrl'.epoch = ctrl.epoch,
           Flying(c) /\ pkt[c].snap.state = "DRAINING" => ctrl'.state # "PRIMING"
    PROVE  SnapGood(c)'
<1>1. SnapGood(c) /\ pkt[c] \in Packets /\ op'.pc = "idle"
  BY Zenon, PacketTypes DEF SnapInv, Return, Idle
<1>2. CASE pkt[c].pc = "idle"
  <2>1. pkt'[c].pc = "idle"
    BY Zenon, <1>2 DEF Return
  <2> QED BY Zenon, <2>1 DEF SnapGood, Recording, Flying
<1>3. CASE pkt[c].pc # "idle"
  <2>1. pkt'[c] = [pkt[c] EXCEPT !.age = 1]
    BY Zenon, <1>3 DEF Return
  <2>2. /\ pkt'[c].age = 1 /\ pkt'[c].pc = pkt[c].pc /\ pkt'[c].kind = pkt[c].kind
        /\ pkt'[c].snap = pkt[c].snap
    BY Zenon, <1>1, <2>1 DEF Packets
  <2>3. Recording(c)' = Recording(c) /\ Flying(c)' = Flying(c)
    BY Zenon, <2>2 DEF Recording, Flying
  <2> QED BY SMTT(30), <1>1, <2>2, <2>3 DEF SnapGood
<1> QED BY Zenon, <1>2, <1>3

\* Every step of a Loader operation keeps what the packets know.
LEMMA SnapLoader ==
    ASSUME TypeOK, SlotInv, SnapInv, LoaderNext, NEW c \in CPUs
    PROVE  SnapGood(c)'
<1>w. op \in Operations
  BY Zenon, TypeParts
<1>1. CASE \/ \E e \in Endpoints : BeginMigration(e) \/ SwitchAFTR(e)
           \/ Cutover \/ CompleteMigration \/ AbortMigration \/ GCFlowAffinity
  <2>1. (\E n : OpMayStart(n)) /\ UNCHANGED <<ctrl, pkt>>
    BY Zenon, <1>1 DEF BeginMigration, SwitchAFTR, Cutover, CompleteMigration, AbortMigration,
                GCFlowAffinity, swvars
  <2> QED BY Zenon, <2>1, SnapStart
<1>2. CASE PutHead
  <2>1. /\ UNCHANGED <<ctrl, pkt>> /\ op.pc \in {"head", "zhead"} /\ op'.name = op.name
        /\ op'.pc = IF op.pc = "head" THEN "tail" ELSE "ztail"
    BY Zenon, <1>2, <1>w DEF PutHead, Operations
  <2>2. Retired => Retired'
    BY Zenon, <2>1 DEF Retired
  <2> QED BY Zenon, <2>1, <2>2, SnapGoesOn
<1>3. CASE PutTail
  <2>1. /\ UNCHANGED <<ctrl, pkt>> /\ op.pc \in {"tail", "ztail"} /\ op'.name = op.name
        /\ op'.pc = IF op.pc = "tail" THEN "flip" ELSE "forget"
    BY Zenon, <1>3, <1>w DEF PutTail, Operations
  <2>2. Retired => Retired'
    BY Zenon, <2>1 DEF Retired
  <2> QED BY Zenon, <2>1, <2>2, SnapGoesOn
<1>4. CASE Claim
  <2>1. CASE SlotIsLive(op.slot)
    <3>1. Return /\ ctrl' = ctrl /\ op.pc # "idle" /\ SnapGood(c)
      BY Zenon, <1>4, <2>1 DEF Claim, SnapInv
    <3> QED BY Zenon, <3>1, SnapReturn DEF SnapGood
  <2>2. CASE ~SlotIsLive(op.slot)
    <3>1. UNCHANGED <<ctrl, pkt>> /\ op.pc = "claim" /\ op'.name = op.name /\ op'.pc = "head"
      BY Zenon, <1>4, <2>2, <1>w DEF Claim, Operations
    <3>2. Retired => Retired'
      BY Zenon, <3>1 DEF Retired
    <3> QED BY Zenon, <3>1, <3>2, SnapGoesOn
  <2> QED BY Zenon, <2>1, <2>2
<1>5. CASE Flip
  <2>1. op.pc = "flip" /\ Return /\ ctrl' = op.word
    BY Zenon, <1>5 DEF Flip
  <2>2. CASE op.name = "begin"
    BY SMTT(30), <2>1, <2>2, BeginSnap, SnapReturn
  <2>3. CASE op.name # "begin"
    <3>1. op.word.state # "PRIMING" /\ op.word.epoch = ctrl.epoch
      BY Zenon, <2>1, <2>3 DEF SnapInv, WordInv, SlotInv, Writing, CuttingOver
    <3> QED BY Zenon, <2>1, <3>1, SnapReturn
  <2> QED BY Zenon, <2>2, <2>3
<1>6. CASE Retire
  <2>1. /\ op.pc = "retire" /\ pkt' = pkt /\ ctrl' = op.word /\ op.word.state = "STEADY"
        /\ op.name # "begin" /\ op'.pc = "zhead"
    BY Zenon, <1>6, <1>w DEF Retire, SlotInv, Ending, Operations
  <2>2. op.word.epoch = ctrl.epoch
    BY Zenon, <2>1 DEF SnapInv, WordInv
  <2>3. Retired'
    BY Zenon, <2>1 DEF Retired
  <2> QED BY <2>1, <2>2, <2>3, SnapRetire
<1>7. CASE Forget
  <2>1. CASE op.name = "switch"
    <3>1. UNCHANGED <<ctrl, pkt>> /\ op.pc = "forget" /\ op'.name = "switch" /\ op'.pc = "claim"
      BY Zenon, <1>7, <2>1, <1>w DEF Forget, SwitchWrite, Operations
    <3>2. Retired => Retired'
      BY <3>1 DEF Retired
    <3> QED BY Zenon, <3>1, <3>2, SnapGoesOn
  <2>2. CASE op.name # "switch"
    <3>1. Return /\ ctrl' = ctrl /\ op.pc # "idle" /\ SnapGood(c)
      BY <1>7, <2>2 DEF Forget, SnapInv
    <3> QED BY <3>1, SnapReturn DEF SnapGood
  <2> QED BY Zenon, <2>1, <2>2
<1>8. CASE MapFails \/ GCReturn
  <2>1. Return /\ ctrl' = ctrl /\ op.pc # "idle" /\ SnapGood(c)
    BY Zenon, <1>8 DEF MapFails, GCReturn, swvars, SnapInv
  <2> QED BY <2>1, SnapReturn DEF SnapGood
<1>9. CASE \E f \in Flows : Walk(f) \/ Delete(f)
  <2>1. /\ UNCHANGED <<ctrl, pkt>> /\ op.pc \in {"walk", "delete"} /\ op'.name = op.name
        /\ op'.pc \in {"walk", "delete"}
    BY ZenonT(30), <1>9, <1>w DEF Walk, Delete, swvars, Operations
  <2>2. Retired => Retired'
    BY Zenon, <2>1 DEF Retired
  <2> QED BY Zenon, <2>1, <2>2, SnapGoesOn
<1> QED BY <1>1, <1>2, <1>3, <1>4, <1>5, <1>6, <1>7, <1>8, <1>9 DEF LoaderNext

\* Every step of a Loader operation keeps the word about to be written.
LEMMA WordLoader ==
    ASSUME TypeOK, SlotInv, SnapInv, LoaderNext
    PROVE  WordInv'
<1>w. op \in Operations /\ WordInv
  BY Zenon, TypeParts DEF SnapInv
<1>1. ASSUME NEW e \in Endpoints, BeginMigration(e) PROVE WordInv'
  <2>1. /\ op' = [Call("begin", "claim") EXCEPT !.slot = Other(ctrl.active),
                                                !.ep = e, !.word = PrimingWord]
        /\ UNCHANGED <<ctrl, ungced>> /\ ungced < MaxUngced
    BY Zenon, <1>1 DEF BeginMigration, swvars
  <2>2. op'.pc = "claim" /\ op'.name = "begin" /\ op'.word = PrimingWord
    BY Zenon, <2>1 DEF Call, Idle
  <2> QED BY <2>1, <2>2 DEF WordInv, PrimingWord
<1>2. ASSUME NEW e \in Endpoints, SwitchAFTR(e) PROVE WordInv'
  <2>1. /\ ctrl' = ctrl /\ op'.name = "switch"
        /\ op'.word \in {SteadyWord(ctrl.active), SteadyWord(Other(ctrl.active))}
    BY Zenon, <1>2 DEF SwitchAFTR, SwitchWrite, Call, Idle, swvars
  <2>2. op'.word.epoch = ctrl.epoch
    BY <2>1 DEF SteadyWord
  <2> QED BY Zenon, <2>1, <2>2 DEF WordInv
<1>3. CASE Cutover
  <2>1. ctrl' = ctrl /\ op'.name = "cutover" /\ op'.word = DrainingWord
    BY Zenon, <1>3 DEF Cutover, Call, Idle, swvars
  <2> QED BY <2>1 DEF WordInv, DrainingWord
<1>4. CASE CompleteMigration
  <2>1. ctrl' = ctrl /\ op'.name = "complete" /\ op'.word = SteadyWord(ctrl.active)
    BY Zenon, <1>4 DEF CompleteMigration, Call, Idle, swvars
  <2> QED BY <2>1 DEF WordInv, SteadyWord
<1>5. CASE AbortMigration
  <2>1. ctrl' = ctrl /\ op'.name = "abort" /\ op'.word = SteadyWord(ctrl.active)
    BY Zenon, <1>5 DEF AbortMigration, Call, Idle, swvars
  <2> QED BY <2>1 DEF WordInv, SteadyWord
<1>6. CASE GCFlowAffinity
  <2>1. op' = [Call("gc", "walk") EXCEPT !.word = ctrl, !.left = Flows]
    BY Zenon, <1>6 DEF GCFlowAffinity
  <2>2. op'.name = "gc" /\ op'.pc = "walk"
    BY Zenon, <2>1 DEF Call, Idle
  <2> QED BY Zenon, <2>2 DEF WordInv
<1>7. ASSUME op'.name = op.name, op'.word = op.word, UNCHANGED <<ctrl, ungced>>,
             op.pc \in {"claim", "head", "tail", "zhead", "ztail"},
             \/ op.pc \in {"claim", "head", "tail"} /\ op'.pc \in {"head", "tail", "flip"}
             \/ op.pc \in {"zhead", "ztail"} /\ op'.pc \in {"ztail", "forget"}
      PROVE  WordInv'
  BY Zenon, <1>7, <1>w DEF WordInv
<1>8. ASSUME op' = Idle PROVE WordInv'
  BY Zenon, <1>8 DEF WordInv, Idle
<1>9. CASE PutHead \/ PutTail
  <2>1. /\ op'.name = op.name /\ op'.word = op.word /\ UNCHANGED <<ctrl, ungced>>
        /\ \/ op.pc \in {"head", "tail"} /\ op'.pc \in {"tail", "flip"}
           \/ op.pc \in {"zhead", "ztail"} /\ op'.pc \in {"ztail", "forget"}
    BY <1>9, <1>w DEF PutHead, PutTail, Operations, affvars
  <2> QED BY Zenon, <2>1, <1>7
<1>10. CASE Claim
  <2>1. CASE SlotIsLive(op.slot)
    BY Zenon, <1>10, <2>1, <1>8 DEF Claim, Return
  <2>2. CASE ~SlotIsLive(op.slot)
    <3>1. /\ op'.name = op.name /\ op'.word = op.word /\ UNCHANGED <<ctrl, ungced>>
          /\ op.pc = "claim" /\ op'.pc = "head"
      BY <1>10, <2>2, <1>w DEF Claim, Operations, affvars
    <3> QED BY Zenon, <3>1, <1>7
  <2> QED BY Zenon, <2>1, <2>2
<1>11. CASE Flip \/ MapFails \/ GCReturn
  BY Zenon, <1>11, <1>8 DEF Flip, MapFails, GCReturn, Return
<1>12. CASE Retire
  <2>1. op'.name = op.name /\ op'.pc = "zhead" /\ op.name # "begin"
    BY Zenon, <1>12, <1>w DEF Retire, Operations, SlotInv, Ending
  <2> QED BY Zenon, <2>1 DEF WordInv
<1>13. CASE Forget
  <2>1. CASE op.name = "switch"
    <3>1. op' = SwitchWrite(op, op.ep) /\ ctrl' = ctrl
      BY Zenon, <1>13, <2>1 DEF Forget
    <3>2. op'.name = "switch" /\ op'.word = SteadyWord(Other(ctrl.active))
      BY Zenon, <2>1, <3>1, <1>w DEF SwitchWrite, Operations
    <3> QED BY <3>1, <3>2 DEF WordInv, SteadyWord
  <2>2. CASE op.name # "switch"
    BY Zenon, <1>13, <2>2, <1>8 DEF Forget, Return
  <2> QED BY Zenon, <2>1, <2>2
<1>14. CASE \E f \in Flows : Walk(f) \/ Delete(f)
  <2>1. op'.name = op.name /\ op'.pc \in {"walk", "delete"} /\ op.pc \in {"walk", "delete"}
    BY ZenonT(30), <1>14, <1>w DEF Walk, Delete, Operations
  <2> QED BY Zenon, <2>1, <1>w DEF WordInv
<1> QED BY <1>1, <1>2, <1>3, <1>4, <1>5, <1>6, <1>9, <1>10, <1>11, <1>12, <1>13, <1>14
        DEF LoaderNext

\* What a step of a packet program does to its own packet.
LEMMA SnapOwn ==
    ASSUME TypeOK, SlotInv, SnapInv, NEW c \in CPUs,
           \/ \E f \in Flows : Encap(c, f) \/ Decap(c, f)
           \/ \E e \in Endpoints : PacketTooBig(c, e)
           \/ Lookup(c) \/ Touch(c) \/ Resolve(c) \/ Send(c) \/ Learn(c)
    PROVE  pkt' = [pkt EXCEPT ![c] = pkt'[c]] /\ SnapGood(c)'
<1>u. UNCHANGED <<ctrl, nh, op>> /\ pkt \in [CPUs -> Packets]
  BY Zenon, OthersFrame, TypeParts DEF PacketNext
<1>g. SnapGood(c) /\ pkt[c] \in Packets /\ Retired' = Retired
  BY Zenon, <1>u, PacketTypes DEF SnapInv, Retired
<1>n. ASSUME pkt' = [pkt EXCEPT ![c] = NoPkt]
      PROVE  pkt' = [pkt EXCEPT ![c] = pkt'[c]] /\ SnapGood(c)'
  <2>1. pkt'[c].pc = "idle"
    BY Zenon, <1>n, <1>u DEF NoPkt
  <2>2. ~Recording(c)' /\ ~Flying(c)'
    BY Zenon, <2>1 DEF Recording, Flying
  <2>3. pkt' = [pkt EXCEPT ![c] = pkt'[c]]
    BY Zenon, <1>n, <1>u
  <2> QED BY Zenon, <2>1, <2>2, <2>3 DEF SnapGood
<1>b. ASSUME pkt'[c].age = 0, pkt'[c].snap = ctrl, pkt'[c].pc # "idle",
             pkt'[c].kind \in {"encap", "decap"},
             pkt'[c].pc \in {"lookup", "touch"} => ctrl.state # "STEADY"
      PROVE  SnapGood(c)'
  <2>1. ctrl.state = "DRAINING" => ctrl.active # ctrl.old
    BY Zenon, OtherType DEF SlotInv, TypeOK, Words
  <2>2. Flying(c)' /\ pkt'[c].age # 1
    BY SMTT(30), <1>b DEF Flying
  <2>3. Recording(c)' => pkt'[c].snap.state # "STEADY"
    BY Zenon, <1>b DEF Recording
  <2>4. pkt'[c].snap.epoch = ctrl'.epoch /\ pkt'[c].snap.state = ctrl'.state
    BY Zenon, <1>b, <1>u
  <2>5. pkt'[c].snap.state = "DRAINING" =>
          ctrl'.state # "PRIMING" /\ pkt'[c].snap.active # pkt'[c].snap.old
    BY Zenon, <1>b, <1>u, <2>1
  <2> QED BY Zenon, <2>2, <2>3, <2>4, <2>5 DEF SnapGood
<1>1. ASSUME NEW f \in Flows, Encap(c, f)
      PROVE  pkt' = [pkt EXCEPT ![c] = pkt'[c]] /\ SnapGood(c)'
  <2>1. /\ pkt' = [pkt EXCEPT ![c] = pkt'[c]] /\ pkt'[c].age = 0 /\ pkt'[c].snap = ctrl
        /\ pkt'[c].kind = "encap"
        /\ pkt'[c].pc = IF ctrl.state = "STEADY" THEN "resolve" ELSE "lookup"
    BY Zenon, <1>1, <1>u DEF Encap, NoPkt
  <2> QED BY Zenon, <2>1, <1>b
<1>2. ASSUME NEW f \in Flows, Decap(c, f)
      PROVE  pkt' = [pkt EXCEPT ![c] = pkt'[c]] /\ SnapGood(c)'
  <2>1. /\ pkt' = [pkt EXCEPT ![c] = pkt'[c]] /\ pkt'[c].age = 0 /\ pkt'[c].snap = ctrl
        /\ pkt'[c].kind = "decap" /\ pkt'[c].pc = "lookup" /\ ctrl.state # "STEADY"
    BY Zenon, <1>2, <1>u DEF Decap, NoPkt
  <2> QED BY Zenon, <2>1, <1>b
<1>3. ASSUME NEW e \in Endpoints, PacketTooBig(c, e)
      PROVE  pkt' = [pkt EXCEPT ![c] = pkt'[c]] /\ SnapGood(c)'
  <2>1. /\ pkt' = [pkt EXCEPT ![c] = pkt'[c]] /\ pkt'[c].age = 0
        /\ pkt'[c].kind = "ptb" /\ pkt'[c].pc = "learn"
    BY Zenon, <1>3, <1>u DEF PacketTooBig, NoPkt
  <2>2. ~Recording(c)' /\ ~Flying(c)' /\ pkt'[c].age # 1
    BY SMTT(30), <2>1 DEF Recording, Flying
  <2> QED BY Zenon, <2>1, <2>2 DEF SnapGood
<1>4. ASSUME /\ pkt' = [pkt EXCEPT ![c] = pkt'[c]] /\ pkt'[c].age = pkt[c].age
             /\ pkt'[c].snap = pkt[c].snap /\ pkt'[c].kind = pkt[c].kind
             /\ pkt[c].pc # "idle" /\ pkt'[c].pc # "idle"
             /\ pkt'[c].pc \in {"lookup", "touch"} => pkt[c].pc \in {"lookup", "touch"}
      PROVE  SnapGood(c)'
  <2>1. (Recording(c)' => Recording(c)) /\ Flying(c)' = Flying(c)
    BY Zenon, <1>4 DEF Recording, Flying
  <2> QED BY Zenon, <1>4, <1>u, <1>g, <2>1 DEF SnapGood
<1>5. CASE Lookup(c)
  <2>1. /\ pkt' = [pkt EXCEPT ![c] = pkt'[c]] /\ pkt'[c].age = pkt[c].age
        /\ pkt'[c].snap = pkt[c].snap /\ pkt'[c].kind = pkt[c].kind
        /\ pkt[c].pc = "lookup" /\ pkt'[c].pc = "touch"
    BY ZenonT(30), <1>5, <1>g, <1>u DEF Lookup, Packets
  <2> QED BY Zenon, <2>1, <1>4
<1>6. CASE Touch(c)
  <2>1. CASE pkt[c].kind = "decap"
    BY Zenon, <1>6, <2>1, <1>n DEF Touch
  <2>2. CASE pkt[c].kind # "decap"
    <3>1. /\ pkt' = [pkt EXCEPT ![c] = pkt'[c]] /\ pkt'[c].age = pkt[c].age
          /\ pkt'[c].snap = pkt[c].snap /\ pkt'[c].kind = pkt[c].kind
          /\ pkt[c].pc = "touch" /\ pkt'[c].pc = "resolve"
      BY SMTT(30), <1>6, <2>2, <1>g, <1>u DEF Touch, Packets
    <3> QED BY Zenon, <3>1, <1>4
  <2> QED BY <2>1, <2>2
<1>7. CASE Resolve(c)
  <2>1. CASE ~nh[pkt[c].slot].valid
    BY Zenon, <1>7, <2>1, <1>n DEF Resolve
  <2>2. CASE nh[pkt[c].slot].valid
    <3>1. /\ pkt' = [pkt EXCEPT ![c] = pkt'[c]] /\ pkt'[c].age = pkt[c].age
          /\ pkt'[c].snap = pkt[c].snap /\ pkt'[c].kind = pkt[c].kind
          /\ pkt[c].pc = "resolve" /\ pkt'[c].pc = "send"
      BY SMTT(30), <1>7, <2>2, <1>g, <1>u DEF Resolve, Packets
    <3> QED BY Zenon, <3>1, <1>4
  <2> QED BY ZenonT(30), <2>1, <2>2
<1>8. CASE Send(c) \/ Learn(c)
  BY Zenon, <1>8, <1>n DEF Send, Learn
<1> QED BY Zenon, <1>1, <1>2, <1>3, <1>5, <1>6, <1>7, <1>8

\* What the packets know reads the control word, the operation, the packets and ungced.
LEMMA SnapFrame ==
    ASSUME SnapInv, UNCHANGED <<ctrl, op, pkt, ungced>>
    PROVE  SnapInv'
  BY SMTT(30) DEF SnapInv, SnapGood, Recording, Flying, Retired, WordInv

\* Every step keeps SnapInv.
LEMMA SnapStep == TypeOK /\ SlotInv /\ SnapInv /\ [Next]_vars => SnapInv'
<1> SUFFICES ASSUME TypeOK, SlotInv, SnapInv, [Next]_vars PROVE SnapInv'
  BY Zenon
<1>1. CASE LoaderNext
  BY Zenon, <1>1, SnapLoader, WordLoader DEF SnapInv
<1>2. CASE PacketNext
  <2>1. PICK c \in CPUs :
          \/ \E f \in Flows : Encap(c, f) \/ Decap(c, f)
          \/ \E e \in Endpoints : PacketTooBig(c, e)
          \/ Lookup(c) \/ Touch(c) \/ Resolve(c) \/ Send(c) \/ Learn(c)
    BY Zenon, <1>2 DEF PacketNext
  <2>2. pkt' = [pkt EXCEPT ![c] = pkt'[c]] /\ SnapGood(c)'
    BY Zenon, <2>1, SnapOwn
  <2>3. UNCHANGED <<ctrl, op, ungced>>
    BY Zenon, <2>1 DEF Encap, Decap, PacketTooBig, Lookup, Touch, Resolve, Send, Learn, swvars, affvars
  <2>4. ASSUME NEW b \in CPUs, b # c PROVE SnapGood(b)'
    <3>1. pkt'[b] = pkt[b] /\ SnapGood(b)
      BY Zenon, <2>2, <2>4 DEF TypeOK, SnapInv
    <3> QED BY Zenon, <3>1, <2>3 DEF SnapGood, Recording, Flying, Retired
  <2>5. WordInv'
    BY Zenon, <2>3 DEF SnapInv, WordInv
  <2>6. \A b \in CPUs : SnapGood(b)'
    BY Zenon, <2>2, <2>4
  <2> QED BY Zenon, <2>5, <2>6 DEF SnapInv
<1>3. CASE TimeNext
  <2>1. UNCHANGED <<ctrl, op, pkt, ungced>>
    BY Zenon, <1>3 DEF TimeNext, FlowFallsIdle, PmtuExpires, swvars, affvars
  <2> QED BY Zenon, <2>1, SnapFrame
<1>4. CASE UNCHANGED vars
  BY Zenon, <1>4, SnapFrame DEF vars
<1> QED BY Zenon, <1>1, <1>2, <1>3, <1>4 DEF Next

-----------------------------------------------------------------------------
(* The flow table, its collection and its packets.                         *)

\* No entry that is absent carries an epoch in force.
LEMMA CurrentPresent ==
    ASSUME TypeOK, NEW f \in Flows, Current(f)
    PROVE  aff[f] # Absent
<1>1. ctrl.epoch # EpochMod
  BY SMTT(30), ConstantsAssumption DEF TypeOK, Words, Epochs
<1> QED BY <1>1 DEF Current, Absent

\* touch_flow_affinity gives an entry the epoch in force or leaves it alone,
\* and outside PRIMING it refreshes only an entry that has it already.
LEMMA TouchEntry ==
    ASSUME TypeOK, FlowOfPacket, SnapInv, NEW c \in CPUs, Touch(c)
    PROVE  /\ pkt[c].flow \in Flows
           /\ \A f \in Flows : f # pkt[c].flow => aff'[f] = aff[f]
           /\ \/ aff'[pkt[c].flow] = aff[pkt[c].flow]
              \/ /\ aff'[pkt[c].flow].epoch = ctrl.epoch
                 /\ \/ pkt[c].snap.state = "PRIMING"
                    \/ aff[pkt[c].flow].epoch = ctrl.epoch
<1>1. pkt[c].flow \in Flows /\ aff' = [aff EXCEPT ![pkt[c].flow] = EntryAfter(pkt[c])]
  BY Zenon DEF Touch, FlowOfPacket
<1>2. aff \in [Flows -> Entries] /\ pkt[c].snap.epoch = ctrl.epoch
  BY Zenon, TypeParts DEF SnapInv, SnapGood, Recording, Touch
<1>3. \A f \in Flows : f # pkt[c].flow => aff'[f] = aff[f]
  BY Zenon, <1>1, <1>2
<1>4. aff'[pkt[c].flow] = EntryAfter(pkt[c])
  BY Zenon, <1>1, <1>2
<1>5. \/ EntryAfter(pkt[c]) = aff[pkt[c].flow]
      \/ /\ EntryAfter(pkt[c]) = [epoch |-> pkt[c].snap.epoch, idle |-> FALSE]
         /\ pkt[c].snap.state = "PRIMING" \/ aff[pkt[c].flow].epoch = pkt[c].snap.epoch
  BY Zenon DEF EntryAfter, Touched, FoundEpoch
<1> QED BY <1>1, <1>2, <1>3, <1>4, <1>5

\* While GCFlowAffinity runs: an entry it has neither to look at nor to delete
\* carries the epoch in force; while draining it has also been counted.
Collected(f) ==
    /\ f \in op.left \/ f \in op.stale \/ aff[f] = Absent \/ Current(f)
    /\ ctrl.state = "DRAINING" /\ Current(f) => f \in op.left \/ f \in op.stale \/ f \in op.kept
Collecting == op.pc \in {"walk", "delete"}
GCInv ==
    Collecting => /\ op.name = "gc" /\ op.word = ctrl
                  /\ op.pc = "delete" => op.left = {}
                  /\ \A f \in Flows : Collected(f)

\* The steps of GCFlowAffinity, and of every other operation, keep GCInv.
LEMMA GCLoader ==
    ASSUME TypeOK, SlotInv, SnapInv, GCInv, LoaderNext
    PROVE  GCInv'
<1>w. op \in Operations /\ aff \in [Flows -> Entries]
  BY Zenon, TypeParts
<1>1. CASE GCFlowAffinity
  <2>1. op' = [Call("gc", "walk") EXCEPT !.word = ctrl, !.left = Flows] /\ ctrl' = ctrl
    BY Zenon, <1>1 DEF GCFlowAffinity, swvars
  <2>2. op'.name = "gc" /\ op'.pc = "walk" /\ op'.word = ctrl /\ op'.left = Flows
    BY Zenon, <2>1 DEF Call, Idle
  <2> QED BY Zenon, <2>1, <2>2 DEF GCInv, Collected
<1>2. ASSUME NEW f \in Flows, Walk(f) PROVE GCInv'
  <2>1. /\ op.pc = "walk" /\ f \in op.left /\ UNCHANGED <<ctrl, aff>>
        /\ op'.left = op.left \ {f}
        /\ op'.stale = IF f \in Present /\ Expires(f) THEN op.stale \cup {f} ELSE op.stale
        /\ op'.kept = IF f \in Present /\ ~Expires(f) THEN op.kept \cup {f} ELSE op.kept
        /\ op'.name = op.name /\ op'.word = op.word
        /\ op'.pc = IF op.left = {f} THEN "delete" ELSE "walk"
    BY Zenon, <1>2, <1>w DEF Walk, swvars, affvars, Operations
  <2>2. op.name = "gc" /\ op.word = ctrl /\ \A g \in Flows : Collected(g)
    BY Zenon, <2>1 DEF GCInv, Collecting
  <2>3. ASSUME NEW g \in Flows, g # f PROVE Collected(g)'
    BY Zenon, <2>1, <2>2, <2>3 DEF Collected, Current
  <2>4. f \in Present /\ ~Expires(f) => Current(f)
    BY Zenon, <2>2 DEF Expires, Current
  <2>5. Current(f) => f \in Present
    BY Zenon, CurrentPresent DEF Present
  <2>6. Collected(f)'
    BY Zenon, <2>1, <2>4, <2>5 DEF Collected, Current, Present
  <2>7. op'.pc = "delete" => op'.left = {}
    BY Zenon, <2>1
  <2>8. \A g \in Flows : Collected(g)'
    BY Zenon, <2>3, <2>6
  <2> QED BY <2>1, <2>2, <2>7, <2>8 DEF GCInv
<1>3. ASSUME NEW f \in Flows, Delete(f) PROVE GCInv'
  <2>1. /\ op.pc = "delete" /\ f \in op.stale /\ ctrl' = ctrl
        /\ aff' = [aff EXCEPT ![f] = Absent]
        /\ op'.stale = op.stale \ {f} /\ op'.left = op.left /\ op'.kept = op.kept
        /\ op'.name = op.name /\ op'.word = op.word /\ op'.pc = op.pc
    BY Zenon, <1>3, <1>w DEF Delete, swvars, Operations
  <2>2. /\ op.name = "gc" /\ op.word = ctrl /\ op.left = {} /\ \A g \in Flows : Collected(g)
    BY Zenon, <2>1 DEF GCInv, Collecting
  <2>3. ASSUME NEW g \in Flows, g # f PROVE Collected(g)'
    <3>1. aff'[g] = aff[g]
      BY Zenon, <2>1, <2>3, <1>w
    <3> QED BY <2>1, <2>2, <2>3, <3>1 DEF Collected, Current
  <2>4. Collected(f)'
    <3>1. aff'[f] = Absent /\ Absent.epoch = EpochMod /\ ctrl.epoch # EpochMod
      BY SMTT(30), <2>1, <1>w, ConstantsAssumption DEF Absent, TypeOK, Words, Epochs
    <3> QED BY Zenon, <2>1, <3>1 DEF Collected, Current
  <2>5. \A g \in Flows : Collected(g)'
    BY <2>3, <2>4
  <2> QED BY Zenon, <2>1, <2>2, <2>5 DEF GCInv
<1>4. ASSUME op'.pc \notin {"walk", "delete"} PROVE GCInv'
  BY Zenon, <1>4 DEF GCInv, Collecting
<1>5. ASSUME NEW e \in Endpoints, BeginMigration(e) PROVE GCInv'
  <2>1. op'.pc = "claim"
    BY Zenon, <1>5 DEF BeginMigration, Call, Idle
  <2> QED BY Zenon, <2>1, <1>4
<1>6. ASSUME NEW e \in Endpoints, SwitchAFTR(e) PROVE GCInv'
  <2>1. op'.pc \in {"claim", "retire"}
    BY Zenon, <1>6 DEF SwitchAFTR, SwitchWrite, Call, Idle
  <2> QED BY Zenon, <2>1, <1>4
<1>7. CASE Cutover \/ CompleteMigration \/ AbortMigration
  <2>1. op'.pc \in {"flip", "retire"}
    BY ZenonT(30), <1>7 DEF Cutover, CompleteMigration, AbortMigration, Call, Idle
  <2> QED BY Zenon, <2>1, <1>4
<1>8. CASE Flip \/ MapFails \/ GCReturn
  <2>1. op'.pc = "idle"
    BY <1>8 DEF Flip, MapFails, GCReturn, Return, Idle
  <2> QED BY Zenon, <2>1, <1>4
<1>9. CASE Claim \/ PutHead \/ PutTail \/ Retire
  <2>1. Claim => op'.pc \in {"idle", "head"}
    BY <1>w DEF Claim, Return, Idle, Operations
  <2>2. PutHead \/ PutTail \/ Retire => op'.pc \in {"tail", "ztail", "flip", "forget", "zhead"}
    BY <1>w DEF PutHead, PutTail, Retire, Operations
  <2> QED BY Zenon, <1>9, <2>1, <2>2, <1>4
<1>10. CASE Forget
  <2>1. CASE op.name = "switch"
    <3>1. op'.pc = "claim"
      BY Zenon, <1>10, <2>1, <1>w DEF Forget, SwitchWrite, Operations
    <3> QED BY Zenon, <3>1, <1>4
  <2>2. CASE op.name # "switch"
    <3>1. op'.pc = "idle"
      BY <1>10, <2>2 DEF Forget, Return, Idle
    <3> QED BY <3>1, <1>4
  <2> QED BY Zenon, <2>1, <2>2
<1> QED BY <1>1, <1>2, <1>3, <1>5, <1>6, <1>7, <1>8, <1>9, <1>10 DEF LoaderNext

\* GCInv reads the epochs of the entries only.
LEMMA GCFrame ==
    ASSUME TypeOK, GCInv, UNCHANGED <<ctrl, op>>,
           \A f \in Flows : aff'[f].epoch = aff[f].epoch,
           \A f \in Flows : aff[f] = Absent => aff'[f] = Absent
    PROVE  GCInv'
<1>1. ASSUME NEW f \in Flows, Collected(f) PROVE Collected(f)'
  BY Zenon, <1>1 DEF Collected, Current
<1> QED BY Zenon, <1>1 DEF GCInv, Collecting

\* A packet that feeds the table while it is collected adds no entry that
\* escapes the count: what it writes carries the epoch in force, and while
\* draining it writes only what is there.
LEMMA GCTouch ==
    ASSUME TypeOK, FlowOfPacket, SnapInv, GCInv, NEW c \in CPUs, Touch(c)
    PROVE  GCInv'
<1> SUFFICES ASSUME Collecting' PROVE GCInv'
  BY Zenon DEF GCInv
<1>1. UNCHANGED <<ctrl, op>>
  BY Zenon DEF Touch, swvars
<1>2. Collecting /\ op.name = "gc" /\ op.pc \in {"walk", "delete"}
  BY Zenon, <1>1 DEF GCInv, Collecting
<1>3. pkt[c].snap.state = ctrl.state
  <2>1. Flying(c)
    BY Zenon DEF SnapInv, SnapGood, Recording, Touch
  <2>2. ~Retired /\ op.pc # "idle"
    BY Zenon, <1>2 DEF Retired
  <2> QED BY Zenon, <2>1, <2>2, BusySnap
<1>4. ASSUME NEW f \in Flows PROVE Collected(f)'
  <2>1. Collected(f)
    BY Zenon, <1>2 DEF GCInv
  <2>2. \/ aff'[f] = aff[f]
        \/ aff'[f].epoch = ctrl.epoch /\ (ctrl.state = "PRIMING" \/ aff[f].epoch = ctrl.epoch)
    BY Zenon, <1>3, TouchEntry
  <2> QED BY Zenon, <1>1, <2>1, <2>2 DEF Collected, Current
<1> QED BY Zenon, <1>1, <1>2, <1>4 DEF GCInv

\* Every step keeps GCInv.
LEMMA GCStep ==
    ASSUME TypeOK, FlowOfPacket, SlotInv, SnapInv, GCInv, [Next]_vars
    PROVE  GCInv'
<1>1. CASE LoaderNext
  BY Zenon, <1>1, GCLoader
<1>2. ASSUME NEW c \in CPUs, Touch(c) PROVE GCInv'
  BY Zenon, <1>2, GCTouch
<1>3. CASE UNCHANGED <<ctrl, op, aff>>
  BY Zenon, <1>3, GCFrame
<1>4. ASSUME NEW f \in Flows, FlowFallsIdle(f) PROVE GCInv'
  <2>1. /\ UNCHANGED <<ctrl, op>> /\ aff' = [aff EXCEPT ![f].idle = TRUE]
        /\ aff[f] # Absent /\ aff \in [Flows -> Entries]
    BY Zenon, <1>4, TypeParts DEF FlowFallsIdle, swvars, Present
  <2>2. \A g \in Flows : aff'[g].epoch = aff[g].epoch /\ (aff[g] = Absent => aff'[g] = Absent)
    BY Zenon, <2>1 DEF Entries
  <2> QED BY Zenon, <2>1, <2>2, GCFrame
<1>5. CASE PacketNext
  <2>1. (\E c \in CPUs : Touch(c)) \/ UNCHANGED <<ctrl, op, aff>>
    BY ZenonT(30), <1>5 DEF PacketNext, Encap, Decap, PacketTooBig, Lookup, Resolve, Send, Learn,
                swvars, affvars
  <2> QED BY Zenon, <2>1, <1>2, <1>3
<1>6. CASE TimeNext
  BY Zenon, <1>6, <1>3, <1>4 DEF TimeNext, PmtuExpires, affvars
<1> QED BY <1>1, <1>3, <1>5, <1>6 DEF Next, vars

\* What a packet knows, and what a collection has seen, hold from the start on.
LEMMA FlowsKnown == Spec => [](FlowOfPacket /\ SlotInv /\ SnapInv /\ GCInv)
<1>1. Init => FlowOfPacket /\ SlotInv /\ SnapInv /\ GCInv
  <2>1. Init => op.pc = "idle" /\ op.name = "none"
    BY DEF Init, Idle
  <2>2. Init => \A c \in CPUs : pkt[c].pc = "idle"
    BY DEF Init, NoPkt
  <2>3. Init => FlowOfPacket
    BY Zenon, <2>2 DEF FlowOfPacket
  <2>4. Init => \A c \in CPUs : SnapGood(c)
    BY Zenon, <2>1, <2>2 DEF SnapGood, Recording, Flying
  <2>5. Init => WordInv /\ GCInv
    BY Zenon, <2>1 DEF WordInv, GCInv, Collecting
  <2> QED BY Zenon, <2>3, <2>4, <2>5, SlotInit DEF SnapInv
<1>2. TypeOK /\ FlowOfPacket /\ SlotInv /\ SnapInv /\ GCInv /\ [Next]_vars
        => FlowOfPacket' /\ SlotInv' /\ SnapInv' /\ GCInv'
  BY Zenon, FlowStep, SlotStep, SnapStep, GCStep
<1> QED BY <1>1, <1>2, TypeCorrect, PTL DEF Spec

\* When GCFlowAffinity returns while DRAINING, every entry that still pins a
\* flow has been counted, whatever packets wrote the table during the walk and
\* the deletions: a drain that finds none left may complete.
THEOREM DrainCountsAll == Spec => GCCountsPinned
<1>1. GCInv => (GCReturn /\ ctrl.state = "DRAINING" => {f \in Flows : Current(f)} \subseteq op.kept)
  <2> SUFFICES ASSUME GCInv, GCReturn, ctrl.state = "DRAINING", NEW f \in Flows, Current(f)
               PROVE  f \in op.kept
    BY Zenon
  <2>1. op.stale = {} /\ op.left = {} /\ Collected(f)
    BY Zenon DEF GCReturn, GCInv, Collecting
  <2> QED BY Zenon, <2>1 DEF Collected
<1> QED BY <1>1, FlowsKnown, PTL DEF GCCountsPinned

\* The counter STAT_AFFINITY_INSERT_FAIL rises only for a flow the table does
\* not hold: the insert is BPF_ANY, so two CPUs that race to record one flow
\* both succeed.
THEOREM LossesReal == Spec => LostMeansUnrecorded
<1>1. Next => \A c \in CPUs : Touch(c) /\ ~lost /\ lost' => pkt[c].flow \notin Present
  BY Zenon DEF Touch, Insertable
<1> QED BY <1>1, PTL DEF Spec, LostMeansUnrecorded

-----------------------------------------------------------------------------
(* The epochs of the flow table.                                           *)

\* How many times the epoch has moved since it was e, as far as its field tells.
Since(e, now) == IF e <= now THEN now - e ELSE now + EpochMod - e

\* Entries are no older than the migrations begun since the last collection;
\* one with the epoch in force is of a flow recorded under it; a packet that
\* has read such an entry, or is pinned by it, is of such a flow.
Dated(f) ==
    /\ aff[f] # Absent => aff[f].epoch \in Epochs /\ Since(aff[f].epoch, ctrl.epoch) <= ungced
    /\ Current(f) => f \in recorded
Vouched(c) ==
    /\ pkt[c].pc = "touch" /\ pkt[c].fa = ctrl.epoch => pkt[c].flow \in recorded
    /\ Resolving(c) /\ Pinned(c) => pkt[c].flow \in recorded
RecordInv ==
    /\ \A f \in Flows : Dated(f)
    /\ \A c \in CPUs : Vouched(c)

\* The epoch after ctrl's, in its field.
LEMMA NextEpoch ==
    ASSUME NEW e \in Epochs
    PROVE  (e + 1) % EpochMod = IF e + 1 = EpochMod THEN 0 ELSE e + 1
<1>1. EpochMod \in Nat /\ EpochMod > 0 /\ e \in Nat /\ e < EpochMod
  BY ConstantsAssumption DEF Epochs
<1>2. CASE e + 1 = EpochMod
  <2>1. EpochMod % EpochMod = 0
    BY <1>1
  <2> QED BY Zenon, <1>2, <2>1
<1>3. CASE e + 1 # EpochMod
  <2>1. e + 1 \in 0 .. EpochMod - 1
    BY <1>1, <1>3
  <2>2. (e + 1) % EpochMod = e + 1
    BY <1>1, <2>1
  <2> QED BY Zenon, <1>3, <2>2
<1> QED BY Zenon, <1>2, <1>3

\* An epoch moves one further away from each of the last EpochMod - 1, and
\* onto none of them.
LEMMA SinceNext ==
    ASSUME NEW e \in Epochs, NEW now \in Epochs, NEW u \in Nat,
           Since(e, now) <= u, u + 1 < EpochMod
    PROVE  /\ e # (now + 1) % EpochMod
           /\ Since(e, (now + 1) % EpochMod) <= u + 1
<1>1. EpochMod \in Nat /\ e \in Nat /\ now \in Nat /\ e < EpochMod /\ now < EpochMod
  BY ConstantsAssumption DEF Epochs
<1>2. CASE now + 1 = EpochMod
  BY <1>1, <1>2, NextEpoch DEF Since
<1>3. CASE now + 1 # EpochMod
  BY <1>1, <1>3, NextEpoch DEF Since
<1> QED BY Zenon, <1>2, <1>3

\* The epoch in force is the last one.
LEMMA SinceNow ==
    ASSUME TypeOK
    PROVE  ctrl.epoch \in Epochs /\ Since(ctrl.epoch, ctrl.epoch) = 0
  BY SMTT(30), ConstantsAssumption DEF TypeOK, Words, Epochs, Since

\* A step of an operation leaves each packet's flow, words and slot alone.
LEMMA PacketsStay ==
    ASSUME TypeOK, LoaderNext, NEW c \in CPUs
    PROVE  /\ pkt'[c].pc = pkt[c].pc /\ pkt'[c].kind = pkt[c].kind /\ pkt'[c].flow = pkt[c].flow
           /\ pkt'[c].snap = pkt[c].snap /\ pkt'[c].fa = pkt[c].fa /\ pkt'[c].slot = pkt[c].slot
           /\ pkt'[c].known = pkt[c].known
<1>1. pkt' = pkt \/ Return
  BY Zenon DEF LoaderNext, BeginMigration, SwitchAFTR, Cutover, CompleteMigration,
         AbortMigration, GCFlowAffinity, Claim, PutHead, PutTail, Flip, Retire,
         Forget, MapFails, Walk, Delete, GCReturn
<1>2. CASE pkt' = pkt
  BY Zenon, <1>2
<1>3. CASE Return
  <2>1. pkt[c] \in Packets /\ pkt'[c] \in {pkt[c], [pkt[c] EXCEPT !.age = 1]}
    BY Zenon, <1>3, PacketTypes DEF Return
  <2> QED BY Zenon, <2>1 DEF Packets
<1> QED BY Zenon, <1>1, <1>2, <1>3

\* A step of an operation that is not BeginMigration's flip keeps the epoch
\* and what has been recorded under it.
LEMMA EpochStays ==
    ASSUME TypeOK, SlotInv, SnapInv, LoaderNext, ~(Flip /\ op.name = "begin")
    PROVE  ctrl'.epoch = ctrl.epoch /\ recorded' = recorded
<1>1. CASE Flip
  BY Zenon, <1>1 DEF Flip, SnapInv, WordInv
<1>2. CASE Retire
  BY SMTT(30), <1>2 DEF Retire, affvars, SnapInv, WordInv, SlotInv, Ending
<1>3. CASE ~Flip /\ ~Retire
  BY ZenonT(30), <1>3 DEF LoaderNext, BeginMigration, SwitchAFTR, Cutover, CompleteMigration,
         AbortMigration, GCFlowAffinity, Claim, PutHead, PutTail,
         Forget, MapFails, Walk, Delete, GCReturn, swvars, affvars
<1> QED BY Zenon, <1>1, <1>2, <1>3

\* The packets' vouchers are kept by a step that keeps the epoch and what is
\* recorded under it.
LEMMA VouchedStays ==
    ASSUME TypeOK, SlotInv, SnapInv, RecordInv, LoaderNext, NEW c \in CPUs
    PROVE  Vouched(c)'
<1>1. CASE Flip /\ op.name = "begin"
  <2>1. ~Recording(c) /\ (Flying(c) => pkt[c].snap.state = "STEADY")
    BY Zenon, <1>1, BeginSnap
  <2>2. ~Recording(c)' /\ ~(Resolving(c) /\ Pinned(c))'
    BY Zenon, <2>1, PacketsStay DEF Recording, Flying, Resolving, Pinned
  <2> QED BY Zenon, <2>2 DEF Vouched, Recording
<1>2. CASE ~(Flip /\ op.name = "begin")
  <2>1. ctrl'.epoch = ctrl.epoch /\ recorded' = recorded
    BY Zenon, <1>2, EpochStays
  <2>2. Vouched(c)
    BY Zenon DEF RecordInv
  <2> QED BY Zenon, <2>1, <2>2, PacketsStay DEF Vouched, Resolving, Pinned
<1> QED BY Zenon, <1>1, <1>2

\* The steps of an operation keep the entries' dates.
LEMMA DatedStays ==
    ASSUME MaxUngced < EpochMod, TypeOK, SlotInv, SnapInv, GCInv, RecordInv, LoaderNext,
           NEW f \in Flows
    PROVE  Dated(f)'
<1>t. ctrl.epoch \in Epochs /\ ungced \in Nat /\ Dated(f) /\ MaxUngced \in Nat /\ EpochMod \in Nat
  BY SinceNow, ConstantsAssumption DEF TypeOK, RecordInv
<1>1. CASE Flip /\ op.name = "begin"
  <2>1. /\ ctrl'.epoch = (ctrl.epoch + 1) % EpochMod /\ ungced' = ungced + 1 /\ aff' = aff
        /\ ungced + 1 < EpochMod
    BY <1>1, <1>t DEF Flip, SnapInv, WordInv
  <2>2. CASE aff[f] = Absent
    <3>1. TypeOK'
      BY Zenon, TypeLoader
    <3>2. aff'[f] = Absent /\ ~Current(f)'
      <4>1. aff'[f].epoch = EpochMod /\ ctrl'.epoch # EpochMod
        BY SMTT(30), <2>1, <2>2, <3>1, ConstantsAssumption DEF Absent, TypeOK, Words, Epochs
      <4> QED BY SMTT(30), <2>1, <2>2, <4>1 DEF Current
    <3> QED BY Zenon, <3>2 DEF Dated, Absent
  <2>3. CASE aff[f] # Absent
    <3>1. aff[f].epoch \in Epochs /\ Since(aff[f].epoch, ctrl.epoch) <= ungced
      BY Zenon, <2>3, <1>t DEF Dated
    <3>2. aff[f].epoch # ctrl'.epoch /\ Since(aff[f].epoch, ctrl'.epoch) <= ungced'
      BY SMTT(30), <1>t, <2>1, <3>1, SinceNext
    <3> QED BY SMTT(30), <2>1, <3>1, <3>2 DEF Dated, Current
  <2> QED BY Zenon, <2>2, <2>3
<1>2. CASE GCReturn
  <2>1. ctrl' = ctrl /\ aff' = aff /\ recorded' = recorded /\ ungced' = 0
    BY Zenon, <1>2 DEF GCReturn, swvars
  <2>2. aff[f] = Absent \/ Current(f)
    BY Zenon, <1>2 DEF GCReturn, GCInv, Collecting, Collected
  <2>3. Since(ctrl.epoch, ctrl.epoch) = 0
    BY Zenon, SinceNow
  <2> QED BY <1>t, <2>1, <2>2, <2>3 DEF Dated, Current, Absent
<1>3. ASSUME NEW g \in Flows, Delete(g) PROVE Dated(f)'
  <2>1. /\ ctrl' = ctrl /\ recorded' = recorded /\ ungced' = ungced
        /\ aff' = [aff EXCEPT ![g] = Absent]
    BY Zenon, <1>3 DEF Delete, swvars
  <2>2. CASE f = g
    <3>1. aff'[f] = Absent /\ Absent.epoch = EpochMod /\ ctrl.epoch # EpochMod
      BY SMTT(30), <2>1, <2>2, <1>t DEF Absent, TypeOK, Epochs
    <3> QED BY SMTT(30), <2>1, <3>1 DEF Dated, Current, Absent
  <2>3. CASE f # g
    BY SMTT(30), <1>t, <2>1, <2>3 DEF Dated, Current, Absent, TypeOK
  <2> QED BY Zenon, <2>2, <2>3
<1>4. CASE /\ ~(Flip /\ op.name = "begin") /\ ~GCReturn
           /\ ~ \E g \in Flows : Delete(g)
  <2>1. ctrl'.epoch = ctrl.epoch /\ recorded' = recorded
    BY SMTT(30), <1>4, EpochStays
  <2>2. aff' = aff /\ ungced' = ungced
    BY Zenon, <1>4 DEF LoaderNext, BeginMigration, SwitchAFTR, Cutover, CompleteMigration,
         AbortMigration, GCFlowAffinity, Claim, PutHead, PutTail, Flip, Retire,
         Forget, MapFails, Walk, affvars
  <2> QED BY <1>t, <2>1, <2>2 DEF Dated, Current, Absent
<1> QED BY <1>1, <1>2, <1>3, <1>4

\* A packet that pins itself has found an entry with the epoch in force, now
\* or at its lookup.
LEMMA VouchedTouch ==
    ASSUME TypeOK, FlowOfPacket, SnapInv, RecordInv, NEW c \in CPUs, Touch(c)
    PROVE  Vouched(c)'
<1>g. /\ SnapGood(c) /\ pkt[c] \in Packets /\ pkt \in [CPUs -> Packets] /\ Recording(c)
      /\ pkt[c].flow \in Flows /\ Dated(pkt[c].flow) /\ Vouched(c) /\ pkt[c].pc = "touch"
  BY Zenon, PacketTypes, TypeParts DEF SnapInv, Recording, Touch, FlowOfPacket, RecordInv
<1>1. CASE pkt[c].kind = "decap"
  <2>1. pkt'[c] = NoPkt
    BY Zenon, <1>1, <1>g DEF Touch
  <2> QED BY <2>1 DEF Vouched, Resolving, NoPkt
<1>2. CASE pkt[c].kind # "decap"
  <2>1. /\ pkt'[c].pc = "resolve" /\ pkt'[c].slot = PickedSlot(pkt[c])
        /\ pkt'[c].snap = pkt[c].snap /\ pkt'[c].flow = pkt[c].flow
        /\ recorded \subseteq recorded'
    BY Zenon, <1>2, <1>g DEF Touch, Packets
  <2>2. ASSUME Pinned(c)' PROVE pkt[c].flow \in recorded
    <3>1. /\ pkt[c].snap.state = "DRAINING" /\ PickedSlot(pkt[c]) = pkt[c].snap.old
          /\ pkt[c].snap.active # pkt[c].snap.old /\ pkt[c].snap.epoch = ctrl.epoch
      BY Zenon, <2>1, <2>2, <1>g DEF Pinned, SnapGood
    <3>2. Touched(pkt[c])
      BY Zenon, <3>1 DEF PickedSlot
    <3>3. FoundEpoch(pkt[c]) = ctrl.epoch
      BY Zenon, <3>1, <3>2 DEF Touched
    <3>4. CASE aff[pkt[c].flow] = Absent
      BY Zenon, <3>3, <3>4, <1>g DEF FoundEpoch, Vouched
    <3>5. CASE aff[pkt[c].flow] # Absent
      BY Zenon, <3>3, <3>5, <1>g DEF FoundEpoch, Dated, Current
    <3> QED BY Zenon, <3>4, <3>5
  <2> QED BY Zenon, <2>1, <2>2 DEF Vouched
<1> QED BY Zenon, <1>1, <1>2

\* What a step of a packet program does to its own packet's voucher.
LEMMA VouchedOwn ==
    ASSUME TypeOK, FlowOfPacket, SnapInv, RecordInv, NEW c \in CPUs,
           \/ \E f \in Flows : Encap(c, f) \/ Decap(c, f)
           \/ \E e \in Endpoints : PacketTooBig(c, e)
           \/ Lookup(c) \/ Touch(c) \/ Resolve(c) \/ Send(c) \/ Learn(c)
    PROVE  Vouched(c)'
<1>g. /\ pkt[c] \in Packets /\ pkt \in [CPUs -> Packets] /\ Vouched(c)
  BY Zenon, PacketTypes, TypeParts DEF RecordInv
<1>v. ASSUME pkt'[c].pc \in {"idle", "lookup", "learn"} PROVE Vouched(c)'
  <2>1. ~Resolving(c)' /\ pkt'[c].pc # "touch"
    BY Zenon, <1>v DEF Resolving
  <2> QED BY Zenon, <2>1 DEF Vouched
<1>n. ASSUME pkt'[c] = NoPkt PROVE Vouched(c)'
  <2>1. pkt'[c].pc = "idle"
    BY SMTT(30), <1>n DEF NoPkt
  <2> QED BY Zenon, <2>1, <1>v
<1>1. ASSUME NEW f \in Flows, Encap(c, f) PROVE Vouched(c)'
  <2>1. /\ pkt'[c].pc = IF ctrl.state = "STEADY" THEN "resolve" ELSE "lookup"
        /\ pkt'[c].snap = ctrl
    BY Zenon, <1>1, <1>g DEF Encap, NoPkt
  <2>2. ~(Resolving(c)' /\ Pinned(c)') /\ pkt'[c].pc # "touch"
    BY Zenon, <2>1 DEF Resolving, Pinned
  <2> QED BY Zenon, <2>2 DEF Vouched
<1>2. ASSUME NEW f \in Flows, Decap(c, f) PROVE Vouched(c)'
  <2>1. pkt'[c].pc = "lookup"
    BY Zenon, <1>2, <1>g DEF Decap, NoPkt
  <2> QED BY Zenon, <2>1, <1>v
<1>3. ASSUME NEW e \in Endpoints, PacketTooBig(c, e) PROVE Vouched(c)'
  <2>1. pkt'[c].pc = "learn"
    BY ZenonT(30), <1>3, <1>g DEF PacketTooBig, NoPkt
  <2> QED BY Zenon, <2>1, <1>v
<1>4. CASE Lookup(c)
  <2>1. /\ pkt[c].pc = "lookup" /\ pkt'[c].pc = "touch" /\ pkt'[c].flow = pkt[c].flow
        /\ pkt'[c].fa = aff[pkt[c].flow].epoch /\ ctrl' = ctrl /\ recorded' = recorded
    BY Zenon, <1>4, <1>g DEF Lookup, Packets, swvars, affvars
  <2>2. pkt[c].flow \in Flows /\ Dated(pkt[c].flow)
    BY Zenon, <2>1 DEF FlowOfPacket, RecordInv
  <2> QED BY <2>1, <2>2 DEF Vouched, Resolving, Dated, Current
<1>5. CASE Touch(c)
  BY Zenon, <1>5, VouchedTouch
<1>6. CASE Resolve(c)
  <2>1. CASE ~nh[pkt[c].slot].valid
    BY Zenon, <1>6, <2>1, <1>g, <1>n DEF Resolve
  <2>2. CASE nh[pkt[c].slot].valid
    <3>1. /\ pkt[c].pc = "resolve" /\ pkt'[c].pc = "send" /\ pkt'[c].flow = pkt[c].flow
          /\ pkt'[c].kind = pkt[c].kind /\ pkt'[c].snap = pkt[c].snap
          /\ pkt'[c].slot = pkt[c].slot /\ recorded' = recorded
      BY SMTT(30), <1>6, <2>2, <1>g DEF Resolve, Packets, affvars
    <3> QED BY ZenonT(30), <3>1, <1>g DEF Vouched, Resolving, Pinned
  <2> QED BY Zenon, <2>1, <2>2
<1>7. CASE Send(c) \/ Learn(c)
  BY <1>7, <1>g, <1>n DEF Send, Learn
<1> QED BY SMTT(30), <1>1, <1>2, <1>3, <1>4, <1>5, <1>6, <1>7

\* Every step of a packet program keeps the dates and the vouchers.
LEMMA RecordPacket ==
    ASSUME TypeOK, FlowOfPacket, SlotInv, SnapInv, RecordInv, PacketNext
    PROVE  RecordInv'
<1>1. PICK c \in CPUs :
        \/ \E f \in Flows : Encap(c, f) \/ Decap(c, f)
        \/ \E e \in Endpoints : PacketTooBig(c, e)
        \/ Lookup(c) \/ Touch(c) \/ Resolve(c) \/ Send(c) \/ Learn(c)
  BY Zenon DEF PacketNext
<1>2. UNCHANGED <<ctrl, ungced>> /\ recorded \subseteq recorded'
  BY Zenon, <1>1 DEF Encap, Decap, PacketTooBig, Lookup, Touch, Resolve, Send, Learn, swvars, affvars
<1>3. ASSUME NEW b \in CPUs PROVE Vouched(b)'
  <2>1. CASE b = c
    BY Zenon, <1>1, <2>1, VouchedOwn
  <2>2. CASE b # c
    <3>1. pkt'[b] = pkt[b] /\ Vouched(b)
      BY SMTT(30), <1>1, <2>2, SnapOwn DEF TypeOK, RecordInv
    <3> QED BY Zenon, <3>1, <1>2 DEF Vouched, Resolving, Pinned
  <2> QED BY Zenon, <2>1, <2>2
<1>4. ASSUME NEW f \in Flows PROVE Dated(f)'
  <2>t. Dated(f) /\ ctrl.epoch \in Epochs /\ Since(ctrl.epoch, ctrl.epoch) = 0 /\ ungced \in Nat
    BY Zenon, SinceNow DEF RecordInv, TypeOK
  <2>1. CASE aff'[f] = aff[f]
    BY Zenon, <2>1, <2>t, <1>2 DEF Dated, Current, Absent
  <2>2. CASE aff'[f] # aff[f]
    <3>1. Touch(c)
      BY Zenon, <1>1, <2>2 DEF Encap, Decap, PacketTooBig, Lookup, Resolve, Send, Learn, affvars
    <3>2. /\ f = pkt[c].flow /\ aff'[f].epoch = ctrl.epoch
          /\ pkt[c].snap.state = "PRIMING" \/ aff[f].epoch = ctrl.epoch
      BY Zenon, <3>1, <2>2, TouchEntry
    <3>3. f \in recorded'
      BY Zenon, <3>1, <3>2, <2>t, <1>2 DEF Touch, Dated, Current
    <3>4. aff'[f].epoch \in Epochs /\ Since(aff'[f].epoch, ctrl'.epoch) <= ungced'
      BY <2>t, <1>2, <3>2
    <3> QED BY Zenon, <3>3, <3>4 DEF Dated
  <2> QED BY Zenon, <2>1, <2>2
<1> QED BY Zenon, <1>3, <1>4 DEF RecordInv

\* Every step keeps the dates and the vouchers.
LEMMA RecordStep ==
    ASSUME MaxUngced < EpochMod, TypeOK, FlowOfPacket, SlotInv, SnapInv, GCInv, RecordInv,
           [Next]_vars
    PROVE  RecordInv'
<1>1. CASE LoaderNext
  BY Zenon, <1>1, DatedStays, VouchedStays DEF RecordInv
<1>2. CASE PacketNext
  BY Zenon, <1>2, RecordPacket
<1>3. CASE TimeNext \/ UNCHANGED vars
  <2>1. UNCHANGED <<ctrl, ungced, recorded, pkt>>
    BY Zenon, <1>3 DEF TimeNext, FlowFallsIdle, PmtuExpires, swvars, affvars, vars
  <2>2. \A f \in Flows : aff'[f].epoch = aff[f].epoch /\ (aff[f] = Absent => aff'[f] = Absent)
    <3>1. aff \in [Flows -> Entries]
      BY Zenon, TypeParts
    <3>2. aff' = aff \/ \E g \in Flows : aff[g] # Absent /\ aff' = [aff EXCEPT ![g].idle = TRUE]
      BY Zenon, <1>3 DEF TimeNext, FlowFallsIdle, PmtuExpires, affvars, vars, Present
    <3> QED BY <3>1, <3>2 DEF Entries
  <2>3. ASSUME NEW f \in Flows PROVE Dated(f)'
    BY Zenon, <2>1, <2>2 DEF RecordInv, Dated, Current, Absent
  <2>4. ASSUME NEW c \in CPUs PROVE Vouched(c)'
    BY Zenon, <2>1 DEF RecordInv, Vouched, Resolving, Pinned
  <2> QED BY Zenon, <2>3, <2>4 DEF RecordInv
<1> QED BY Zenon, <1>1, <1>2, <1>3 DEF Next

\* Only a flow seen in PRIMING of this migration is pinned to the old AFTR, for
\* any number of CPUs and flows and whatever calls and failures: an entry of an
\* earlier migration is told apart as long as fewer migrations begin between
\* two collections than the epoch field has values.
THEOREM NoLeftoverPinned ==
    ASSUME MaxUngced < EpochMod
    PROVE  Spec => []OnlyRecordedPinned
<1>1. Init => RecordInv
  <2> SUFFICES ASSUME Init PROVE RecordInv
    BY Zenon
  <2>1. /\ \A f \in Flows : aff[f] = Absent /\ ~Current(f)
    <3>1. \A f \in Flows : aff[f] = Absent
      BY Zenon DEF Init
    <3> QED BY Zenon, <3>1, TypeInit, CurrentPresent
  <2>2. \A c \in CPUs : pkt[c].pc = "idle"
    BY Zenon DEF Init, NoPkt
  <2> QED BY Zenon, <2>1, <2>2 DEF RecordInv, Dated, Vouched, Resolving
<1>2. TypeOK /\ FlowOfPacket /\ SlotInv /\ SnapInv /\ GCInv /\ RecordInv /\ [Next]_vars
        => RecordInv'
  BY Zenon, RecordStep
<1>3. RecordInv => OnlyRecordedPinned
  BY Zenon DEF RecordInv, Vouched, OnlyRecordedPinned
<1> QED BY <1>1, <1>2, <1>3, TypeCorrect, FlowsKnown, PTL DEF Spec

-----------------------------------------------------------------------------
(* The flows a migration has seen.                                         *)

\* Collections happen outside PRIMING.  A flow primed has an entry of the epoch
\* in force, unless an insert has failed.
Kept ==
    /\ Collecting => ctrl.state # "PRIMING"
    /\ ~lost /\ ctrl.state # "STEADY" => \A f \in primed : Current(f)
\* The entry a PRIMING packet has found is still there.
Held(c) ==
    pkt[c].pc = "touch" /\ pkt[c].snap.state = "PRIMING" /\ pkt[c].fa # EpochMod =>
        aff[pkt[c].flow] # Absent
\* A packet arrived while DRAINING, of a flow primed by then.
Promised(c) == Flying(c) /\ pkt[c].snap.state = "DRAINING" /\ pkt[c].known
\* Such a packet finds the flow's entry, and is pinned once it has looked; a
\* flow dropped from the record since is not primed again under it.
Guarded(c) ==
    Promised(c) =>
        /\ ~lost /\ pkt[c].flow \in primed =>
             /\ Recording(c) => Current(pkt[c].flow)
             /\ pkt[c].pc = "touch" => pkt[c].fa # EpochMod
             /\ Resolving(c) => Pinned(c)
        /\ pkt[c].flow \notin primed =>
             \A d \in CPUs : Recording(d) => pkt[d].snap.state # "PRIMING"
PrimedInv ==
    /\ Kept
    /\ \A c \in CPUs : Held(c) /\ Guarded(c)

\* A step that leaves the entries, what is primed, and the packets alone.
LEMMA PrimedStays ==
    ASSUME TypeOK, SlotInv, SnapInv, PrimedInv, LoaderNext, ctrl'.epoch = ctrl.epoch,
           UNCHANGED <<aff, lost, primed>>, NEW c \in CPUs
    PROVE  Held(c)' /\ Guarded(c)'
<1>1. Held(c) /\ Guarded(c)
  BY Zenon DEF PrimedInv
<1>2. Held(c)'
  BY Zenon, <1>1, PacketsStay DEF Held
<1>3. /\ Promised(c)' = Promised(c) /\ Recording(c)' = Recording(c)
      /\ Resolving(c)' = Resolving(c) /\ Pinned(c)' = Pinned(c)
  BY Zenon, PacketsStay DEF Promised, Flying, Recording, Resolving, Pinned
<1>4. \A d \in CPUs : Recording(d)' = Recording(d) /\ pkt'[d].snap = pkt[d].snap
  BY Zenon, PacketsStay DEF Recording
<1>5. Current(pkt[c].flow)' = Current(pkt[c].flow) /\ pkt'[c].flow = pkt[c].flow
  BY Zenon, PacketsStay DEF Current
<1>6. Guarded(c)'
  BY ZenonT(30), <1>1, <1>3, <1>4, <1>5, PacketsStay DEF Guarded
<1> QED BY Zenon, <1>2, <1>6

\* A step under which no packet feeds the table or stems from a migration.
LEMMA PrimedVacuous ==
    ASSUME TypeOK, LoaderNext, NEW c \in CPUs, ~Recording(c),
           Flying(c) => pkt[c].snap.state = "STEADY"
    PROVE  Held(c)' /\ Guarded(c)'
<1>1. ~Recording(c)' /\ ~Promised(c)'
  BY Zenon, PacketsStay DEF Recording, Promised, Flying
<1> QED BY Zenon, <1>1 DEF Held, Guarded, Recording

\* Every step of a Loader operation keeps PrimedInv.
LEMMA PrimedLoader ==
    ASSUME "gc-priming" \notin Ops, TypeOK, SlotInv, SnapInv, GCInv, PrimedInv, LoaderNext
    PROVE  PrimedInv'
<1>w. op \in Operations /\ aff \in [Flows -> Entries] /\ primed \subseteq Flows /\ Kept
  BY Zenon, TypeParts DEF PrimedInv
<1>1. ASSUME NEW e \in Endpoints, BeginMigration(e) PROVE PrimedInv'
  <2>1. OpMayStart("begin") /\ ctrl.state = "STEADY" /\ ctrl' = ctrl /\ op'.pc = "claim"
    BY Zenon, <1>1 DEF BeginMigration, swvars, Call, Idle
  <2>2. ASSUME NEW c \in CPUs PROVE Held(c)' /\ Guarded(c)'
    <3>1. SnapGood(c) /\ op.pc = "idle" /\ (pkt[c].pc # "idle" => pkt[c].age = 0)
      <4>1. pkt[c].pc # "idle" => pkt[c].age < MaxOverlap
        BY Zenon, <2>1 DEF OpMayStart
      <4> QED BY SMTT(30), <2>1, <4>1, PacketTypes, ConstantsAssumption DEF SnapInv, OpMayStart
    <3>2. Flying(c) => pkt[c].snap.state = "STEADY"
      BY Zenon, <2>1, <3>1 DEF SnapGood, Flying, Retired
    <3>3. ~Recording(c)
      BY Zenon, <3>1, <3>2 DEF SnapGood
    <3> QED BY Zenon, <3>2, <3>3, PrimedVacuous
  <2>3. Kept'
    BY Zenon, <2>1 DEF Kept, Collecting
  <2> QED BY Zenon, <2>2, <2>3 DEF PrimedInv
<1>2. CASE Flip /\ op.name = "begin"
  <2>1. primed' = {} /\ op'.pc = "idle"
    BY Zenon, <1>2 DEF Flip, Return, Idle
  <2>2. ASSUME NEW c \in CPUs PROVE Held(c)' /\ Guarded(c)'
    BY Zenon, <1>2, BeginSnap, PrimedVacuous
  <2>3. Kept'
    BY Zenon, <2>1 DEF Kept, Collecting
  <2> QED BY Zenon, <2>2, <2>3 DEF PrimedInv
<1>3. ASSUME NEW f \in Flows, Delete(f) PROVE PrimedInv'
  <2>1. /\ op.pc = "delete" /\ op'.pc = "delete" /\ ctrl' = ctrl /\ lost' = lost
        /\ aff' = [aff EXCEPT ![f] = Absent]
    BY Zenon, <1>3, <1>w DEF Delete, swvars, Operations
  <2>2. Collecting /\ op.name = "gc" /\ op.word = ctrl /\ ctrl.state # "PRIMING"
    BY Zenon, <2>1, <1>w DEF GCInv, Collecting, Kept
  <2>3. primed' = primed \ {f}
    BY Zenon, <1>3, <2>2 DEF Delete
  <2>4. \A g \in Flows : g # f => (Current(g)' <=> Current(g))
    BY Zenon, <2>1, <1>w DEF Current
  <2>5. \A d \in CPUs : Recording(d) => pkt[d].snap.state # "PRIMING"
    <3> SUFFICES ASSUME NEW d \in CPUs, Recording(d) PROVE pkt[d].snap.state # "PRIMING"
      BY Zenon
    <3>1. Flying(d)
      BY Zenon DEF SnapInv, SnapGood
    <3>2. ~Retired /\ op.pc # "idle"
      BY Zenon, <2>1, <2>2 DEF Retired
    <3> QED BY Zenon, <2>2, <3>1, <3>2, BusySnap
  <2>6. ASSUME NEW c \in CPUs PROVE Held(c)' /\ Guarded(c)'
    <3>1. Held(c)'
      BY Zenon, <2>5, PacketsStay DEF Held, Recording
    <3>2. /\ Promised(c)' = Promised(c) /\ Recording(c)' = Recording(c)
          /\ Resolving(c)' = Resolving(c) /\ Pinned(c)' = Pinned(c)
      BY Zenon, PacketsStay DEF Promised, Flying, Recording, Resolving, Pinned
    <3>3. \A d \in CPUs : Recording(d)' => pkt'[d].snap.state # "PRIMING"
      BY Zenon, <2>5, PacketsStay DEF Recording
    <3>4. ASSUME Promised(c), ~lost, pkt[c].flow \in primed'
          PROVE  /\ Recording(c) => Current(pkt[c].flow)'
                 /\ pkt[c].pc = "touch" => pkt[c].fa # EpochMod
                 /\ Resolving(c) => Pinned(c)
      <4>1. PICK g \in Flows : g = pkt[c].flow /\ g \in primed /\ g # f
        BY Zenon, <2>3, <3>4, <1>w
      <4>2. /\ Recording(c) => Current(g)
            /\ pkt[c].pc = "touch" => pkt[c].fa # EpochMod
            /\ Resolving(c) => Pinned(c)
        BY Zenon, <3>4, <4>1 DEF PrimedInv, Guarded
      <4>3. Current(pkt[c].flow)' <=> Current(g)'
        BY Zenon, <4>1, PacketsStay DEF Current
      <4> QED BY Zenon, <4>1, <4>2, <4>3, <2>4
    <3>5. Guarded(c)'
      BY Zenon, <2>1, <3>2, <3>3, <3>4, PacketsStay DEF Guarded
    <3> QED BY Zenon, <3>1, <3>5
  <2>7. Kept'
    BY Zenon, <2>1, <2>2, <2>3, <2>4, <1>w DEF Kept
  <2> QED BY <2>6, <2>7 DEF PrimedInv
<1>4. ASSUME ctrl'.epoch = ctrl.epoch, UNCHANGED <<aff, lost, primed>>,
             ctrl'.state = ctrl.state \/ ctrl'.state = "STEADY" \/ ctrl.state = "PRIMING",
             Collecting' => ctrl'.state # "PRIMING"
      PROVE  PrimedInv'
  <2>1. \A c \in CPUs : Held(c)' /\ Guarded(c)'
    BY Zenon, <1>4, PrimedStays
  <2>2. Kept'
    BY Zenon, <1>4, <1>w DEF Kept, Current
  <2> QED BY Zenon, <2>1, <2>2 DEF PrimedInv
<1>5. CASE Flip /\ op.name # "begin"
  <2>1. ctrl' = op.word /\ UNCHANGED <<aff, lost, primed>> /\ op'.pc = "idle" /\ op.pc = "flip"
    BY Zenon, <1>5 DEF Flip, Return, Idle
  <2>2. ctrl'.epoch = ctrl.epoch /\ (op.word.state = "STEADY" \/ ctrl.state = "PRIMING")
    BY Zenon, <1>5, <2>1 DEF SnapInv, WordInv, SlotInv, Writing, CuttingOver
  <2> QED BY Zenon, <2>1, <2>2, <1>4 DEF Collecting
<1>6. CASE Retire
  <2>1. /\ ctrl' = op.word /\ UNCHANGED <<aff, lost, primed>> /\ op'.pc = "zhead"
        /\ op.pc = "retire" /\ op.word.state = "STEADY" /\ op.name # "begin"
    BY Zenon, <1>6, <1>w DEF Retire, affvars, Operations, SlotInv, Ending
  <2>2. op.word.epoch = ctrl.epoch
    BY Zenon, <2>1 DEF SnapInv, WordInv
  <2> QED BY Zenon, <2>1, <2>2, <1>4 DEF Collecting
<1>7. CASE GCFlowAffinity
  <2>1. ctrl' = ctrl /\ UNCHANGED <<aff, lost, primed>> /\ ctrl.state # "PRIMING"
    BY Zenon, <1>7 DEF GCFlowAffinity, swvars, affvars, OpMayStart
  <2> QED BY Zenon, <2>1, <1>4
<1>8. CASE \E f \in Flows : Walk(f)
  <2>1. ctrl' = ctrl /\ UNCHANGED <<aff, lost, primed>> /\ Collecting
    BY Zenon, <1>8 DEF Walk, swvars, affvars, Collecting
  <2> QED BY Zenon, <2>1, <1>w, <1>4 DEF Kept
<1>9. CASE \/ \E e \in Endpoints : SwitchAFTR(e)
           \/ Cutover \/ CompleteMigration \/ AbortMigration
           \/ Claim \/ PutHead \/ PutTail \/ Forget \/ MapFails \/ GCReturn
  <2>1. ctrl' = ctrl /\ UNCHANGED <<aff, lost, primed>>
    BY Zenon, <1>9 DEF SwitchAFTR, Cutover, CompleteMigration, AbortMigration, Claim, PutHead, PutTail,
                Forget, MapFails, GCReturn, swvars, affvars
  <2>2. ~Collecting'
    <3>1. ASSUME NEW e \in Endpoints, SwitchAFTR(e) PROVE op'.pc \in {"claim", "retire"}
      BY Zenon, <3>1 DEF SwitchAFTR, SwitchWrite, Call, Idle
    <3>2. Cutover \/ CompleteMigration \/ AbortMigration => op'.pc \in {"flip", "retire"}
      BY Zenon DEF Cutover, CompleteMigration, AbortMigration, Call, Idle
    <3>3. Claim => op'.pc \in {"idle", "head"}
      BY <1>w DEF Claim, Return, Idle, Operations
    <3>4. PutHead \/ PutTail => op'.pc \in {"tail", "ztail", "flip", "forget"}
      BY Zenon, <1>w DEF PutHead, PutTail, Operations
    <3>5. Forget => op'.pc \in {"claim", "idle"}
      <4>1. Forget /\ op.name = "switch" => op'.pc = "claim"
        BY Zenon, <1>w DEF Forget, SwitchWrite, Operations
      <4>2. Forget /\ op.name # "switch" => op'.pc = "idle"
        BY DEF Forget, Return, Idle
      <4> QED BY Zenon, <4>1, <4>2
    <3>6. MapFails \/ GCReturn => op'.pc = "idle"
      BY DEF MapFails, GCReturn, Return, Idle
    <3>7. op'.pc \notin {"walk", "delete"}
      BY Zenon, <1>9, <3>1, <3>2, <3>3, <3>4, <3>5, <3>6
    <3> QED BY Zenon, <3>7 DEF Collecting
  <2> QED BY Zenon, <2>1, <2>2, <1>4
<1> QED BY SMTT(30), <1>1, <1>2, <1>3, <1>5, <1>6, <1>7, <1>8, <1>9 DEF LoaderNext

\* What touch_flow_affinity does to the table: an entry that is there stays,
\* one with the epoch in force keeps it, and a PRIMING packet leaves its flow
\* with that epoch unless the table was full.
LEMMA TouchKeeps ==
    ASSUME TypeOK, FlowOfPacket, SnapInv, PrimedInv, NEW c \in CPUs, Touch(c)
    PROVE  /\ \A g \in Flows : Current(g) => Current(g)'
           /\ \A g \in Flows : aff[g] # Absent => aff'[g] # Absent
           /\ pkt[c].snap.state = "PRIMING" => lost' \/ aff'[pkt[c].flow].epoch = ctrl.epoch
<1>1. ctrl' = ctrl /\ ctrl.epoch # EpochMod
  BY SMTT(30), ConstantsAssumption DEF Touch, swvars, TypeOK, Words, Epochs
<1>2. \A g \in Flows : Current(g) => Current(g)'
  BY Zenon, <1>1, TouchEntry DEF Current
<1>3. \A g \in Flows : aff[g] # Absent => aff'[g] # Absent
  <2> SUFFICES ASSUME NEW g \in Flows, aff[g] # Absent PROVE aff'[g] # Absent
    BY Zenon
  <2>1. aff'[g] = aff[g] \/ aff'[g].epoch = ctrl.epoch
    BY Zenon, TouchEntry
  <2>2. Absent.epoch = EpochMod
    BY Zenon DEF Absent
  <2> QED BY Zenon, <1>1, <2>1, <2>2
<1>4. ASSUME pkt[c].snap.state = "PRIMING", ~lost' PROVE aff'[pkt[c].flow].epoch = ctrl.epoch
  <2>1. /\ pkt[c].pc = "touch" /\ pkt[c].flow \in Flows /\ aff \in [Flows -> Entries]
        /\ pkt[c].snap.epoch = ctrl.epoch
    BY Zenon, TypeParts DEF Touch, FlowOfPacket, SnapInv, SnapGood, Recording
  <2>2. aff'[pkt[c].flow] = EntryAfter(pkt[c])
    BY Zenon, <2>1 DEF Touch
  <2>3. CASE pkt[c].fa # EpochMod
    <3>1. aff[pkt[c].flow] # Absent /\ Touched(pkt[c])
      BY Zenon, <1>4, <2>1, <2>3 DEF PrimedInv, Held, Touched
    <3> QED BY SMTT(30), <2>1, <2>2, <2>3, <3>1 DEF EntryAfter
  <2>4. CASE pkt[c].fa = EpochMod
    <3>1. Insertable(pkt[c].flow)
      BY Zenon, <1>4, <2>4 DEF Touch
    <3> QED BY SMTT(30), <1>4, <2>1, <2>2, <2>4, <3>1 DEF EntryAfter
  <2> QED BY Zenon, <2>3, <2>4
<1> QED BY Zenon, <1>2, <1>3, <1>4

\* A known flow's packet that arrived while DRAINING is pinned by pick_softwire_slot.
LEMMA TouchPins ==
    ASSUME TypeOK, FlowOfPacket, SnapInv, PrimedInv, NEW c \in CPUs, Touch(c),
           Promised(c), ~lost, pkt[c].flow \in primed, pkt[c].kind # "decap"
    PROVE  Pinned(c)'
<1>1. /\ pkt[c].pc = "touch" /\ pkt[c].flow \in Flows /\ Recording(c)
      /\ pkt[c].snap.epoch = ctrl.epoch /\ pkt[c].snap.state = "DRAINING"
  BY Zenon DEF Touch, FlowOfPacket, SnapInv, SnapGood, Recording, Promised
<1>2. Current(pkt[c].flow) /\ pkt[c].fa # EpochMod
  BY Zenon, <1>1 DEF PrimedInv, Guarded
<1>3. aff[pkt[c].flow] # Absent
  BY Zenon, <1>1, <1>2, CurrentPresent
<1>4. Touched(pkt[c])
  BY Zenon, <1>1, <1>2, <1>3 DEF Touched, FoundEpoch, Current
<1>5. PickedSlot(pkt[c]) = pkt[c].snap.old
  BY Zenon, <1>1, <1>4 DEF PickedSlot
<1>6. pkt \in [CPUs -> Packets] /\ pkt[c] \in Packets
  BY Zenon, TypeParts
<1>7. pkt'[c].snap = pkt[c].snap /\ pkt'[c].slot = PickedSlot(pkt[c])
  BY Zenon, <1>6 DEF Touch, Packets
<1> QED BY Zenon, <1>1, <1>5, <1>7 DEF Pinned

\* touch_flow_affinity and pick_softwire_slot keep PrimedInv.
LEMMA PrimedTouch ==
    ASSUME TypeOK, FlowOfPacket, SlotInv, SnapInv, PrimedInv, NEW c \in CPUs, Touch(c)
    PROVE  PrimedInv'
<1>1. /\ UNCHANGED <<ctrl, op>> /\ pkt \in [CPUs -> Packets] /\ pkt[c] \in Packets
      /\ pkt[c].pc = "touch" /\ Recording(c) /\ pkt[c].flow \in Flows /\ primed \subseteq Flows
  BY Zenon, TypeParts DEF Touch, swvars, Recording, FlowOfPacket
<1>2. /\ primed' = primed \cup (IF pkt[c].snap.state = "PRIMING" THEN {pkt[c].flow} ELSE {})
      /\ lost => lost'
  BY Zenon DEF Touch
<1>3. \A b \in CPUs : b # c => pkt'[b] = pkt[b]
  BY Zenon, <1>1 DEF Touch
<1>4. /\ pkt'[c].pc \in {"idle", "resolve"}
      /\ pkt'[c].pc = "resolve" => pkt[c].kind # "decap"
      /\ pkt'[c].pc = "resolve" => /\ pkt'[c].kind = pkt[c].kind /\ pkt'[c].snap = pkt[c].snap
                                   /\ pkt'[c].flow = pkt[c].flow /\ pkt'[c].known = pkt[c].known
  <2>1. CASE pkt[c].kind = "decap"
    <3>1. pkt'[c] = NoPkt
      BY Zenon, <2>1, <1>1 DEF Touch
    <3> QED BY SMTT(30), <3>1 DEF NoPkt
  <2>2. CASE pkt[c].kind # "decap"
    BY Zenon, <2>2, <1>1 DEF Touch, Packets
  <2> QED BY Zenon, <2>1, <2>2
<1>5. \A d \in CPUs : Recording(d)' => Recording(d) /\ pkt'[d].snap = pkt[d].snap
  BY Zenon, <1>3, <1>4 DEF Recording
<1>6. Kept'
  <2>1. ASSUME ~lost', ctrl.state # "STEADY", NEW g \in primed' PROVE Current(g)'
    <3>1. CASE g \in primed
      <4>1. Current(g) /\ g \in Flows
        BY Zenon, <1>1, <1>2, <2>1, <3>1 DEF PrimedInv, Kept
      <4> QED BY Zenon, <4>1, TouchKeeps
    <3>2. CASE g \notin primed
      <4>1. pkt[c].snap.state = "PRIMING" /\ g = pkt[c].flow
        BY Zenon, <1>2, <2>1, <3>2
      <4> QED BY Zenon, <1>1, <2>1, <4>1, TouchKeeps DEF Current
    <3> QED BY Zenon, <3>1, <3>2
  <2> QED BY Zenon, <1>1, <2>1 DEF Kept, PrimedInv, Collecting
<1>7. ASSUME NEW b \in CPUs PROVE Held(b)'
  <2>1. CASE b = c
    BY Zenon, <2>1, <1>4 DEF Held
  <2>2. CASE b # c
    <3>1. pkt'[b] = pkt[b] /\ Held(b) /\ (pkt[b].pc = "touch" => pkt[b].flow \in Flows)
      BY Zenon, <2>2, <1>3 DEF PrimedInv, FlowOfPacket
    <3>2. pkt[b].flow \in Flows => (aff[pkt[b].flow] # Absent => aff'[pkt[b].flow] # Absent)
      BY Zenon, TouchKeeps
    <3> QED BY Zenon, <3>1, <3>2 DEF Held
  <2> QED BY Zenon, <2>1, <2>2
<1>8. ASSUME NEW b \in CPUs PROVE Guarded(b)'
  <2> SUFFICES ASSUME Promised(b)' PROVE Guarded(b)'
    BY Zenon DEF Guarded
  <2>1. /\ Promised(b) /\ pkt'[b].flow = pkt[b].flow /\ pkt'[b].snap = pkt[b].snap
        /\ b = c => pkt'[b].pc = "resolve" /\ pkt[b].kind # "decap"
    <3>1. CASE b = c
      BY Zenon, <3>1, <1>1, <1>4 DEF Promised, Flying
    <3>2. CASE b # c
      BY Zenon, <3>2, <1>3 DEF Promised, Flying
    <3> QED BY Zenon, <3>1, <3>2
  <2>2. ASSUME pkt'[b].flow \notin primed', NEW d \in CPUs, Recording(d)'
        PROVE  pkt'[d].snap.state # "PRIMING"
    BY Zenon, <1>2, <1>5, <2>1, <2>2 DEF PrimedInv, Guarded
  <2>3. ASSUME ~lost', pkt'[b].flow \in primed'
        PROVE  ~lost /\ pkt[b].flow \in primed
    <3>1. pkt[b].snap.state = "DRAINING"
      BY Zenon, <2>1 DEF Promised
    <3>2. ASSUME pkt[b].flow \notin primed PROVE FALSE
      <4>1. pkt[c].snap.state = "PRIMING"
        BY Zenon, <1>2, <2>1, <2>3, <3>2
      <4> QED BY Zenon, <1>1, <2>1, <3>2, <4>1 DEF PrimedInv, Guarded
    <3> QED BY Zenon, <1>2, <2>3, <3>2
  <2>4. ASSUME ~lost', pkt'[b].flow \in primed', Recording(b)'
        PROVE  Current(pkt[b].flow)'
    <3>1. PICK g \in Flows : g = pkt[b].flow
      BY Zenon, <1>1, <2>3, <2>4
    <3>2. Current(g)
      BY Zenon, <1>5, <2>1, <2>3, <2>4, <3>1 DEF PrimedInv, Guarded
    <3>3. Current(g)'
      BY Zenon, <3>2, TouchKeeps
    <3> QED BY Zenon, <2>1, <3>1, <3>3 DEF Current
  <2>5. ASSUME ~lost', pkt'[b].flow \in primed'
        PROVE  pkt'[b].pc = "touch" => pkt'[b].fa # EpochMod
    BY Zenon, <1>3, <2>1, <2>3, <2>5 DEF PrimedInv, Guarded
  <2>6. ASSUME ~lost', pkt'[b].flow \in primed', Resolving(b)'
        PROVE  Pinned(b)'
    <3>1. CASE b = c
      BY Zenon, <2>1, <2>3, <2>6, <3>1, TouchPins
    <3>2. CASE b # c
      <4>1. pkt'[b] = pkt[b] /\ Resolving(b)
        BY Zenon, <1>3, <2>6, <3>2 DEF Resolving
      <4>2. Pinned(b)
        BY ZenonT(30), <2>1, <2>3, <2>6, <4>1 DEF PrimedInv, Guarded
      <4> QED BY Zenon, <4>1, <4>2 DEF Pinned
    <3> QED BY Zenon, <3>1, <3>2
  <2> QED BY Zenon, <2>2, <2>4, <2>5, <2>6 DEF Guarded
<1> QED BY Zenon, <1>6, <1>7, <1>8 DEF PrimedInv

\* A step of a packet program that leaves the table alone keeps PrimedInv when
\* it keeps what that packet is promised: while one of a draining flow is in
\* flight, no PRIMING begins.
LEMMA PrimedFrame ==
    ASSUME TypeOK, SnapInv, PrimedInv, UNCHANGED <<ctrl, op, aff, lost, primed>>,
           NEW c \in CPUs, pkt' = [pkt EXCEPT ![c] = pkt'[c]],
           /\ Recording(c)' /\ pkt'[c].snap.state = "PRIMING"
              => ctrl.state = "PRIMING" \/ (Recording(c) /\ pkt[c].snap.state = "PRIMING"),
           Held(c)',
           Promised(c)' /\ pkt'[c].flow \notin primed => Promised(c) /\ pkt'[c].flow = pkt[c].flow,
           Promised(c)' /\ ~lost /\ pkt'[c].flow \in primed =>
             /\ Recording(c)' => Current(pkt[c].flow)'
             /\ pkt'[c].pc = "touch" => pkt'[c].fa # EpochMod
             /\ Resolving(c)' => Pinned(c)'
    PROVE  PrimedInv'
<1>1. \A b \in CPUs : b # c => pkt'[b] = pkt[b]
  BY Zenon, TypeParts
<1>2. Kept'
  BY Zenon DEF PrimedInv, Kept, Collecting, Current
<1>3. ASSUME NEW b \in CPUs, b # c PROVE Held(b)'
  BY ZenonT(30), <1>1, <1>3 DEF PrimedInv, Held
<1>4. ASSUME NEW b \in CPUs, Promised(b), pkt[b].flow \notin primed,
             NEW d \in CPUs, Recording(d)'
      PROVE  pkt'[d].snap.state # "PRIMING"
  <2>1. ctrl.state # "PRIMING"
    BY Zenon, <1>4 DEF SnapInv, SnapGood, Promised
  <2>2. \A x \in CPUs : Recording(x) => pkt[x].snap.state # "PRIMING"
    BY Zenon, <1>4 DEF PrimedInv, Guarded
  <2>3. CASE d = c
    BY ZenonT(30), <1>4, <2>1, <2>2, <2>3
  <2>4. CASE d # c
    BY Zenon, <1>1, <1>4, <2>2, <2>4 DEF Recording
  <2> QED BY Zenon, <2>3, <2>4
<1>5. ASSUME NEW b \in CPUs, b # c PROVE Guarded(b)'
  <2>1. /\ pkt'[b] = pkt[b] /\ Promised(b)' = Promised(b) /\ Recording(b)' = Recording(b)
        /\ Resolving(b)' = Resolving(b) /\ Pinned(b)' = Pinned(b)
    BY Zenon, <1>1, <1>5 DEF Promised, Flying, Recording, Resolving, Pinned
  <2>2. Current(pkt[b].flow)' = Current(pkt[b].flow) /\ Guarded(b)
    BY Zenon, <2>1 DEF PrimedInv, Current
  <2> QED BY Zenon, <1>4, <2>1, <2>2 DEF Guarded
<1>6. Guarded(c)'
  BY Zenon, <1>4 DEF Guarded
<1> QED BY Zenon, <1>2, <1>3, <1>5, <1>6 DEF PrimedInv

\* The programs' other steps, which only read the table, keep PrimedInv.
LEMMA PrimedPacket ==
    ASSUME TypeOK, FlowOfPacket, SlotInv, SnapInv, PrimedInv, PacketNext
    PROVE  PrimedInv'
<1>1. PICK c \in CPUs :
        \/ \E f \in Flows : Encap(c, f) \/ Decap(c, f)
        \/ \E e \in Endpoints : PacketTooBig(c, e)
        \/ Lookup(c) \/ Touch(c) \/ Resolve(c) \/ Send(c) \/ Learn(c)
  BY DEF PacketNext
<1>g. pkt \in [CPUs -> Packets] /\ pkt[c] \in Packets /\ Guarded(c) /\ Kept
  BY Zenon, TypeParts DEF PrimedInv
<1>s. pkt' = [pkt EXCEPT ![c] = pkt'[c]]
  BY Zenon, <1>1, SnapOwn
<1>u. ASSUME ~Touch(c) PROVE UNCHANGED <<ctrl, op, aff, lost, primed>>
  BY Zenon, <1>1, <1>u DEF Encap, Decap, PacketTooBig, Lookup, Resolve, Send, Learn, swvars, affvars
<1>v. ASSUME ~Touch(c), ~Promised(c)', pkt'[c].pc # "touch",
             pkt'[c].pc = "lookup" => pkt'[c].snap = ctrl
      PROVE  PrimedInv'
  <2>1. Held(c)'
    BY Zenon, <1>v DEF Held
  <2>2. Recording(c)' /\ pkt'[c].snap.state = "PRIMING" => ctrl.state = "PRIMING"
    BY Zenon, <1>v DEF Recording
  <2> QED BY ZenonT(30), <1>s, <1>u, <1>v, <2>1, <2>2, PrimedFrame
<1>n. ASSUME ~Touch(c), pkt'[c] = NoPkt PROVE PrimedInv'
  <2>1. pkt'[c].pc = "idle"
    BY <1>n DEF NoPkt
  <2>2. ~Promised(c)'
    BY Zenon, <2>1 DEF Promised, Flying
  <2> QED BY Zenon, <1>n, <1>v, <2>1, <2>2
<1>2. ASSUME NEW f \in Flows, Encap(c, f) PROVE PrimedInv'
  <2>1. /\ pkt'[c].pc = IF ctrl.state = "STEADY" THEN "resolve" ELSE "lookup"
        /\ pkt'[c].snap = ctrl /\ pkt'[c].flow = f /\ pkt'[c].known = (f \in primed)
        /\ pkt[c].pc = "idle" /\ ~Touch(c)
    BY Zenon, <1>2, <1>g DEF Encap, NoPkt, PktMayStart, Touch
  <2>2. CASE ~Promised(c)'
    BY Zenon, <1>v, <2>1, <2>2
  <2>3. CASE Promised(c)'
    <3>1. f \in primed /\ ctrl.state = "DRAINING" /\ pkt'[c].pc = "lookup"
      BY Zenon, <2>1, <2>3 DEF Promised
    <3>2. ~lost => Current(pkt[c].flow)'
      BY Zenon, <1>g, <1>u, <2>1, <3>1 DEF Kept, Current
    <3>3. Held(c)' /\ ~Resolving(c)'
      BY Zenon, <3>1 DEF Held, Resolving
    <3>4. pkt'[c].snap.state # "PRIMING" /\ pkt'[c].flow \in primed /\ pkt'[c].pc # "touch"
      BY Zenon, <2>1, <3>1
    <3> QED BY ZenonT(30), <1>s, <1>u, <2>1, <3>2, <3>3, <3>4, PrimedFrame
  <2> QED BY Zenon, <2>2, <2>3
<1>3. ASSUME NEW f \in Flows, Decap(c, f) PROVE PrimedInv'
  <2>1. pkt'[c].pc = "lookup" /\ pkt'[c].snap = ctrl /\ ~pkt'[c].known /\ ~Touch(c)
    BY Zenon, <1>3, <1>g DEF Decap, NoPkt, PktMayStart, Touch
  <2>2. ~Promised(c)'
    BY Zenon, <2>1 DEF Promised
  <2> QED BY Zenon, <1>v, <2>1, <2>2
<1>4. ASSUME NEW e \in Endpoints, PacketTooBig(c, e) PROVE PrimedInv'
  <2>1. pkt'[c].pc = "learn" /\ pkt'[c].kind = "ptb" /\ ~Touch(c)
    BY Zenon, <1>4, <1>g DEF PacketTooBig, NoPkt, PktMayStart, Touch
  <2>2. ~Promised(c)'
    BY Zenon, <2>1 DEF Promised, Flying
  <2> QED BY Zenon, <1>v, <2>1, <2>2
<1>5. CASE Lookup(c)
  <2>1. /\ pkt[c].pc = "lookup" /\ pkt'[c].pc = "touch" /\ pkt'[c].flow = pkt[c].flow
        /\ pkt'[c].kind = pkt[c].kind /\ pkt'[c].snap = pkt[c].snap
        /\ pkt'[c].known = pkt[c].known /\ pkt'[c].fa = aff[pkt[c].flow].epoch /\ ~Touch(c)
    BY Zenon, <1>5, <1>g DEF Lookup, Packets, Touch
  <2>2. /\ Recording(c) /\ ~Resolving(c)' /\ Promised(c)' = Promised(c)
        /\ pkt[c].flow \in Flows
    BY Zenon, <2>1 DEF Recording, Resolving, Promised, Flying, FlowOfPacket
  <2>3. Held(c)'
    <3>1. Absent.epoch = EpochMod
      BY Zenon DEF Absent
    <3> QED BY Zenon, <1>u, <2>1, <3>1 DEF Held
  <2>4. ASSUME Promised(c), ~lost, pkt[c].flow \in primed
        PROVE  Current(pkt[c].flow) /\ pkt'[c].fa # EpochMod
    <3>1. Current(pkt[c].flow) /\ ctrl.epoch # EpochMod
      BY SMTT(30), <1>g, <2>2, <2>4, ConstantsAssumption DEF Guarded, TypeOK, Words, Epochs
    <3> QED BY Zenon, <2>1, <3>1 DEF Current
  <2>5. Current(pkt[c].flow)' = Current(pkt[c].flow)
    BY Zenon, <1>u, <2>1 DEF Current
  <2> QED BY ZenonT(30), <1>s, <1>u, <2>1, <2>2, <2>3, <2>4, <2>5, PrimedFrame
<1>6. CASE Touch(c)
  BY Zenon, <1>6, PrimedTouch
<1>7. CASE Resolve(c)
  <2>t. ~Touch(c) /\ pkt[c].pc = "resolve"
    BY Zenon, <1>7 DEF Resolve, Touch
  <2>1. CASE ~nh[pkt[c].slot].valid
    BY SMTT(30), <1>7, <2>t, <2>1, <1>g, <1>n DEF Resolve
  <2>2. CASE nh[pkt[c].slot].valid
    <3>1. /\ pkt'[c].pc = "send" /\ pkt'[c].flow = pkt[c].flow /\ pkt'[c].kind = pkt[c].kind
          /\ pkt'[c].snap = pkt[c].snap /\ pkt'[c].slot = pkt[c].slot
          /\ pkt'[c].known = pkt[c].known
      BY Zenon, <1>7, <2>2, <1>g DEF Resolve, Packets
    <3>2. /\ Held(c)' /\ ~Recording(c)' /\ Promised(c)' = Promised(c)
          /\ Resolving(c)' = Resolving(c) /\ Pinned(c)' = Pinned(c)
      BY Zenon, <2>t, <3>1 DEF Held, Recording, Promised, Flying, Resolving, Pinned
    <3>3. Promised(c) /\ ~lost /\ pkt[c].flow \in primed => (Resolving(c) => Pinned(c))
      BY Zenon, <1>g DEF Guarded
    <3> QED BY Zenon, <1>s, <1>u, <2>t, <3>1, <3>2, <3>3, PrimedFrame
  <2> QED BY Zenon, <2>1, <2>2
<1>8. CASE Send(c) \/ Learn(c)
  <2>1. pkt'[c] = NoPkt /\ ~Touch(c)
    BY Zenon, <1>8, <1>g DEF Send, Learn, Touch
  <2> QED BY Zenon, <2>1, <1>n
<1> QED BY SMTT(30), <1>1, <1>2, <1>3, <1>4, <1>5, <1>6, <1>7, <1>8

\* A flow falling idle keeps its epoch, and a path MTU is none of its business.
LEMMA PrimedTime ==
    ASSUME TypeOK, PrimedInv, UNCHANGED <<ctrl, op, pkt, lost, primed>>,
           FlowOfPacket, \A f \in Flows : aff'[f].epoch = aff[f].epoch,
           \A f \in Flows : aff[f] # Absent => aff'[f] # Absent
    PROVE  PrimedInv'
<1>1. \A f \in Flows : Current(f)' = Current(f)
  BY Zenon DEF Current
<1>2. Kept'
  BY Zenon, <1>1, TypeParts DEF PrimedInv, Kept, Collecting
<1>3. ASSUME NEW c \in CPUs PROVE Held(c)'
  BY Zenon DEF PrimedInv, Held, FlowOfPacket
<1>4. ASSUME NEW c \in CPUs PROVE Guarded(c)'
  <2>1. /\ Promised(c)' = Promised(c) /\ Resolving(c)' = Resolving(c) /\ Pinned(c)' = Pinned(c)
        /\ \A d \in CPUs : Recording(d)' = Recording(d)
    BY Zenon DEF Promised, Flying, Recording, Resolving, Pinned
  <2>2. Recording(c) => Current(pkt[c].flow)' = Current(pkt[c].flow)
    BY Zenon DEF Recording, FlowOfPacket, Current
  <2>3. Guarded(c)
    BY Zenon DEF PrimedInv
  <2> QED BY Zenon, <2>1, <2>2, <2>3 DEF Guarded
<1> QED BY Zenon, <1>2, <1>3, <1>4 DEF PrimedInv

\* Every step keeps PrimedInv.
LEMMA PrimedStep ==
    ASSUME "gc-priming" \notin Ops, TypeOK, FlowOfPacket, SlotInv, SnapInv, GCInv, PrimedInv,
           [Next]_vars
    PROVE  PrimedInv'
<1>1. CASE LoaderNext
  BY Zenon, <1>1, PrimedLoader
<1>2. CASE PacketNext
  BY Zenon, <1>2, PrimedPacket
<1>3. ASSUME NEW f \in Flows, FlowFallsIdle(f) PROVE PrimedInv'
  <2>1. /\ UNCHANGED <<ctrl, op, pkt, lost, primed>> /\ aff' = [aff EXCEPT ![f].idle = TRUE]
        /\ aff \in [Flows -> Entries]
    BY Zenon, <1>3, TypeParts DEF FlowFallsIdle, swvars
  <2>2. aff'[f].idle /\ ~Absent.idle
    BY Zenon, <2>1 DEF Absent, Entries
  <2>3. \A g \in Flows : aff'[g].epoch = aff[g].epoch
    BY Zenon, <2>1 DEF Entries
  <2>4. \A g \in Flows : aff[g] # Absent => aff'[g] # Absent
    BY Zenon, <2>1, <2>2
  <2> QED BY Zenon, <2>1, <2>3, <2>4, PrimedTime
<1>4. ASSUME UNCHANGED <<ctrl, op, pkt, lost, primed, aff>> PROVE PrimedInv'
  BY Zenon, <1>4, PrimedTime
<1>5. \A s \in Slots : PmtuExpires(s) => UNCHANGED <<ctrl, op, pkt, lost, primed, aff>>
  BY Zenon DEF PmtuExpires, affvars
<1>6. UNCHANGED vars => UNCHANGED <<ctrl, op, pkt, lost, primed, aff>>
  BY Zenon DEF vars
<1> QED BY Zenon, <1>1, <1>2, <1>3, <1>4, <1>5, <1>6 DEF Next, TimeNext

\* While a migration is on and no insert into the flow table has failed, every
\* flow touch_flow_affinity has seen since PRIMING began carries the epoch in
\* force unless a drain found it idle, so pick_softwire_slot keeps a packet
\* arriving while DRAINING, of a flow known by then, on the old AFTR: for any
\* number of CPUs, flows and endpoints and any interleaving, when nothing
\* collects the table before the cutover.
THEOREM PrimedStayOnOld ==
    ASSUME "gc-priming" \notin Ops
    PROVE  Spec => []PrimedFlowsKept
<1>1. Init => PrimedInv
  <2>1. Init => op.pc = "idle" /\ primed = {}
    BY SMTT(30) DEF Init, Idle
  <2>2. Init => \A c \in CPUs : pkt[c].pc = "idle"
    BY DEF Init, NoPkt
  <2>3. Init => Kept
    BY Zenon, <2>1 DEF Kept, Collecting
  <2>4. Init => \A c \in CPUs : Held(c) /\ Guarded(c)
    BY Zenon, <2>2 DEF Held, Guarded, Promised, Flying
  <2> QED BY Zenon, <2>3, <2>4 DEF PrimedInv
<1>2. TypeOK /\ FlowOfPacket /\ SlotInv /\ SnapInv /\ GCInv /\ PrimedInv /\ [Next]_vars
        => PrimedInv'
  BY Zenon, PrimedStep
<1>3. PrimedInv => PrimedFlowsKept
  <2> SUFFICES ASSUME PrimedInv, ~lost PROVE PrimedFlowsKept
    BY Zenon DEF PrimedFlowsKept
  <2>1. ASSUME NEW c \in CPUs, Resolving(c), pkt[c].snap.state = "DRAINING",
               pkt[c].known, pkt[c].flow \in primed
        PROVE  Pinned(c)
    <3>1. Promised(c)
      BY Zenon, <2>1 DEF Promised, Flying, Resolving
    <3> QED BY Zenon, <2>1, <3>1 DEF PrimedInv, Guarded
  <2> QED BY Zenon, <2>1 DEF PrimedFlowsKept, PrimedInv, Kept
<1> QED BY <1>1, <1>2, <1>3, TypeCorrect, FlowsKnown, PTL DEF Spec
-----------------------------------------------------------------------------
(* Each call leaves the datapath in an outcome that LoaderOps lists.       *)

\* The datapath is dp; it is dp but for the slot t, which is being written.
Agrees(dp) ==
    /\ ctrl.active = dp.active /\ ctrl.old = dp.old /\ ctrl.state = dp.state
    /\ \A s \in Slots : SlotEndpoint(s) = dp.nh[s]
AgreesBut(dp, t) ==
    /\ ctrl.active = dp.active /\ ctrl.old = dp.old /\ ctrl.state = dp.state
    /\ \A s \in Slots \ {t} : SlotEndpoint(s) = dp.nh[s]

\* The datapath once a migration in progress in dp has ended: writeNextHop
\* starts from it.
Left(dp) == L!Steady(dp, dp.active)
Ended(dp) ==
    IF dp.state = "STEADY" THEN dp
    ELSE [Left(dp) EXCEPT !.nh[Other(dp.active)] = NoEndpoint]

\* What the call in progress found when it began.
Found ==
    op.pc # "idle" =>
        /\ op.from \in L!Datapaths
        /\ op.from.state = "DRAINING" => op.from.old = Other(op.from.active)
        /\ op.name = "begin" => op.from.state = "STEADY"
        /\ op.name \in {"cutover", "abort"} => op.from.state = "PRIMING"
        /\ op.name = "complete" => op.from.state = "DRAINING"
        /\ op.name = "gc" <=> op.pc \in {"walk", "delete"}
        /\ op.pc \in {"retire", "zhead", "ztail", "forget"} => op.from.state # "STEADY"

\* How far it has come, at each of its map updates.
Reached ==
    /\ op.pc = "retire" \/ op.name \in {"cutover", "gc"} => Agrees(op.from)
    /\ op.pc \in {"claim", "head"} => Agrees(Ended(op.from))
    /\ op.pc \in {"tail", "flip"} /\ op.name # "cutover" =>
         AgreesBut(Ended(op.from), op.slot)
    /\ op.pc = "zhead" => Agrees(Left(op.from))
    /\ op.pc = "ztail" => AgreesBut(Left(op.from), op.slot) /\ ~nh[op.slot].valid
    /\ op.pc = "forget" => Agrees(Ended(op.from))

\* The old slot in the word it is about to store.
OldSlot ==
    /\ op.pc \in {"claim", "head", "tail", "flip"} /\ op.name = "begin" =>
         op.word.old = ctrl.active
    /\ op.pc \in {"claim", "head", "tail", "flip"} /\ op.name = "switch" =>
         op.word.old = op.slot
    /\ op.pc = "retire" => op.word.old = ctrl.active

CallInv == Found /\ Reached /\ OldSlot

\* A slot that a step leaves alone has the endpoint it had.
LEMMA EndpointFrame ==
    ASSUME NEW s \in Slots, nh'[s] = nh[s]
    PROVE  SlotEndpoint(s)' = SlotEndpoint(s)
  BY Zenon DEF SlotEndpoint

\* The endpoint of a whole slot, and of an invalid one.
LEMMA EndpointValue ==
    ASSUME NEW s \in Slots
    PROVE  /\ \A e \in Endpoints : nh[s] = Whole(e) => SlotEndpoint(s) = e
           /\ ~nh[s].valid => SlotEndpoint(s) = NoEndpoint
<1>w. \A e \in Endpoints : Whole(e).valid /\ Whole(e).aftr = e
  BY DEF Whole
<1>1. ASSUME NEW e \in Endpoints, nh[s] = Whole(e) PROVE SlotEndpoint(s) = e
  BY Zenon, <1>1, <1>w DEF SlotEndpoint
<1>2. ASSUME ~nh[s].valid PROVE SlotEndpoint(s) = NoEndpoint
  BY Zenon, <1>2, <1>w DEF SlotEndpoint
<1> QED BY <1>1, <1>2

\* The endpoint of a slot that a step leaves invalid.
LEMMA EmptyAfter ==
    ASSUME NEW s \in Slots, ~nh'[s].valid
    PROVE  SlotEndpoint(s)' = NoEndpoint
<1>1. \A e \in Endpoints : Whole(e).valid
  BY DEF Whole
<1> QED BY Zenon, <1>1 DEF SlotEndpoint

\* A call begins with the datapath as it is.
LEMMA AgreesStart ==
    ASSUME UNCHANGED <<ctrl, nh>>, op'.from = DP
    PROVE  Agrees(op.from)'
<1>1. \A s \in Slots : SlotEndpoint(s)' = SlotEndpoint(s)
  BY Zenon, EndpointFrame
<1>2. \A s \in Slots : DP.nh[s] = SlotEndpoint(s)
  BY DEF DP
<1>3. DP.active = ctrl.active /\ DP.old = ctrl.old /\ DP.state = ctrl.state
  BY DEF DP
<1> QED BY <1>1, <1>2, <1>3 DEF Agrees

\* A state that agrees with a datapath of LoaderOps is that datapath.
LEMMA AgreesEquals ==
    ASSUME NEW dp \in L!Datapaths, Agrees(dp)
    PROVE  DP = dp
<1>1. dp.nh = [s \in Slots |-> dp.nh[s]]
  BY DEF L!Datapaths, L!Slots, Slots
<1>2. dp.nh = [s \in Slots |-> SlotEndpoint(s)]
  BY <1>1 DEF Agrees
<1>3. dp = [active |-> dp.active, old |-> dp.old, state |-> dp.state, nh |-> dp.nh]
  BY DEF L!Datapaths
<1> QED BY <1>2, <1>3 DEF Agrees, DP

\* The fields of a datapath that has left its migration, and of one that ended it.
LEMMA LeftParts ==
    ASSUME NEW dp \in L!Datapaths
    PROVE  /\ Left(dp) \in L!Datapaths
           /\ Left(dp).active = dp.active /\ Left(dp).old = dp.active
           /\ Left(dp).state = "STEADY" /\ Left(dp).nh = dp.nh
  BY ZenonT(30) DEF Left, L!Steady, L!Datapaths, L!Slots
LEMMA EndedParts ==
    ASSUME NEW dp \in L!Datapaths
    PROVE  /\ Ended(dp) \in L!Datapaths
           /\ Ended(dp).active = dp.active /\ Ended(dp).state = "STEADY"
           /\ dp.state = "STEADY" => Ended(dp) = dp
           /\ dp.state # "STEADY" =>
                /\ Ended(dp).old = dp.active
                /\ Ended(dp).nh[Other(dp.active)] = NoEndpoint
                /\ Ended(dp).nh[dp.active] = dp.nh[dp.active]
<1> DEFINE t == Other(dp.active)
<1>1. t \in L!Slots /\ t # dp.active /\ dp.active \in L!Slots
  BY OtherType DEF L!Datapaths, L!Slots, Slots
<1>2. CASE dp.state = "STEADY"
  BY <1>2 DEF Ended
<1>3. CASE dp.state # "STEADY"
  <2>1. Ended(dp) = [Left(dp) EXCEPT !.nh = [dp.nh EXCEPT ![t] = NoEndpoint]]
    BY ZenonT(30), <1>3, LeftParts DEF Ended, Left, L!Steady, L!Datapaths
  <2>2. [dp.nh EXCEPT ![t] = NoEndpoint] \in [L!Slots -> Endpoints \cup {NoEndpoint}]
    BY <1>1 DEF L!Datapaths
  <2> QED BY SMTT(30), <1>1, <1>3, <2>1, <2>2, LeftParts DEF L!Datapaths
<1> QED BY <1>2, <1>3

\* No call is in progress once one has returned.
LEMMA CallReturn ==
    ASSUME op' = Idle
    PROVE  CallInv'
<1>1. op'.pc = "idle" /\ op'.name = "none"
  BY DEF Idle
<1> QED BY Zenon, <1>1 DEF CallInv, Found, Reached, OldSlot

\* CallInv reads the control word, the slots and the operation.
LEMMA CallFrame ==
    ASSUME CallInv, UNCHANGED <<ctrl, nh, op>>
    PROVE  CallInv'
<1>1. Found' /\ OldSlot'
  BY Zenon DEF CallInv, Found, OldSlot
<1>2. \A s \in Slots : SlotEndpoint(s)' = SlotEndpoint(s)
  BY Zenon, EndpointFrame
<1>3. Reached'
  BY Zenon, <1>2 DEF CallInv, Reached, Agrees, AgreesBut
<1> QED BY Zenon, <1>1, <1>3 DEF CallInv

\* What a call that begins has found.
LEMMA CallFound ==
    ASSUME TypeOK, SlotInv, UNCHANGED <<ctrl, nh>>, op'.from = DP
    PROVE  /\ op'.from \in L!Datapaths
           /\ op'.from.state = ctrl.state /\ op'.from.active = ctrl.active
           /\ op'.from.state = "DRAINING" => op'.from.old = Other(op'.from.active)
           /\ Agrees(op.from)'
           /\ ctrl.state = "STEADY" => Agrees(Ended(op.from))'
<1>1. op'.from \in L!Datapaths
  BY SMTT(30), DPType
<1>2. DP.active = ctrl.active /\ DP.old = ctrl.old /\ DP.state = ctrl.state
  BY DEF DP
<1>3. op'.from.state = "DRAINING" => op'.from.old = Other(op'.from.active)
  BY <1>2 DEF SlotInv
<1>4. Agrees(op.from)'
  BY AgreesStart
<1>5. ASSUME ctrl.state = "STEADY" PROVE Agrees(Ended(op.from))'
  <2>1. Ended(op'.from) = op'.from
    BY <1>1, <1>2, <1>5, EndedParts
  <2> QED BY SMTT(30), <1>4, <2>1
<1> QED BY Zenon, <1>1, <1>2, <1>3, <1>4, <1>5

\* A call begins as CallInv says.
LEMMA CallStart ==
    ASSUME TypeOK, SlotInv,
           \/ \E e \in Endpoints : BeginMigration(e) \/ SwitchAFTR(e)
           \/ Cutover \/ CompleteMigration \/ AbortMigration \/ GCFlowAffinity
    PROVE  CallInv'
<1>f. ASSUME UNCHANGED <<ctrl, nh>>, op'.from = DP
      PROVE  /\ op'.from \in L!Datapaths
             /\ op'.from.state = ctrl.state /\ op'.from.active = ctrl.active
             /\ op'.from.state = "DRAINING" => op'.from.old = Other(op'.from.active)
             /\ Agrees(op.from)'
             /\ ctrl.state = "STEADY" => Agrees(Ended(op.from))'
  BY Zenon, <1>f, CallFound
<1>1. ASSUME NEW e \in Endpoints, BeginMigration(e) PROVE CallInv'
  <2>1. /\ op'.name = "begin" /\ op'.pc = "claim" /\ op'.from = DP
        /\ op'.word.old = ctrl.active /\ ctrl.state = "STEADY"
    BY ZenonT(30), <1>1 DEF BeginMigration, Call, Idle, PrimingWord
  <2>2. UNCHANGED <<ctrl, nh>>
    BY Zenon, <1>1 DEF BeginMigration, swvars
  <2> QED BY Zenon, <1>f, <2>1, <2>2 DEF CallInv, Found, Reached, OldSlot
<1>2. ASSUME NEW e \in Endpoints, SwitchAFTR(e) PROVE CallInv'
  <2>2. UNCHANGED <<ctrl, nh>>
    BY Zenon, <1>2 DEF SwitchAFTR, swvars
  <2>3. CASE ctrl.state = "STEADY"
    <3>1. /\ op'.name = "switch" /\ op'.pc = "claim" /\ op'.from = DP
          /\ op'.word.old = op'.slot
      BY ZenonT(30), <1>2, <2>3 DEF SwitchAFTR, SwitchWrite, Call, Idle, SteadyWord
    <3> QED BY Zenon, <1>f, <2>2, <2>3, <3>1 DEF CallInv, Found, Reached, OldSlot
  <2>4. CASE ctrl.state # "STEADY"
    <3>1. /\ op'.name = "switch" /\ op'.pc = "retire" /\ op'.from = DP
          /\ op'.word.old = ctrl.active
      BY ZenonT(30), <1>2, <2>4 DEF SwitchAFTR, SwitchWrite, Call, Idle, SteadyWord
    <3> QED BY Zenon, <1>f, <2>2, <2>4, <3>1 DEF CallInv, Found, Reached, OldSlot
  <2> QED BY Zenon, <2>3, <2>4
<1>3. CASE Cutover
  <2>1. /\ op'.name = "cutover" /\ op'.pc = "flip" /\ op'.from = DP
        /\ ctrl.state = "PRIMING"
    BY <1>3 DEF Cutover, Call, Idle
  <2>2. UNCHANGED <<ctrl, nh>>
    BY Zenon, <1>3 DEF Cutover, swvars
  <2> QED BY Zenon, <1>f, <2>1, <2>2 DEF CallInv, Found, Reached, OldSlot
<1>4. CASE CompleteMigration
  <2>1. /\ op'.name = "complete" /\ op'.pc = "retire" /\ op'.from = DP
        /\ ctrl.state = "DRAINING" /\ op'.word.old = ctrl.active
    BY <1>4 DEF CompleteMigration, Call, Idle, SteadyWord
  <2>2. UNCHANGED <<ctrl, nh>>
    BY Zenon, <1>4 DEF CompleteMigration, swvars
  <2> QED BY Zenon, <1>f, <2>1, <2>2 DEF CallInv, Found, Reached, OldSlot
<1>5. CASE AbortMigration
  <2>1. /\ op'.name = "abort" /\ op'.pc = "retire" /\ op'.from = DP
        /\ ctrl.state = "PRIMING" /\ op'.word.old = ctrl.active
    BY <1>5 DEF AbortMigration, Call, Idle, SteadyWord
  <2>2. UNCHANGED <<ctrl, nh>>
    BY Zenon, <1>5 DEF AbortMigration, swvars
  <2> QED BY Zenon, <1>f, <2>1, <2>2 DEF CallInv, Found, Reached, OldSlot
<1>6. CASE GCFlowAffinity
  <2>1. op'.name = "gc" /\ op'.pc = "walk" /\ op'.from = DP
    BY <1>6 DEF GCFlowAffinity, Call, Idle
  <2>2. UNCHANGED <<ctrl, nh>>
    BY Zenon, <1>6 DEF GCFlowAffinity, swvars
  <2> QED BY Zenon, <1>f, <2>1, <2>2 DEF CallInv, Found, Reached, OldSlot
<1> QED BY Zenon, <1>1, <1>2, <1>3, <1>4, <1>5, <1>6

\* Both halves of a Put change the slot being written only.
LEMMA PutFrame ==
    ASSUME TypeOK, PutHead \/ PutTail
    PROVE  /\ ctrl' = ctrl /\ op'.name = op.name /\ op'.from = op.from
           /\ op'.slot = op.slot /\ op'.ep = op.ep /\ op'.word = op.word
           /\ \A s \in Slots \ {op.slot} : SlotEndpoint(s)' = SlotEndpoint(s)
<1>o. op \in Operations /\ nh \in [Slots -> NextHops]
  BY Zenon DEF TypeOK
<1>1. CASE PutHead
  <2>1. /\ ctrl' = ctrl /\ op'.name = op.name /\ op'.from = op.from
        /\ op'.slot = op.slot /\ op'.ep = op.ep /\ op'.word = op.word
    BY <1>o, <1>1 DEF PutHead, Operations
  <2>2. \A s \in Slots \ {op.slot} : nh'[s] = nh[s]
    BY SMTT(30), <1>o, <1>1 DEF PutHead
  <2> QED BY Zenon, <2>1, <2>2, EndpointFrame
<1>2. CASE PutTail
  <2>1. /\ ctrl' = ctrl /\ op'.name = op.name /\ op'.from = op.from
        /\ op'.slot = op.slot /\ op'.ep = op.ep /\ op'.word = op.word
    BY <1>o, <1>2 DEF PutTail, Operations
  <2>2. \A s \in Slots \ {op.slot} : nh'[s] = nh[s]
    BY <1>o, <1>2 DEF PutTail
  <2> QED BY Zenon, <2>1, <2>2, EndpointFrame
<1> QED BY Zenon, <1>1, <1>2

\* The first half of a Put: the slot written agrees with nothing yet.
LEMMA CallPutHead ==
    ASSUME TypeOK, SlotInv, CallInv, PutHead
    PROVE  CallInv'
<1>o. op \in Operations /\ nh \in [Slots -> NextHops] /\ op.slot \in Slots
  BY Zenon DEF TypeOK, Operations
<1>f. /\ ctrl' = ctrl /\ op'.name = op.name /\ op'.from = op.from
      /\ op'.slot = op.slot /\ op'.word = op.word
      /\ \A s \in Slots \ {op.slot} : SlotEndpoint(s)' = SlotEndpoint(s)
  BY Zenon, PutFrame
<1>1. CASE op.pc = "head"
  <2>1. op'.pc = "tail"
    BY <1>o, <1>1 DEF PutHead, Operations
  <2>2. Found' /\ OldSlot'
    BY Zenon, <1>f, <1>1, <2>1 DEF CallInv, Found, OldSlot
  <2>3. AgreesBut(Ended(op.from), op.slot)'
    BY Zenon, <1>f, <1>1 DEF CallInv, Reached, Agrees, AgreesBut
  <2>4. op.name \notin {"cutover", "gc"}
    BY Zenon, <1>1 DEF CallInv, Found, SlotInv, CuttingOver
  <2> QED BY Zenon, <1>f, <2>1, <2>2, <2>3, <2>4 DEF CallInv, Reached
<1>2. CASE op.pc = "zhead"
  <2>h. nh'[op.slot].valid = FALSE
    BY Zenon, <1>o, <1>2 DEF PutHead, NextHops
  <2>1. op'.pc = "ztail" /\ ~nh'[op.slot].valid
    BY <1>o, <1>2, <2>h DEF PutHead, Operations
  <2>2. Found' /\ OldSlot'
    BY Zenon, <1>f, <1>2, <2>1 DEF CallInv, Found, OldSlot
  <2>3. AgreesBut(Left(op.from), op.slot)'
    BY Zenon, <1>f, <1>2 DEF CallInv, Reached, Agrees, AgreesBut
  <2>4. op.name \notin {"cutover", "gc"}
    BY Zenon, <1>2 DEF CallInv, Found, SlotInv, CuttingOver
  <2> QED BY Zenon, <1>f, <2>1, <2>2, <2>3, <2>4 DEF CallInv, Reached
<1> QED BY Zenon, <1>1, <1>2 DEF PutHead

\* The second half: a slot written whole waits for the flip, a slot cleared is
\* empty, as after the migration.
LEMMA CallPutTail ==
    ASSUME TypeOK, SlotInv, CallInv, PutTail
    PROVE  CallInv'
<1>o. op \in Operations /\ nh \in [Slots -> NextHops] /\ op.slot \in Slots
  BY Zenon DEF TypeOK, Operations
<1>f. /\ ctrl' = ctrl /\ op'.name = op.name /\ op'.from = op.from
      /\ op'.slot = op.slot /\ op'.word = op.word
      /\ \A s \in Slots \ {op.slot} : SlotEndpoint(s)' = SlotEndpoint(s)
  BY Zenon, PutFrame
<1>1. CASE op.pc = "tail"
  <2>1. op'.pc = "flip"
    BY <1>o, <1>1 DEF PutTail, Operations
  <2>4. op.name \notin {"cutover", "gc"}
    BY Zenon, <1>1 DEF CallInv, Found, SlotInv, CuttingOver
  <2>2. Found' /\ OldSlot'
    BY Zenon, <1>f, <1>1, <2>1 DEF CallInv, Found, OldSlot
  <2>3. AgreesBut(Ended(op.from), op.slot)'
    BY Zenon, <1>f, <1>1, <2>4 DEF CallInv, Reached, AgreesBut
  <2> QED BY Zenon, <1>f, <2>1, <2>2, <2>3, <2>4 DEF CallInv, Reached
<1>2. CASE op.pc = "ztail"
  <2>1. op'.pc = "forget" /\ nh'[op.slot].valid = nh[op.slot].valid
    BY <1>o, <1>2 DEF PutTail, Operations
  <2>2. Found' /\ OldSlot'
    BY Zenon, <1>f, <1>2, <2>1 DEF CallInv, Found, OldSlot
  <2>3. AgreesBut(Left(op.from), op.slot) /\ ~nh[op.slot].valid
    BY Zenon, <1>2 DEF CallInv, Reached
  <2>4. op.name \notin {"cutover", "gc"}
    BY Zenon, <1>2 DEF CallInv, Found, SlotInv, CuttingOver
  <2>5. op.from \in L!Datapaths /\ op.from.state # "STEADY"
    BY Zenon, <1>2 DEF CallInv, Found
  <2>6. op.slot = Other(op.from.active) /\ ctrl.active = op.from.active
    BY Zenon, <1>2, <2>3, <2>5, LeftParts DEF SlotInv, Ending, AgreesBut
  <2>7. ~nh'[op.slot].valid
    BY Zenon, <2>1, <2>3
  <2>8. SlotEndpoint(op.slot)' = NoEndpoint
    BY Zenon, <1>f, <1>o, <2>7, EmptyAfter
  <2>9. Agrees(Ended(op.from))'
    <3>1. \A s \in Slots \ {op.slot} : s = op.from.active
      BY SMTT(30), <2>5, <2>6 DEF Slots, Other, L!Datapaths, L!Slots
    <3>2. \A s \in Slots : SlotEndpoint(s)' = Ended(op.from).nh[s]
      BY SMTT(30), <1>f, <2>3, <2>5, <2>6, <2>8, <3>1, LeftParts, EndedParts DEF AgreesBut
    <3>3. ctrl' = ctrl /\ Ended(op'.from) = Ended(op.from)
      BY Zenon, <1>f
    <3>4. /\ ctrl.active = Ended(op.from).active /\ ctrl.old = Ended(op.from).old
          /\ ctrl.state = Ended(op.from).state
      BY Zenon, <2>3, <2>5, LeftParts, EndedParts DEF AgreesBut
    <3> QED BY Zenon, <3>2, <3>3, <3>4 DEF Agrees
  <2> QED BY Zenon, <1>f, <2>1, <2>2, <2>4, <2>9 DEF CallInv, Reached
<1> QED BY Zenon, <1>1, <1>2 DEF PutTail

\* The migration is left: the control word is STEADY, the slots are untouched.
LEMMA CallRetire ==
    ASSUME TypeOK, SlotInv, CallInv, Retire
    PROVE  CallInv'
<1>o. op \in Operations
  BY Zenon DEF TypeOK
<1>1. /\ op'.pc = "zhead" /\ op'.name = op.name /\ op'.from = op.from
      /\ op.pc = "retire" /\ ctrl' = op.word /\ nh' = nh
  BY <1>o DEF Retire, Operations
<1>2. Found' /\ OldSlot'
  BY Zenon, <1>1 DEF CallInv, Found, OldSlot
<1>3. op.from \in L!Datapaths /\ Agrees(op.from)
  BY Zenon, <1>1 DEF CallInv, Found, Reached
<1>4. ctrl'.active = ctrl.active /\ ctrl'.old = ctrl.active /\ ctrl'.state = "STEADY"
  BY Zenon, <1>1 DEF CallInv, OldSlot, SlotInv, Ending
<1>5. \A s \in Slots : SlotEndpoint(s)' = SlotEndpoint(s)
  BY Zenon, <1>1, EndpointFrame
<1>6. Agrees(Left(op.from))'
  <2>1. Left(op'.from) = Left(op.from)
    BY Zenon, <1>1
  <2>2. \A s \in Slots : SlotEndpoint(s)' = Left(op.from).nh[s]
    BY Zenon, <1>3, <1>5, LeftParts DEF Agrees
  <2>3. /\ ctrl'.active = Left(op.from).active /\ ctrl'.old = Left(op.from).old
        /\ ctrl'.state = Left(op.from).state
    BY Zenon, <1>3, <1>4, LeftParts DEF Agrees
  <2> QED BY Zenon, <2>1, <2>2, <2>3 DEF Agrees
<1>7. op.name \notin {"cutover", "gc"}
  BY Zenon, <1>1 DEF CallInv, Found, SlotInv, CuttingOver
<1> QED BY Zenon, <1>1, <1>2, <1>6, <1>7 DEF CallInv, Reached

\* SwitchAFTR goes on from the migration it has ended.
LEMMA CallForget ==
    ASSUME TypeOK, SlotInv, CallInv, Forget
    PROVE  CallInv'
<1>o. op \in Operations
  BY Zenon DEF TypeOK
<1>1. op.pc = "forget" /\ ctrl' = ctrl /\ nh' = nh
  BY Zenon DEF Forget
<1>2. CASE op.name = "switch"
  <2>1. /\ op'.pc = "claim" /\ op'.name = "switch" /\ op'.from = op.from
        /\ op'.word.old = op'.slot
    <3>1. op' = SwitchWrite(op, op.ep)
      BY Zenon, <1>2 DEF Forget
    <3> QED BY <1>o, <1>2, <3>1 DEF SwitchWrite, SteadyWord, Operations
  <2>2. Found' /\ OldSlot'
    BY Zenon, <1>1, <2>1 DEF CallInv, Found, OldSlot
  <2>3. \A s \in Slots : SlotEndpoint(s)' = SlotEndpoint(s)
    BY Zenon, <1>1, EndpointFrame
  <2>4. Agrees(Ended(op.from))'
    BY Zenon, <1>1, <2>1, <2>3 DEF CallInv, Reached, Agrees
  <2> QED BY Zenon, <2>1, <2>2, <2>4 DEF CallInv, Reached
<1>3. CASE op.name # "switch"
  BY Zenon, <1>3, CallReturn DEF Forget, Return
<1> QED BY Zenon, <1>2, <1>3

\* Claim and the collector's steps leave the control word and the slots alone.
LEMMA CallOther ==
    ASSUME TypeOK, SlotInv, CallInv, Claim \/ \E f \in Flows : Walk(f) \/ Delete(f)
    PROVE  CallInv'
<1>o. op \in Operations
  BY Zenon DEF TypeOK
<1>e. ASSUME nh' = nh, NEW s \in Slots PROVE SlotEndpoint(s)' = SlotEndpoint(s)
  BY Zenon, <1>e, EndpointFrame
<1>1. CASE Claim
  <2>1. CASE SlotIsLive(op.slot)
    BY Zenon, <1>1, <2>1, CallReturn DEF Claim, Return
  <2>2. CASE ~SlotIsLive(op.slot)
    <3>1. /\ op'.pc = "head" /\ op'.name = op.name /\ op'.from = op.from
          /\ op'.slot = op.slot /\ op'.word = op.word
          /\ op.pc = "claim" /\ ctrl' = ctrl /\ nh' = nh
      BY SMTT(30), <1>o, <1>1, <2>2 DEF Claim, Operations
    <3>2. Found' /\ OldSlot'
      BY Zenon, <3>1 DEF CallInv, Found, OldSlot
    <3>3. Agrees(Ended(op.from))'
      BY Zenon, <1>e, <3>1 DEF CallInv, Reached, Agrees
    <3>4. op.name \notin {"cutover", "gc"}
      BY Zenon, <3>1 DEF CallInv, Found, SlotInv, CuttingOver
    <3> QED BY Zenon, <3>1, <3>2, <3>3, <3>4 DEF CallInv, Reached
  <2> QED BY Zenon, <2>1, <2>2
<1>2. ASSUME NEW f \in Flows, Walk(f) \/ Delete(f) PROVE CallInv'
  <2>1. /\ op'.pc \in {"walk", "delete"} /\ op'.name = op.name /\ op'.from = op.from
        /\ op.pc \in {"walk", "delete"} /\ ctrl' = ctrl /\ nh' = nh
    <3>1. CASE Walk(f)
      BY ZenonT(30), <1>o, <3>1 DEF Walk, Operations, swvars
    <3>2. CASE Delete(f)
      BY <1>o, <3>2 DEF Delete, Operations, swvars
    <3> QED BY Zenon, <1>2, <3>1, <3>2
  <2>2. Found' /\ OldSlot'
    BY Zenon, <2>1 DEF CallInv, Found, OldSlot
  <2>3. Agrees(op.from)'
    BY Zenon, <1>e, <2>1 DEF CallInv, Found, Reached, Agrees
  <2> QED BY Zenon, <2>1, <2>2, <2>3 DEF CallInv, Reached
<1> QED BY Zenon, <1>1, <1>2

\* Every step keeps CallInv.
LEMMA CallStep == TypeOK /\ SlotInv /\ CallInv /\ [Next]_vars => CallInv'
<1> SUFFICES ASSUME TypeOK, SlotInv, CallInv, [Next]_vars PROVE CallInv'
  OBVIOUS
<1>1. CASE LoaderNext
  <2>1. CASE Flip \/ MapFails \/ GCReturn
    BY Zenon, <2>1, CallReturn DEF Flip, MapFails, GCReturn, Return
  <2> QED BY Zenon, <1>1, <2>1, CallStart, CallPutHead, CallPutTail, CallRetire, CallForget, CallOther
        DEF LoaderNext
<1>2. CASE PacketNext \/ TimeNext
  BY Zenon, <1>2, OthersFrame, CallFrame
<1>3. CASE UNCHANGED vars
  BY Zenon, <1>3, CallFrame DEF vars
<1> QED BY Zenon, <1>1, <1>2, <1>3 DEF Next

\* The outcomes of ending the migration of dp, which CompleteMigration,
\* AbortMigration and SwitchAFTR share.
EndFailures(dp) == {L!Outcome(dp, "failed"), L!Outcome(Left(dp), "failed"),
                    L!Outcome(Ended(dp), "failed")}
LEMMA EndOutcomes ==
    ASSUME NEW dp \in L!Datapaths, dp.state # "STEADY",
           dp.state = "DRAINING" => dp.old = Other(dp.active)
    PROVE  /\ dp.state = "PRIMING" =>
                L!AbortMigration(dp) = EndFailures(dp) \cup {L!Outcome(Ended(dp), "ok")}
           /\ dp.state = "DRAINING" =>
                L!CompleteMigration(dp) = EndFailures(dp) \cup {L!Outcome(Ended(dp), "ok")}
<1>1. L!Other(dp.active) = Other(dp.active)
  BY DEF L!Other, Other
<1>2. Ended(dp) = [L!Steady(dp, dp.active) EXCEPT !.nh[Other(dp.active)] = NoEndpoint]
  BY Zenon DEF Ended, Left
<1>3. L!EndMigration(dp, Other(dp.active)) = EndFailures(dp) \cup {L!Outcome(Ended(dp), "ok")}
  BY Zenon, <1>2 DEF L!EndMigration, EndFailures, Left
<1>4. ASSUME dp.state = "PRIMING" PROVE L!AbortMigration(dp) = L!EndMigration(dp, Other(dp.active))
  BY Zenon, <1>1, <1>4 DEF L!AbortMigration
<1>5. ASSUME dp.state = "DRAINING"
      PROVE  L!CompleteMigration(dp) = L!EndMigration(dp, Other(dp.active))
  BY Zenon, <1>5 DEF L!CompleteMigration
<1> QED BY Zenon, <1>3, <1>4, <1>5

\* The outcomes of writing e to the free slot of dp and storing a word.
Written(dp, e) == [dp EXCEPT !.nh[Other(dp.active)] = e]
LEMMA WriteOutcomes ==
    ASSUME NEW dp, NEW e, NEW w
    PROVE  L!WriteThenFlip(dp, e, w) =
             {L!Outcome(dp, "failed"), L!Outcome(Written(dp, e), "failed"),
              L!Outcome([w EXCEPT !.nh[Other(dp.active)] = e], "ok")}
<1>1. L!Other(dp.active) = Other(dp.active)
  BY DEF L!Other, Other
<1> QED BY Zenon, <1>1 DEF L!WriteThenFlip, Written

\* SwitchAFTR's outcomes: those of the migration it could not end, and those of
\* the write after it.
LEMMA SwitchOutcomes ==
    ASSUME NEW dp \in L!Datapaths, NEW e,
           dp.state = "DRAINING" => dp.old = Other(dp.active)
    PROVE  /\ dp.state # "STEADY" => EndFailures(dp) \subseteq L!SwitchAFTR(dp, e)
           /\ L!WriteThenFlip(Ended(dp), e, L!Steady(Ended(dp), Other(dp.active)))
                \subseteq L!SwitchAFTR(dp, e)
<1> DEFINE ended == CASE dp.state = "STEADY"   -> {L!Outcome(dp, "ok")}
                      [] dp.state = "PRIMING"  -> L!AbortMigration(dp)
                      [] dp.state = "DRAINING" -> L!CompleteMigration(dp)
           then(o) == IF o.result = "ok"
                      THEN L!WriteThenFlip(o.dp, e, L!Steady(o.dp, L!Other(o.dp.active)))
                      ELSE {o}
<1>1. L!SwitchAFTR(dp, e) = UNION {then(o) : o \in ended}
  BY Zenon DEF L!SwitchAFTR
<1>2. dp.state \in {"STEADY", "PRIMING", "DRAINING"}
  BY DEF L!Datapaths
<1>3. L!Outcome(Ended(dp), "ok") \in ended
  <2>1. CASE dp.state = "STEADY"
    BY <2>1 DEF Ended
  <2>2. CASE dp.state = "PRIMING"
    BY Zenon, <2>2, EndOutcomes
  <2>3. CASE dp.state = "DRAINING"
    BY Zenon, <2>3, EndOutcomes
  <2> QED BY Zenon, <1>2, <2>1, <2>2, <2>3
<1>4. dp.state # "STEADY" => EndFailures(dp) \subseteq ended
  <2>2. CASE dp.state = "PRIMING"
    BY Zenon, <2>2, EndOutcomes
  <2>3. CASE dp.state = "DRAINING"
    BY Zenon, <2>3, EndOutcomes
  <2> QED BY Zenon, <1>2, <2>2, <2>3
<1>5. \A o \in ended : then(o) \subseteq L!SwitchAFTR(dp, e)
  BY Zenon, <1>1
<1>6. \A o \in EndFailures(dp) : o.result = "failed"
  BY DEF EndFailures, L!Outcome
<1>7. dp.state # "STEADY" => EndFailures(dp) \subseteq L!SwitchAFTR(dp, e)
  BY Zenon, <1>4, <1>5, <1>6
<1>8. then(L!Outcome(Ended(dp), "ok")) =
        L!WriteThenFlip(Ended(dp), e, L!Steady(Ended(dp), Other(dp.active)))
  <2>1. L!Other(Ended(dp).active) = Other(dp.active)
    BY EndedParts DEF L!Other, Other
  <2>2. L!Outcome(Ended(dp), "ok").result = "ok" /\ L!Outcome(Ended(dp), "ok").dp = Ended(dp)
    BY DEF L!Outcome
  <2> QED BY Zenon, <2>1, <2>2
<1> QED BY Zenon, <1>3, <1>5, <1>7, <1>8

\* A datapath with its free slot written is one, and its fields.
LEMMA WrittenParts ==
    ASSUME NEW dp \in L!Datapaths, NEW e \in Endpoints
    PROVE  /\ Written(dp, e) \in L!Datapaths
           /\ Written(dp, e).active = dp.active /\ Written(dp, e).old = dp.old
           /\ Written(dp, e).state = dp.state
           /\ Written(dp, e).nh = [dp.nh EXCEPT ![Other(dp.active)] = e]
<1>1. Other(dp.active) \in L!Slots
  BY OtherType DEF L!Datapaths, L!Slots, Slots
<1>2. Written(dp, e) = [dp EXCEPT !.nh = [dp.nh EXCEPT ![Other(dp.active)] = e]]
  BY DEF Written, L!Datapaths
<1>3. [dp.nh EXCEPT ![Other(dp.active)] = e] \in [L!Slots -> Endpoints \cup {NoEndpoint}]
  BY <1>1 DEF L!Datapaths
<1> QED BY <1>2, <1>3 DEF L!Datapaths

\* At the flip the datapath is the one writeNextHop started from, with the free
\* slot written.
LEMMA FlipDP ==
    ASSUME TypeOK, SlotInv, CallInv, op.pc = "flip", op.name # "cutover"
    PROVE  DP = Written(Ended(op.from), op.ep)
<1>1. op.from \in L!Datapaths /\ op.ep \in Endpoints
  BY Zenon DEF CallInv, Found, SlotInv, Writing
<1>2. /\ op.slot = Other(ctrl.active) /\ nh[op.slot] = Whole(op.ep)
      /\ AgreesBut(Ended(op.from), op.slot)
  BY Zenon DEF CallInv, Reached, SlotInv, Writing
<1>3. Ended(op.from) \in L!Datapaths /\ op.slot = Other(Ended(op.from).active) /\ op.slot \in Slots
  BY Zenon, <1>1, <1>2, EndedParts DEF AgreesBut, TypeOK, Operations
<1>4. SlotEndpoint(op.slot) = op.ep
  BY Zenon, <1>1, <1>2, <1>3, EndpointValue
<1>5. \A s \in Slots : SlotEndpoint(s) = Written(Ended(op.from), op.ep).nh[s]
  <2>1. Written(Ended(op.from), op.ep).nh = [Ended(op.from).nh EXCEPT ![op.slot] = op.ep]
    BY SMTT(30), <1>1, <1>3, WrittenParts
  <2>2. Ended(op.from).nh \in [Slots -> Endpoints \cup {NoEndpoint}]
    BY <1>3 DEF L!Datapaths, L!Slots, Slots
  <2> QED BY SMTT(30), <1>2, <1>3, <1>4, <2>1, <2>2 DEF AgreesBut
<1>6. Agrees(Written(Ended(op.from), op.ep))
  BY Zenon, <1>1, <1>2, <1>3, <1>5, WrittenParts DEF Agrees, AgreesBut
<1> QED BY Zenon, <1>1, <1>3, <1>6, WrittenParts, AgreesEquals

\* What a step that leaves the slots alone makes of the datapath.
LEMMA DPNext ==
    ASSUME nh' = nh
    PROVE  DP' = [active |-> ctrl'.active, old |-> ctrl'.old, state |-> ctrl'.state,
                  nh |-> DP.nh]
<1>1. \A s \in Slots : SlotEndpoint(s)' = SlotEndpoint(s)
  BY Zenon, EndpointFrame
<1>2. DP'.nh = DP.nh
  BY <1>1 DEF DP
<1>3. DP' = [active |-> ctrl'.active, old |-> ctrl'.old, state |-> ctrl'.state, nh |-> DP'.nh]
  BY DEF DP
<1> QED BY Zenon, <1>2, <1>3

\* A map update that fails leaves one of the call's failures.
LEMMA FailureListed ==
    ASSUME TypeOK, SlotInv, CallInv, MapFails
    PROVE  L!Outcome(DP', "failed") \in Outcomes(op)
<1>o. op \in Operations /\ op.name \in OpNames
  BY Zenon DEF TypeOK, Operations
<1>1. /\ op.pc \in {"claim", "head", "zhead", "flip", "retire", "forget", "walk"}
      /\ ctrl' = ctrl /\ nh' = nh
  BY Zenon DEF MapFails, swvars
<1>2. DP' = DP
  BY Zenon, <1>1, EndpointFrame DEF DP
<1>3. /\ op.from \in L!Datapaths
      /\ op.from.state = "DRAINING" => op.from.old = Other(op.from.active)
  BY Zenon, <1>1 DEF CallInv, Found
<1>4. Ended(op.from) \in L!Datapaths /\ Left(op.from) \in L!Datapaths
  BY Zenon, <1>3, EndedParts, LeftParts
<1>5. op.pc \in {"claim", "head", "forget"} => DP = Ended(op.from)
  BY Zenon, <1>4, AgreesEquals DEF CallInv, Reached
<1>6. op.pc = "zhead" => DP = Left(op.from)
  BY Zenon, <1>4, AgreesEquals DEF CallInv, Reached
<1>7. op.pc = "retire" \/ op.name \in {"cutover", "gc"} => DP = op.from
  BY Zenon, <1>3, AgreesEquals DEF CallInv, Reached
<1>8. op.pc = "flip" /\ op.name # "cutover" => DP = Written(Ended(op.from), op.ep)
  BY Zenon, FlipDP
<1>9. op.pc \in {"retire", "zhead", "forget"} => L!Outcome(DP, "failed") \in EndFailures(op.from)
  BY Zenon, <1>5, <1>6, <1>7 DEF EndFailures
<1>10. CASE op.name = "begin"
  <2>1. op.from.state = "STEADY" /\ op.pc \in {"claim", "head", "flip"}
    BY Zenon, <1>1, <1>10 DEF CallInv, Found, SlotInv, Ending
  <2>2. Ended(op.from) = op.from
    BY Zenon, <2>1 DEF Ended
  <2>3. Outcomes(op) = L!BeginMigration(op.from, op.ep)
    BY <1>10 DEF Outcomes
  <2> QED BY Zenon, <1>2, <1>5, <1>8, <1>10, <2>1, <2>2, <2>3, WriteOutcomes DEF L!BeginMigration
<1>11. CASE op.name = "cutover"
  <2>1. op.from.state = "PRIMING"
    BY Zenon, <1>1, <1>11 DEF CallInv, Found
  <2>2. Outcomes(op) = L!Cutover(op.from)
    BY <1>11 DEF Outcomes
  <2> QED BY Zenon, <1>2, <1>7, <1>11, <2>1, <2>2 DEF L!Cutover
<1>12. CASE op.name = "complete"
  <2>1. op.from.state = "DRAINING" /\ op.pc \in {"retire", "zhead", "forget"}
    BY Zenon, <1>1, <1>12 DEF CallInv, Found, SlotInv, Writing
  <2>2. Outcomes(op) = L!CompleteMigration(op.from)
    BY <1>12 DEF Outcomes
  <2>3. op.from.state # "STEADY"
    BY <2>1
  <2>4. L!CompleteMigration(op.from) = EndFailures(op.from) \cup {L!Outcome(Ended(op.from), "ok")}
    BY Zenon, <1>3, <2>1, <2>3, EndOutcomes
  <2> QED BY Zenon, <1>2, <1>9, <2>1, <2>2, <2>4
<1>13. CASE op.name = "abort"
  <2>1. op.from.state = "PRIMING" /\ op.pc \in {"retire", "zhead", "forget"}
    BY Zenon, <1>1, <1>13 DEF CallInv, Found, SlotInv, Writing
  <2>2. Outcomes(op) = L!AbortMigration(op.from)
    BY <1>13 DEF Outcomes
  <2>3. op.from.state # "STEADY"
    BY <2>1
  <2>4. L!AbortMigration(op.from) = EndFailures(op.from) \cup {L!Outcome(Ended(op.from), "ok")}
    BY Zenon, <1>3, <2>1, <2>3, EndOutcomes
  <2> QED BY Zenon, <1>2, <1>9, <2>1, <2>2, <2>4
<1>14. CASE op.name = "switch"
  <2>1. Outcomes(op) = L!SwitchAFTR(op.from, op.ep)
    BY <1>14 DEF Outcomes
  <2>2. op.pc # "walk"
    BY Zenon, <1>1, <1>14 DEF CallInv, Found
  <2>3. CASE op.pc \in {"retire", "zhead", "forget"}
    <3>1. op.from.state # "STEADY"
      BY Zenon, <2>3 DEF CallInv, Found
    <3> QED BY Zenon, <1>2, <1>3, <1>9, <2>1, <2>3, <3>1, SwitchOutcomes
  <2>4. CASE op.pc \in {"claim", "head", "flip"}
    BY Zenon, <1>2, <1>3, <1>5, <1>8, <1>14, <2>1, <2>4, SwitchOutcomes, WriteOutcomes
  <2> QED BY Zenon, <1>1, <2>2, <2>3, <2>4
<1>15. CASE op.name = "gc"
  <2>1. Outcomes(op) = {L!Outcome(op.from, r) : r \in {"ok", "failed"}}
    BY <1>15 DEF Outcomes
  <2> QED BY Zenon, <1>2, <1>7, <1>15, <2>1
<1>16. op.name # "none"
  BY Zenon, <1>1 DEF CallInv, Found, SlotInv, Writing, Ending
<1> QED BY Zenon, <1>o, <1>10, <1>11, <1>12, <1>13, <1>14, <1>15, <1>16 DEF OpNames

\* Cutover's success, field by field.
LEMMA CutoverOutcome ==
    ASSUME NEW dp \in L!Datapaths, dp.state = "PRIMING"
    PROVE  L!Outcome([active |-> Other(dp.active), old |-> dp.active, state |-> "DRAINING",
                      nh |-> dp.nh], "ok") \in L!Cutover(dp)
<1> DEFINE r == [dp EXCEPT !.active = L!Other(dp.active), !.old = dp.active,
                           !.state = "DRAINING"]
<1>1. L!Other(dp.active) = Other(dp.active) /\ Other(dp.active) \in L!Slots
  BY OtherType DEF L!Other, Other, L!Datapaths, L!Slots, Slots
<1>2. /\ r \in L!Datapaths /\ r.active = Other(dp.active) /\ r.old = dp.active
      /\ r.state = "DRAINING" /\ r.nh = dp.nh
  BY ZenonT(30), <1>1 DEF L!Datapaths
<1>3. \A d \in L!Datapaths :
        d = [active |-> d.active, old |-> d.old, state |-> d.state, nh |-> d.nh]
  BY DEF L!Datapaths
<1>4. L!Outcome(r, "ok") \in L!Cutover(dp)
  BY Zenon DEF L!Cutover
<1> HIDE DEF r
<1> QED BY Zenon, <1>2, <1>3, <1>4

\* The store of the control word at the end of a call is its success.
LEMMA FlipListed ==
    ASSUME TypeOK, SlotInv, CallInv, Flip
    PROVE  L!Outcome(DP', "ok") \in Outcomes(op)
<1>1. op.pc = "flip" /\ ctrl' = op.word /\ nh' = nh
  BY Zenon DEF Flip
<1>2. DP' = [active |-> op.word.active, old |-> op.word.old, state |-> op.word.state,
             nh |-> DP.nh]
  BY Zenon, <1>1, DPNext
<1>3. op.from \in L!Datapaths /\ Ended(op.from) \in L!Datapaths
  BY Zenon, <1>1, EndedParts DEF CallInv, Found
<1>4. CASE op.name = "cutover"
  <2>1. op.from.state = "PRIMING" /\ Agrees(op.from)
    BY Zenon, <1>1, <1>4 DEF CallInv, Found, Reached
  <2>2. DP = op.from
    BY Zenon, <1>3, <2>1, AgreesEquals
  <2>3. /\ op.word.active = Other(op.from.active) /\ op.word.old = op.from.active
        /\ op.word.state = "DRAINING"
    BY Zenon, <1>4, <2>1 DEF SlotInv, CuttingOver, Agrees
  <2>4. DP' = [active |-> Other(op.from.active), old |-> op.from.active,
               state |-> "DRAINING", nh |-> op.from.nh]
    BY Zenon, <1>2, <2>2, <2>3
  <2>5. Outcomes(op) = L!Cutover(op.from)
    BY <1>4 DEF Outcomes
  <2> QED BY Zenon, <1>3, <2>1, <2>4, <2>5, CutoverOutcome
<1>5. CASE op.name # "cutover"
  <2> DEFINE d == Ended(op.from)
  <2>1. DP = Written(d, op.ep) /\ op.ep \in Endpoints
    BY Zenon, <1>1, <1>5, FlipDP DEF SlotInv, Writing
  <2>2. ctrl.active = d.active /\ op.slot = Other(d.active)
    BY Zenon, <1>1, <1>5 DEF CallInv, Reached, AgreesBut, SlotInv, Writing
  <2>3. DP.nh = [d.nh EXCEPT ![Other(d.active)] = op.ep]
    BY Zenon, <1>3, <2>1, WrittenParts
  <2>4. ASSUME NEW w \in L!Datapaths, w.nh = d.nh, op.word.active = w.active,
               op.word.old = w.old, op.word.state = w.state
        PROVE  DP' = [w EXCEPT !.nh[Other(d.active)] = op.ep]
    <3>1. [w EXCEPT !.nh[Other(d.active)] = op.ep] =
            [active |-> w.active, old |-> w.old, state |-> w.state,
             nh |-> [w.nh EXCEPT ![Other(d.active)] = op.ep]]
      BY <2>4 DEF L!Datapaths
    <3> QED BY Zenon, <1>2, <2>3, <2>4, <3>1
  <2>5. CASE op.name = "begin"
    <3>1. op.from.state = "STEADY" /\ d = op.from
      BY Zenon, <1>1, <2>5 DEF CallInv, Found, Ended
    <3> DEFINE w == [op.from EXCEPT !.old = op.from.active, !.state = "PRIMING"]
    <3>2. /\ w \in L!Datapaths /\ w.nh = d.nh /\ w.active = d.active
          /\ w.old = d.active /\ w.state = "PRIMING"
      BY ZenonT(30), <1>3, <3>1 DEF L!Datapaths
    <3>3. op.word.active = d.active /\ op.word.old = d.active /\ op.word.state = "PRIMING"
      BY Zenon, <1>1, <1>5, <2>2, <2>5 DEF CallInv, OldSlot, SlotInv, Writing
    <3>4. DP' = [w EXCEPT !.nh[Other(d.active)] = op.ep]
      BY Zenon, <2>4, <3>2, <3>3
    <3>5. Outcomes(op) = L!BeginMigration(op.from, op.ep)
      BY <2>5 DEF Outcomes
    <3>6. L!BeginMigration(op.from, op.ep) = L!WriteThenFlip(d, op.ep, w)
      BY Zenon, <3>1 DEF L!BeginMigration
    <3> QED BY Zenon, <3>4, <3>5, <3>6, WriteOutcomes
  <2>6. CASE op.name = "switch"
    <3> DEFINE w == L!Steady(d, Other(op.from.active))
    <3>1. d.active = op.from.active /\ op.from.active \in Slots
      BY SMTT(30), <1>3, EndedParts DEF L!Datapaths, L!Slots, Slots
    <3>2. /\ w \in L!Datapaths /\ w.nh = d.nh /\ w.active = op.slot
          /\ w.old = op.slot /\ w.state = "STEADY"
      BY ZenonT(30), <1>3, <2>2, <3>1, OtherType DEF L!Steady, L!Datapaths, L!Slots, Slots
    <3>3. op.word.active = op.slot /\ op.word.old = op.slot /\ op.word.state = "STEADY"
      BY Zenon, <1>1, <1>5, <2>6 DEF CallInv, OldSlot, SlotInv, Writing
    <3>4. DP' = [w EXCEPT !.nh[Other(d.active)] = op.ep]
      BY Zenon, <2>4, <3>2, <3>3
    <3>5. Outcomes(op) = L!SwitchAFTR(op.from, op.ep)
      BY <2>6 DEF Outcomes
    <3>6. op.from.state = "DRAINING" => op.from.old = Other(op.from.active)
      BY Zenon, <1>1 DEF CallInv, Found
    <3>7. L!WriteThenFlip(d, op.ep, w) \subseteq L!SwitchAFTR(op.from, op.ep)
      BY Zenon, <1>3, <3>6, SwitchOutcomes
    <3>8. L!Outcome([w EXCEPT !.nh[Other(d.active)] = op.ep], "ok") \in L!WriteThenFlip(d, op.ep, w)
      BY Zenon, WriteOutcomes
    <3> QED BY Zenon, <3>4, <3>5, <3>7, <3>8
  <2>7. op.name \in {"begin", "switch"}
    BY Zenon, <1>1, <1>5 DEF SlotInv, Writing
  <2> QED BY Zenon, <2>5, <2>6, <2>7
<1> QED BY Zenon, <1>4, <1>5

\* So is the end of clearNextHop, and the end of a collection.
LEMMA ForgetListed ==
    ASSUME TypeOK, SlotInv, CallInv, Forget, op.name # "switch"
    PROVE  L!Outcome(DP', "ok") \in Outcomes(op)
<1>1. op.pc = "forget" /\ ctrl' = ctrl /\ nh' = nh
  BY Zenon DEF Forget
<1>2. /\ op.from \in L!Datapaths /\ Agrees(Ended(op.from)) /\ op.from.state # "STEADY"
      /\ op.from.state = "DRAINING" => op.from.old = Other(op.from.active)
  BY Zenon, <1>1 DEF CallInv, Found, Reached
<1>3. DP' = Ended(op.from)
  <2>1. DP' = DP
    BY Zenon, <1>1, EndpointFrame DEF DP
  <2> QED BY Zenon, <1>2, <2>1, EndedParts, AgreesEquals
<1>4. CASE op.name = "complete"
  <2>1. op.from.state = "DRAINING"
    BY Zenon, <1>1, <1>4 DEF CallInv, Found
  <2>2. Outcomes(op) = L!CompleteMigration(op.from)
    BY <1>4 DEF Outcomes
  <2> QED BY Zenon, <1>2, <1>3, <2>1, <2>2, EndOutcomes
<1>5. CASE op.name = "abort"
  <2>1. op.from.state = "PRIMING"
    BY Zenon, <1>1, <1>5 DEF CallInv, Found
  <2>2. Outcomes(op) = L!AbortMigration(op.from)
    BY <1>5 DEF Outcomes
  <2> QED BY Zenon, <1>2, <1>3, <2>1, <2>2, EndOutcomes
<1> QED BY Zenon, <1>1, <1>4, <1>5 DEF SlotInv, Ending
LEMMA CollectionListed ==
    ASSUME TypeOK, CallInv, GCReturn
    PROVE  L!Outcome(DP', "ok") \in Outcomes(op)
<1>1. op.pc = "delete" /\ ctrl' = ctrl /\ nh' = nh
  BY Zenon DEF GCReturn, swvars
<1>2. op.name = "gc" /\ op.from \in L!Datapaths /\ Agrees(op.from)
  BY Zenon, <1>1 DEF CallInv, Found, Reached
<1>3. DP' = DP
  BY Zenon, <1>1, EndpointFrame DEF DP
<1>4. DP = op.from
  BY Zenon, <1>2, AgreesEquals
<1>5. Outcomes(op) = {L!Outcome(op.from, r) : r \in {"ok", "failed"}}
  BY <1>2 DEF Outcomes
<1> QED BY Zenon, <1>3, <1>4, <1>5

\* The steps that return.
LEMMA ReturningSteps ==
    ASSUME TypeOK, SlotInv, [Next]_vars, op # Idle, op' = Idle
    PROVE  MapFails \/ Flip \/ GCReturn \/ (Forget /\ op.name # "switch")
<1>i. op'.pc = "idle" /\ op \in Operations
  BY DEF Idle, TypeOK
<1>1. LoaderNext
  BY Zenon, OthersFrame DEF Next, vars
<1>2. ASSUME NEW e \in Endpoints, BeginMigration(e) PROVE FALSE
  BY ZenonT(30), <1>i, <1>2 DEF BeginMigration, Call, Idle
<1>3. ASSUME NEW e \in Endpoints, SwitchAFTR(e) PROVE FALSE
  BY ZenonT(30), <1>i, <1>3 DEF SwitchAFTR, SwitchWrite, Call, Idle
<1>4. CASE Cutover \/ CompleteMigration \/ AbortMigration \/ GCFlowAffinity
  BY ZenonT(30), <1>i, <1>4 DEF Cutover, CompleteMigration, AbortMigration, GCFlowAffinity, Call, Idle
<1>5. CASE Claim
  <2>1. ~SlotIsLive(op.slot)
    <3>1. op.pc = "claim"
      BY Zenon, <1>5 DEF Claim
    <3>2. op.slot = Other(ctrl.active) /\ ctrl.state = "STEADY" /\ ctrl.active \in Slots
      BY Zenon, <3>1 DEF SlotInv, Writing, CuttingOver, TypeOK, Words
    <3> QED BY <3>2, OtherType DEF SlotIsLive
  <2> QED BY <1>i, <1>5, <2>1 DEF Claim, Operations
<1>6. CASE PutHead \/ PutTail \/ Retire
  BY <1>i, <1>6 DEF PutHead, PutTail, Retire, Operations
<1>7. CASE Forget /\ op.name = "switch"
  BY ZenonT(30), <1>i, <1>7 DEF Forget, SwitchWrite, Operations
<1>8. ASSUME NEW f \in Flows, Walk(f) \/ Delete(f) PROVE FALSE
  BY ZenonT(30), <1>i, <1>8 DEF Walk, Delete, Operations
<1> QED BY Zenon, <1>1, <1>2, <1>3, <1>4, <1>5, <1>6, <1>7, <1>8 DEF LoaderNext

\* Whatever the packets do meanwhile, and wherever a map update fails, a Loader
\* call leaves the datapath in a state that LoaderOps lists for it, with the
\* result it lists: what Softwirectl assumes of the Loader is what the Loader
\* does.
THEOREM CallsListed == Spec => CallsMatchLoaderOps
<1>1. Init => CallInv
  <2>1. Idle.pc = "idle" /\ Idle.name = "none"
    BY DEF Idle
  <2> QED BY Zenon, <2>1 DEF Init, CallInv, Found, Reached, OldSlot
<1>2. TypeOK /\ SlotInv /\ CallInv /\ [Next]_vars => CallInv'
  BY Zenon, CallStep
<1>3. TypeOK /\ SlotInv /\ CallInv /\ [Next]_vars =>
        [op # Idle /\ op' = Idle =>
           L!Outcome(DP', IF MapFails THEN "failed" ELSE "ok") \in Outcomes(op)]_vars
  <2> SUFFICES ASSUME TypeOK, SlotInv, CallInv, [Next]_vars, op # Idle, op' = Idle
               PROVE  L!Outcome(DP', IF MapFails THEN "failed" ELSE "ok") \in Outcomes(op)
    BY Zenon
  <2>1. CASE MapFails
    BY Zenon, <2>1, FailureListed
  <2>2. CASE ~MapFails
    BY Zenon, <2>2, ReturningSteps, FlipListed, ForgetListed, CollectionListed
  <2> QED BY Zenon, <2>1, <2>2
<1>4. Init => SlotInv
  BY Zenon, SlotInit
<1>5. TypeOK /\ SlotInv /\ [Next]_vars => SlotInv'
  BY Zenon, SlotStep
<1> QED BY <1>1, <1>2, <1>3, <1>4, <1>5, TypeCorrect, PTL DEF Spec, CallsMatchLoaderOps
=============================================================================
