------------------------------ MODULE Migration ------------------------------
(***************************************************************************)
(* The AFTR migration of the datapath: the two next-hop slots, the packed  *)
(* control word and the flow-affinity table, shared by the Loader's        *)
(* operations (pkg/datapath/config.go, migration.go) and the XDP programs  *)
(* (bpf/datapath.bpf.c), which run on every CPU at any time.               *)
(*                                                                         *)
(* Simplifications:                                                        *)
(*  - an endpoint pair (b4, aftr) is one value; a slot keeps its two       *)
(*    address fields apart, since an ARRAY map update copies in place and  *)
(*    a packet may read between the two halves of the copy;                *)
(*  - time is abstract: an affinity entry becomes idle, and a learned path *)
(*    MTU expires, at any moment after its last refresh;                   *)
(*  - a learned path MTU is the endpoint it was learned for;               *)
(*  - a deleted affinity entry is not recycled for another flow while a    *)
(*    packet still holds a pointer to it;                                  *)
(*  - a packet overlaps at most MaxOverlap Loader operations: a program    *)
(*    runs to completion in microseconds, and the softwire server calls    *)
(*    the Loader once per request.                                         *)
(***************************************************************************)
EXTENDS Naturals, FiniteSets

CONSTANTS
    CPUs, Flows, Endpoints, NoEndpoint,
    EpochMod,      \* values of the control word's epoch field: 256
    TableSize,     \* MAX_FLOW_AFFINITY
    MaxOverlap,    \* operations one packet may overlap: 0 or 1
    MaxUngced,     \* bound: migrations begun since the last GCFlowAffinity
    Ops,           \* the operations that are called
    Kinds          \* the packets that arrive: "encap", "decap", "ptb"

ASSUME ConstantsAssumption ==
    /\ EpochMod \in Nat \ {0}
    /\ TableSize \in Nat
    /\ MaxOverlap \in {0, 1}
    /\ MaxUngced \in Nat
    /\ NoEndpoint \notin Endpoints

VARIABLES
    ctrl,     \* migration_ctrl, unpacked
    nh,       \* next_hops
    pmtu,     \* tunnel_pmtus: the endpoint the reading was taken for
    aff,      \* flow_affinity_map
    lost,     \* STAT_AFFINITY_INSERT_FAIL rose since BeginMigration
    op,       \* the Loader operation in progress
    pkt,      \* the packet program running on each CPU
    primed,   \* history: flows seen in PRIMING, not found idle by a drain since
    recorded, \* history: flows seen in PRIMING under the current epoch
    ungced    \* history: migrations begun since the last GCFlowAffinity

swvars == <<ctrl, nh, pmtu>>
affvars == <<aff, lost, primed, recorded, ungced>>
vars == <<ctrl, nh, pmtu, aff, lost, op, pkt, primed, recorded, ungced>>

Slots == {0, 1}
Epochs == 0 .. EpochMod - 1
Words == [active : Slots, old : Slots,
          state : {"STEADY", "PRIMING", "DRAINING"}, epoch : Epochs]
MaybeEndpoint == Endpoints \cup {NoEndpoint}

Whole(e) == [valid |-> TRUE, b4 |-> e, aftr |-> e]
Empty == [valid |-> FALSE, b4 |-> NoEndpoint, aftr |-> NoEndpoint]

Absent == [epoch |-> EpochMod, idle |-> FALSE]
SlotEndpoint(s) == IF \E e \in Endpoints : nh[s] = Whole(e) THEN nh[s].aftr ELSE NoEndpoint
L == INSTANCE LoaderOps
\* The datapath as LoaderOps sees it.
DP == [active |-> ctrl.active, old |-> ctrl.old, state |-> ctrl.state,
       nh |-> [s \in Slots |-> SlotEndpoint(s)]]

Present == {f \in Flows : aff[f] # Absent}
Current(f) == aff[f].epoch = ctrl.epoch

-----------------------------------------------------------------------------
(* The Loader.                                                             *)

Other(s) == 1 - s

SteadyWord(s) == [active |-> s, old |-> s, state |-> "STEADY", epoch |-> ctrl.epoch]

PrimingWord ==
    [active |-> ctrl.active, old |-> ctrl.active, state |-> "PRIMING",
     epoch |-> (ctrl.epoch + 1) % EpochMod]

SwappedDrainingWord ==
    [active |-> Other(ctrl.active), old |-> Other(ctrl.active), state |-> "DRAINING",
     epoch |-> ctrl.epoch]
DrainingWord ==
    [active |-> Other(ctrl.active), old |-> ctrl.active, state |-> "DRAINING",
     epoch |-> ctrl.epoch]

SlotIsLive(s) ==
    /\ s = ctrl.active \/ (ctrl.state = "DRAINING" /\ s = ctrl.old)
    /\ nh[s].valid

Idle == [name |-> "none", pc |-> "idle", slot |-> 0, ep |-> NoEndpoint,
         word |-> [active |-> 0, old |-> 0, state |-> "STEADY", epoch |-> 0],
         left |-> {}, stale |-> {}, kept |-> {},
         from |-> NoEndpoint]  \* history: the datapath when the call began
Call(name, pc) == [Idle EXCEPT !.name = name, !.pc = pc, !.from = DP]

OpMayStart(name) ==
    /\ op.pc = "idle"
    /\ name \in Ops
    /\ \A c \in CPUs : pkt[c].pc # "idle" => pkt[c].age < MaxOverlap

\* Every return of an operation: the packets in flight have overlapped it.
Return ==
    /\ op' = Idle
    /\ pkt' = [c \in CPUs |-> IF pkt[c].pc = "idle" THEN pkt[c]
                              ELSE [pkt[c] EXCEPT !.age = 1]]

\* BeginMigration: from STEADY only; writes the inactive slot, then PRIMING.
\* Its caller moves only to a pair other than the active one.
BeginMigration(e) ==
    /\ OpMayStart("begin")
    /\ ctrl.state = "STEADY"
    /\ e # nh[ctrl.active].aftr
    /\ ungced < MaxUngced
    /\ lost' = FALSE
    /\ op' = [Call("begin", "claim") EXCEPT !.slot = Other(ctrl.active),
                          !.ep = e, !.word = PrimingWord]
    /\ UNCHANGED <<swvars, aff, pkt, primed, recorded, ungced>>

\* Cutover: from PRIMING only, its caller having seen no insert failure.
Cutover ==
    /\ OpMayStart("cutover")
    /\ ctrl.state = "PRIMING"
    /\ ~lost
    /\ op' = [Call("cutover", "flip") EXCEPT !.word = DrainingWord]
    /\ UNCHANGED <<swvars, affvars, pkt>>

\* CompleteMigration: from DRAINING only; control word first, slot second.
SlotFirstComplete ==
    /\ OpMayStart("complete")
    /\ ctrl.state = "DRAINING"
    /\ op' = [Call("complete", "zhead") EXCEPT !.slot = ctrl.old,
                          !.word = SteadyWord(ctrl.active)]
    /\ UNCHANGED <<swvars, affvars, pkt>>
CompleteMigration ==
    /\ OpMayStart("complete")
    /\ ctrl.state = "DRAINING"
    /\ op' = [Call("complete", "retire") EXCEPT !.slot = ctrl.old,
                          !.word = SteadyWord(ctrl.active)]
    /\ UNCHANGED <<swvars, affvars, pkt>>

\* AbortMigration: from PRIMING only.
WrongSlotAbort ==
    /\ OpMayStart("abort")
    /\ ctrl.state = "PRIMING"
    /\ op' = [Call("abort", "retire") EXCEPT !.slot = ctrl.active,
                          !.word = SteadyWord(ctrl.active)]
    /\ UNCHANGED <<swvars, affvars, pkt>>
AbortMigration ==
    /\ OpMayStart("abort")
    /\ ctrl.state = "PRIMING"
    /\ op' = [Call("abort", "retire") EXCEPT !.slot = Other(ctrl.active),
                          !.word = SteadyWord(ctrl.active)]
    /\ UNCHANGED <<swvars, affvars, pkt>>

\* SwitchAFTR's write of the free slot, and the flip to it.
SwitchWrite(o, e) ==
    [o EXCEPT !.pc = "claim", !.slot = Other(ctrl.active), !.ep = e,
                 !.word = SteadyWord(Other(ctrl.active))]

\* SwitchAFTR: ends a migration as AbortMigration or CompleteMigration does,
\* then writes the slot that is free.  A recovery switches to the pair already
\* active: in mid-migration ("recover"), or in STEADY after a call that failed
\* past its control word ("reswitch").
SwitchKind(e) ==
    CASE e # nh[ctrl.active].aftr -> "switch"
      [] e = nh[ctrl.active].aftr /\ ctrl.state # "STEADY" -> "recover"
      [] OTHER -> "reswitch"
BlindSwitchAFTR(e) ==
    /\ OpMayStart(SwitchKind(e))
    /\ op' = SwitchWrite(Call("switch", "claim"), e)
    /\ UNCHANGED <<swvars, affvars, pkt>>
SwitchAFTR(e) ==
    /\ OpMayStart(SwitchKind(e))
    /\ op' = IF ctrl.state = "STEADY" THEN SwitchWrite(Call("switch", "claim"), e)
             ELSE [SwitchWrite(Call("switch", "claim"), e) EXCEPT
                     !.pc = "retire", !.word = SteadyWord(ctrl.active),
                     !.slot = IF ctrl.state = "PRIMING" THEN Other(ctrl.active)
                              ELSE ctrl.old]
    /\ UNCHANGED <<swvars, affvars, pkt>>

\* writeNextHop up to its Put: refuses a live slot, forgets the slot's MTU.
UncheckedClaim ==
    /\ op.pc = "claim"
    /\ op' = [op EXCEPT !.pc = "head"]
    /\ UNCHANGED <<swvars, affvars, pkt>>
Claim ==
    /\ op.pc = "claim"
    /\ IF SlotIsLive(op.slot)
       THEN Return /\ UNCHANGED pmtu
       ELSE /\ pmtu' = [pmtu EXCEPT ![op.slot] = NoEndpoint]
            /\ op' = [op EXCEPT !.pc = "head"]
            /\ UNCHANGED pkt
    /\ UNCHANGED <<ctrl, nh, affvars>>

\* The two halves of a Put: of an endpoint (writeNextHop) or zeros (clearNextHop).
PutHead ==
    /\ op.pc \in {"head", "zhead"}
    /\ nh' = [nh EXCEPT ![op.slot].valid = (op.pc = "head"),
                        ![op.slot].b4 = IF op.pc = "head" THEN op.ep ELSE NoEndpoint]
    /\ op' = [op EXCEPT !.pc = IF op.pc = "head" THEN "tail" ELSE "ztail"]
    /\ UNCHANGED <<ctrl, pmtu, affvars, pkt>>
PutTail ==
    /\ op.pc \in {"tail", "ztail"}
    /\ nh' = [nh EXCEPT ![op.slot].aftr = IF op.pc = "tail" THEN op.ep ELSE NoEndpoint]
    /\ op' = [op EXCEPT !.pc = IF op.pc = "tail" THEN "flip" ELSE "forget"]
    /\ UNCHANGED <<ctrl, pmtu, affvars, pkt>>

\* writeCtrl as the last step of an operation.
Flip ==
    /\ op.pc = "flip"
    /\ ctrl' = op.word
    /\ IF op.name = "begin"
       THEN primed' = {} /\ recorded' = {} /\ ungced' = ungced + 1
       ELSE UNCHANGED <<primed, recorded, ungced>>
    /\ Return
    /\ UNCHANGED <<nh, pmtu, aff, lost>>

\* writeCtrl to STEADY in CompleteMigration and AbortMigration.
Retire ==
    /\ op.pc = "retire"
    /\ ctrl' = op.word
    /\ op' = [op EXCEPT !.pc = "zhead"]
    /\ UNCHANGED <<nh, pmtu, affvars, pkt>>

\* clearNextHop's clearTunnelPMTU; SwitchAFTR goes on with its own write.
Forget ==
    /\ op.pc = "forget"
    /\ pmtu' = [pmtu EXCEPT ![op.slot] = NoEndpoint]
    /\ IF op.name = "switch" THEN op' = SwitchWrite(op, op.ep) /\ UNCHANGED pkt ELSE Return
    /\ UNCHANGED <<ctrl, nh, affvars>>

\* A map access of the operation fails: it returns the error, undoing nothing.
MapFails ==
    /\ "fail" \in Ops
    /\ op.pc \in {"claim", "head", "zhead", "flip", "retire", "forget", "walk"}
    /\ Return
    /\ UNCHANGED <<swvars, affvars>>

\* GCFlowAffinity: reads the control word once, walks the table collecting the
\* stale keys, and deletes them after the walk.
GCFlowAffinity ==
    /\ OpMayStart(IF ctrl.state = "PRIMING" THEN "gc-priming" ELSE "gc")
    /\ op' = [Call("gc", "walk") EXCEPT !.word = ctrl, !.left = Flows]
    /\ UNCHANGED <<swvars, affvars, pkt>>

Expires(f) ==
    \/ aff[f].epoch # op.word.epoch
    \/ op.word.state # "PRIMING" /\ aff[f].idle

IdleUncountedWalk(f) ==
    /\ op.pc = "walk" /\ f \in op.left
    /\ LET stale == f \in Present /\ aff[f].epoch # op.word.epoch
           kept  == f \in Present /\ ~Expires(f)
       IN op' = [op EXCEPT !.left = @ \ {f},
                           !.stale = IF stale THEN @ \cup {f} ELSE @,
                           !.kept = IF kept THEN @ \cup {f} ELSE @,
                           !.pc = IF op.left = {f} THEN "delete" ELSE @]
    /\ UNCHANGED <<swvars, affvars, pkt>>
Walk(f) ==
    /\ op.pc = "walk" /\ f \in op.left
    /\ LET stale == f \in Present /\ Expires(f)
           kept  == f \in Present /\ ~Expires(f)
       IN op' = [op EXCEPT !.left = @ \ {f},
                           !.stale = IF stale THEN @ \cup {f} ELSE @,
                           !.kept = IF kept THEN @ \cup {f} ELSE @,
                           !.pc = IF op.left = {f} THEN "delete" ELSE @]
    /\ UNCHANGED <<swvars, affvars, pkt>>

Delete(f) ==
    /\ op.pc = "delete" /\ f \in op.stale
    /\ aff' = [aff EXCEPT ![f] = Absent]
    /\ primed' = IF op.word.state = "PRIMING" THEN primed ELSE primed \ {f}
    /\ op' = [op EXCEPT !.stale = @ \ {f}]
    /\ UNCHANGED <<swvars, lost, pkt, recorded, ungced>>

GCReturn ==
    /\ op.pc = "delete" /\ op.stale = {}
    /\ ungced' = 0
    /\ Return
    /\ UNCHANGED <<swvars, aff, lost, primed, recorded>>

-----------------------------------------------------------------------------
(* The packet programs.                                                    *)

NoPkt == [pc |-> "idle", kind |-> "none", flow |-> "none", snap |-> Idle.word,
          fa |-> EpochMod, slot |-> 0, ep |-> NoEndpoint, age |-> 0,
          known |-> FALSE]  \* history: the flow was primed when the packet arrived

PktMayStart(c, kind) ==
    /\ pkt[c].pc = "idle"
    /\ kind \in Kinds
    /\ MaxOverlap = 0 => op.pc = "idle"

\* do_xdp_dslite_encap: the control word is loaded once; STEADY needs no flow.
Encap(c, f) ==
    /\ PktMayStart(c, "encap")
    /\ pkt' = [pkt EXCEPT ![c] =
         [NoPkt EXCEPT !.pc = IF ctrl.state = "STEADY" THEN "resolve" ELSE "lookup",
                       !.kind = "encap", !.flow = f, !.snap = ctrl, !.slot = ctrl.active,
                       !.known = f \in primed]]
    /\ UNCHANGED <<swvars, affvars, op>>

\* handle_xdp_dslite_decap: a packet of any valid slot feeds the flow table
\* during a migration.
Decap(c, f) ==
    /\ PktMayStart(c, "decap")
    /\ \E s \in Slots, e \in Endpoints : nh[s] = Whole(e)
    /\ ctrl.state # "STEADY"
    /\ pkt' = [pkt EXCEPT ![c] =
         [NoPkt EXCEPT !.pc = "lookup", !.kind = "decap", !.flow = f, !.snap = ctrl]]
    /\ UNCHANGED <<swvars, affvars, op>>

\* touch_flow_affinity, its lookup.
Lookup(c) ==
    /\ pkt[c].pc = "lookup"
    /\ pkt' = [pkt EXCEPT ![c].pc = "touch", ![c].fa = aff[pkt[c].flow].epoch]
    /\ UNCHANGED <<swvars, affvars, op>>

\* Whether touch_flow_affinity returns the entry it found.
FoundEpoch(p) == IF aff[p.flow] = Absent THEN p.fa ELSE aff[p.flow].epoch
AnyEpochTouched(p) == p.fa # EpochMod
Touched(p) ==
    p.fa # EpochMod /\ (p.snap.state = "PRIMING" \/ FoundEpoch(p) = p.snap.epoch)

\* bpf_map_update_elem with BPF_ANY: fails only when there is no room.
NoExistInsertable(f) == f \notin Present /\ Cardinality(Present) < TableSize
Insertable(f) == f \in Present \/ Cardinality(Present) < TableSize

\* What the entry becomes: re-stamped in PRIMING, refreshed, or inserted.  A
\* packet that found the entry writes through its pointer, which after a
\* concurrent delete points at no entry any more.
NoRestampEntryAfter(p) ==
    IF p.fa # EpochMod
    THEN IF aff[p.flow] = Absent \/ ~Touched(p) THEN aff[p.flow]
         ELSE [aff[p.flow] EXCEPT !.idle = FALSE]
    ELSE IF p.snap.state = "PRIMING" /\ Insertable(p.flow)
         THEN [epoch |-> p.snap.epoch, idle |-> FALSE]
         ELSE aff[p.flow]
EntryAfter(p) ==
    IF p.fa # EpochMod
    THEN IF aff[p.flow] = Absent \/ ~Touched(p) THEN aff[p.flow]
         ELSE [epoch |-> p.snap.epoch, idle |-> FALSE]
    ELSE IF p.snap.state = "PRIMING" /\ Insertable(p.flow)
         THEN [epoch |-> p.snap.epoch, idle |-> FALSE]
         ELSE aff[p.flow]

\* pick_softwire_slot: a recorded flow stays on the old slot while DRAINING.
PickedSlot(p) ==
    IF p.snap.state = "DRAINING" /\ Touched(p) THEN p.snap.old ELSE p.snap.active

\* touch_flow_affinity after its lookup, and for encap pick_softwire_slot.
Touch(c) ==
    LET p == pkt[c]
        priming == p.snap.state = "PRIMING"
        seen == IF priming THEN {p.flow} ELSE {}
    IN /\ p.pc = "touch"
       /\ aff' = [aff EXCEPT ![p.flow] = EntryAfter(p)]
       /\ lost' = (lost \/ (p.fa = EpochMod /\ priming /\ ~Insertable(p.flow)))
       /\ primed' = primed \cup seen
       /\ recorded' = recorded \cup seen
       /\ pkt' = [pkt EXCEPT ![c] = IF p.kind = "decap" THEN NoPkt
                                    ELSE [p EXCEPT !.pc = "resolve", !.slot = PickedSlot(p)]]
       /\ UNCHANGED <<swvars, op, ungced>>

\* resolve_softwire: the valid flag and the first address, then the second.
\* An invalid slot hands the packet to the kernel.
Resolve(c) ==
    LET s == nh[pkt[c].slot]
    IN /\ pkt[c].pc = "resolve"
       /\ pkt' = [pkt EXCEPT ![c] = IF s.valid THEN [@ EXCEPT !.pc = "send", !.ep = s.b4]
                                    ELSE NoPkt]
       /\ UNCHANGED <<swvars, affvars, op>>
Send(c) ==
    /\ pkt[c].pc = "send"
    /\ pkt' = [pkt EXCEPT ![c] = NoPkt]
    /\ UNCHANGED <<swvars, affvars, op>>

\* find_dslite_local_slot: the first slot holding the quoted pair.
LocalSlots(e) == {s \in Slots : nh[s] = Whole(e)}
FindLocalSlot(e) == CHOOSE s \in LocalSlots(e) : \A t \in LocalSlots(e) : s <= t

\* handle_tunnel_icmpv6: a Packet Too Big about a softwire packet to e.
PacketTooBig(c, e) ==
    /\ PktMayStart(c, "ptb")
    /\ LocalSlots(e) # {}
    /\ pkt' = [pkt EXCEPT ![c] = [NoPkt EXCEPT !.pc = "learn", !.kind = "ptb",
                                               !.slot = FindLocalSlot(e), !.ep = e]]
    /\ UNCHANGED <<swvars, affvars, op>>

\* learn_tunnel_pmtu: a reading no smaller than a fresh one is dropped.
Learn(c) ==
    LET p == pkt[c]
    IN /\ p.pc = "learn"
       /\ \E e \in {p.ep, pmtu[p.slot]} \ {NoEndpoint} : pmtu' = [pmtu EXCEPT ![p.slot] = e]
       /\ pkt' = [pkt EXCEPT ![c] = NoPkt]
       /\ UNCHANGED <<ctrl, nh, affvars, op>>

-----------------------------------------------------------------------------
(* Time.                                                                   *)

\* No packet of f for longer than its idle timeout.
FlowFallsIdle(f) ==
    /\ f \in Present /\ ~aff[f].idle
    /\ aff' = [aff EXCEPT ![f].idle = TRUE]
    /\ UNCHANGED <<swvars, lost, op, pkt, primed, recorded, ungced>>

\* tunnel_pmtu_for: the reading of slot s has aged out.
PmtuExpires(s) ==
    /\ pmtu[s] # NoEndpoint
    /\ pmtu' = [pmtu EXCEPT ![s] = NoEndpoint]
    /\ UNCHANGED <<ctrl, nh, affvars, op, pkt>>

-----------------------------------------------------------------------------

\* SetB4Config at startup, before the LAN programs are attached.
Init ==
    /\ ctrl = [active |-> 0, old |-> 0, state |-> "STEADY", epoch |-> 0]
    /\ \E e \in Endpoints : nh = [s \in Slots |-> IF s = 0 THEN Whole(e) ELSE Empty]
    /\ pmtu = [s \in Slots |-> NoEndpoint]
    /\ aff = [f \in Flows |-> Absent]
    /\ lost = FALSE
    /\ op = Idle
    /\ pkt = [c \in CPUs |-> NoPkt]
    /\ primed = {} /\ recorded = {}
    /\ ungced = 0

LoaderNext ==
    \/ \E e \in Endpoints : BeginMigration(e) \/ SwitchAFTR(e)
    \/ Cutover \/ CompleteMigration \/ AbortMigration \/ GCFlowAffinity
    \/ Claim \/ PutHead \/ PutTail \/ Flip \/ Retire \/ Forget \/ MapFails
    \/ \E f \in Flows : Walk(f) \/ Delete(f)
    \/ GCReturn

PacketNext ==
    \E c \in CPUs :
        \/ \E f \in Flows : Encap(c, f) \/ Decap(c, f)
        \/ \E e \in Endpoints : PacketTooBig(c, e)
        \/ Lookup(c) \/ Touch(c) \/ Resolve(c) \/ Send(c) \/ Learn(c)

TimeNext ==
    \/ \E f \in Flows : FlowFallsIdle(f)
    \/ \E s \in Slots : PmtuExpires(s)

Next == LoaderNext \/ PacketNext \/ TimeNext

Spec == Init /\ [][Next]_vars

-----------------------------------------------------------------------------
(* Properties.                                                             *)

OpNames == {"none", "begin", "cutover", "complete", "abort", "switch", "gc"}
OpSteps == {"idle", "claim", "head", "tail", "flip", "retire", "zhead", "ztail",
            "forget", "walk", "delete"}

NextHops == [valid : BOOLEAN, b4 : MaybeEndpoint, aftr : MaybeEndpoint]
Entries == [epoch : 0 .. EpochMod, idle : BOOLEAN]
Operations ==
    [name : OpNames, pc : OpSteps, slot : Slots, ep : MaybeEndpoint, word : Words,
     left : SUBSET Flows, stale : SUBSET Flows, kept : SUBSET Flows,
     from : L!Datapaths \cup {NoEndpoint}]
Packets ==
    [pc : {"idle", "lookup", "touch", "resolve", "send", "learn"},
     kind : {"none", "encap", "decap", "ptb"},
     flow : Flows \cup {"none"}, snap : Words, fa : 0 .. EpochMod,
     slot : Slots, ep : MaybeEndpoint, age : {0, 1}, known : BOOLEAN]

\* Every variable keeps its type; the epoch stays within its field.
TypeOK ==
    /\ ctrl \in Words
    /\ nh \in [Slots -> NextHops]
    /\ pmtu \in [Slots -> MaybeEndpoint]
    /\ aff \in [Flows -> Entries]
    /\ lost \in BOOLEAN
    /\ op \in Operations
    /\ pkt \in [CPUs -> Packets]
    /\ primed \subseteq recorded /\ recorded \subseteq Flows
    /\ ungced \in Nat

IsWhole(s) == \E e \in Endpoints : nh[s] = Whole(e)

\* The slots the control word lets a packet resolve are never half-written or
\* invalid, whichever map update of whichever operation has just happened or
\* failed (SwitchAFTR: "the slot in use is never mutated").
LiveSlotsWhole ==
    /\ IsWhole(ctrl.active)
    /\ ctrl.state = "DRAINING" => IsWhole(ctrl.old)
    /\ ctrl.state = "PRIMING" => IsWhole(Other(ctrl.active))

\* The pair that new flows use, with the one prepared or drained, changes only
\* as a whole and only as the Loader's operations promise.
Abstract == INSTANCE EndpointSwitch WITH
    current  <- SlotEndpoint(ctrl.active),
    prepared <- IF ctrl.state = "PRIMING" THEN SlotEndpoint(Other(ctrl.active)) ELSE NoEndpoint,
    draining <- IF ctrl.state = "DRAINING" THEN SlotEndpoint(ctrl.old) ELSE NoEndpoint
ImplementsEndpointSwitch == Abstract!Spec

\* However its steps interleave with packets, and wherever a map update fails,
\* a call leaves the datapath in a state LoaderOps lists for it, with that result.
Outcomes(o) ==
    CASE o.name = "begin"    -> L!BeginMigration(o.from, o.ep)
      [] o.name = "cutover"  -> L!Cutover(o.from)
      [] o.name = "complete" -> L!CompleteMigration(o.from)
      [] o.name = "abort"    -> L!AbortMigration(o.from)
      [] o.name = "switch"   -> L!SwitchAFTR(o.from, o.ep)
      [] o.name = "gc"       -> {L!Outcome(o.from, r) : r \in {"ok", "failed"}}
CallsMatchLoaderOps ==
    [][op # Idle /\ op' = Idle =>
         L!Outcome(DP', IF MapFails THEN "failed" ELSE "ok") \in Outcomes(op)]_vars

Resolving(c) == pkt[c].kind = "encap" /\ pkt[c].pc \in {"resolve", "send"}
Pinned(c) == pkt[c].snap.state = "DRAINING" /\ pkt[c].slot = pkt[c].snap.old
HoldsWhole(c) ==
    /\ IsWhole(pkt[c].slot)
    /\ pkt[c].pc = "send" => pkt[c].ep = nh[pkt[c].slot].aftr

\* A packet on the active slot of the control word it loaded is encapsulated
\* to one whole pair, whatever operation runs between its reads.
UnpinnedPacketsWhole == \A c \in CPUs : Resolving(c) /\ ~Pinned(c) => HoldsWhole(c)

\* The same of a packet pinned to the old slot (CompleteMigration: "or a packet
\* in flight could resolve a slot that has just been invalidated").  It does not
\* hold (README, known limits).
PinnedPacketsWhole == \A c \in CPUs : Resolving(c) /\ Pinned(c) => HoldsWhole(c)

\* While a migration is on and no insert has failed, every flow seen since
\* PRIMING began carries the current epoch, unless a drain found it idle: the
\* record the cutover relies on has no gaps.  So a packet arriving while
\* DRAINING, of a flow known by then, stays on the old AFTR: the promise of
\* Cutover.
PrimedFlowsKept ==
    ~lost =>
        /\ ctrl.state # "STEADY" => \A f \in primed : Current(f)
        /\ \A c \in CPUs : /\ Resolving(c) /\ pkt[c].snap.state = "DRAINING"
                           /\ pkt[c].known /\ pkt[c].flow \in primed
                           => Pinned(c)

\* Only a flow seen in PRIMING of this migration is pinned to the old AFTR
\* (flow_affinity: "leftovers from an earlier migration are ignored").
OnlyRecordedPinned == \A c \in CPUs : Resolving(c) /\ Pinned(c) => pkt[c].flow \in recorded

\* A flow counted as lost is not in the table: two CPUs racing to record one
\* flow do not make the control plane abandon a good migration.
LostMeansUnrecorded ==
    [][\A c \in CPUs : Touch(c) /\ ~lost /\ lost' => pkt[c].flow \notin Present]_vars

\* When GCFlowAffinity reports that no flow remains, nothing is pinned: every
\* entry that still pins a flow has been counted.
GCCountsPinned ==
    [][GCReturn /\ ctrl.state = "DRAINING" => {f \in Flows : Current(f)} \subseteq op.kept]_vars

\* Between operations, a path MTU learned for a slot belongs to the pair in it
\* (writeNextHop: a learned MTU "belongs to the endpoint pair it was learned
\* for, not to the slot").
PmtuBelongs ==
    op.pc = "idle" => \A s \in Slots : pmtu[s] # NoEndpoint => nh[s] = Whole(pmtu[s])

\* A Packet Too Big about the pair in use, once matched to a slot, is recorded
\* where encap reads it (internal/tunnelpmtu: "encap clamps against the learned
\* value per packet the moment it lands").  It does not hold (README, known
\* limits).
PtbLandsOnActive ==
    \A c \in CPUs : pkt[c].pc = "learn" /\ nh[ctrl.active] = Whole(pkt[c].ep)
                      => pkt[c].slot = ctrl.active
=============================================================================
