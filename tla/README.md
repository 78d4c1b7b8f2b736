# Verification of minuteman

minuteman is a DS-Lite CPE: XDP programs encapsulate the LAN's IPv4 into an
IPv6 softwire to an AFTR, and a Go control plane discovers the AFTR, follows the
WAN address and serves DHCP, RA, DNS and neighbour proxying to the LAN. This
directory holds TLA+ models of it, the TLC runs that check them and the proofs
TLAPS checks. `PROJECT.json` maps every definition to the lines it models.

## The system

| Part | State | What is hard about it |
|---|---|---|
| Loader migration (`pkg/datapath`) | control word, two next-hop slots, learned MTUs | several map updates per call, each may fail; packets read in between |
| XDP softwire path (`bpf/`) | flow-affinity table, the same maps | runs on every CPU, reads the word once and uses it later |
| Softwire controller, server (`internal/softwirectl`) | phase and timers; active pair, target | answers after a hard switch, restarts, half-failed calls, drains that never go idle |
| Softwire sizes (`internal/tunnelpmtu`, `bpf/`) | fragment unit, MSS clamp, ip6tnl MTU | change while a packet's clones are on their way; one of two applies fails |
| DHCPv4 (`pkg/dhcpv4`, `internal/dhcpv4server`) | pool, lease table, held ACKs | a lease is on disk before its ACK; crash and restore |
| DHCPv6 client (`internal/dhcpv6client`) | one exchange, postponed calls, one-shot socket | late and duplicate replies, callers that are gone |
| Prefix delegation (`internal/pdlease`) | the lease and its ladder of exchanges | timers, restarts with an old lease, a client shared with AFTR discovery |
| LAN prefix, RAs (`internal/lanprefix`, `internal/radvd`) | addresses, advertisers | one call of several failing, lost casts, RA spacing |
| WAN extension (`internal/wanextend`) | the prefix extended | renumbering while processes stop |
| Neighbour proxy (`pkg/ndproxy`, `internal/ndppd`) | probes, confirmed hosts, host routes | hosts that move; routes that outlive the state behind them |
| Start and shutdown (`cmd/minuteman`) | applications, deferred calls, kernel devices | any call of the start may fail; kills leave things behind |

The controller sends requests to the softwire server, which calls the Loader,
which writes the maps the XDP programs read: these two layers meet in
`LoaderOps`. The lease process asks through the DHCPv6 client and casts each
lease to the apply process, which configures the LANs and tells the advertisers;
with `-ndproxy` the WAN's own prefix reaches the same advertisers. `run` starts
all of it in order and takes it down in reverse.

## Modules

| Module | Models |
|---|---|
| `Migration` | The Loader's operations, one step per map update, with encap, decap and Packet Too Big on each CPU, split at their shared reads. |
| `EndpointSwitch` | The promise of `Migration`: the pair new flows use changes only as a whole. |
| `LoaderOps` | Each Loader call as a set of outcomes. `Migration` is checked against it, `Softwirectl` is built on it. |
| `Softwirectl` | Controller, server, discovery attempt, supervisor, and the WAN source. |
| `DHCPv4` | Pool, handler and server of one LAN interface, with the table behind it. |
| `DHCPv6Client` | The exchange process and its socket. |
| `LeaseTimers` | `usableIAPD` and `effectiveTimers`. |
| `PrefixDelegation` | The lease process on top of the two, with AFTR discovery as a second caller and the delegating server. |
| `Radvd` | The advertisers. |
| `DelegatedLan`, `WanExtend` | The two sources of what they advertise. |
| `LanAdvertising` | The composition of the three. |
| `NDProxy` | Proxy, routes process, hosts. |
| `Lifecycle` | `run`: its calls, its deferred calls, signals, kills, restarts. |
| `SoftwireMtu` | Learned path MTU, poller, derived sizes, fragmentation. |
| `Minuteman` | The composition of the two: sizes exist while the process is up. |
| `MC*` | Values of constants and symmetry for TLC. |
| `*Proofs`, `SoftwirectlLemmas` | Theorems and proofs. |

**Migration.** `ctrl` is the unpacked control word, stored in one step as the
code stores it. A slot of `nh` has two address fields, because an array map is
updated in place and a packet may read half of it. `op` is the Loader call in
progress; `MapFails` makes any map access return an error. `pkt[c]` is the
program on CPU `c` with the word it loaded (`snap`). `primed`, `recorded`,
`ungced`, `op.from` and `pkt.known` are history. An entry may fall idle, and a
learned MTU expire, at any moment. Two guards belong to the callers: `Cutover`
is called only when no insert failed, `BeginMigration` only for another pair.
`SwitchAFTR` to the active pair is a recovery: in mid-migration, or in STEADY
after a call that failed past its control word.

**Softwirectl.** One action per request served, per timeout and per response.
An armed timer may fire at any time. The counters are reduced to whether a flow
was lost since `BeginMigration`, before or after they were read. A restart
empties the controller and keeps the Softwire value; the dead controller's
requests are still served, unanswered.

**DHCPv4.** `byClient` and `byIP` are the pool's two maps, `declined` its
quarantine. `table` is the lease table with the writes not yet durable, the
oldest being what is on disk; `held` pairs each write with the ACK waiting for
it. `granted` is history: what each client was told. Any client sends any
message at any time. A failed write sets `failed`, after which the code answers
all the same, and the two properties about grants no longer apply.

**PrefixDelegation.** `rung` is the lease process's phase, with Acquire's two
halves apart. A datagram answers the running exchange ("now") or an earlier one
("old"): a transaction ID tells the process no more. `srv` is the binding at the
delegating server, which may refuse, or choose another prefix when its binding
has run out. Time is in ticks and passes when everything due has been handled.

**LanAdvertising.** An interface is its index in the `-lan` flags. A prefix has
a /64 for it, named by the prefix, while the index is below the prefix's
capacity. `clean` is history: no step failed for the interface. `wire` is what
the LAN last heard. Timers are reduced to their order (`due`, `recent`).

**NDProxy.** `loc` is where each host is, `box` the casts to the routes process.
`heard` and `said` are history: how long ago a target answered, and how long
before the proxy's last answer for it that was. Time is in sweep intervals.

**Lifecycle, SoftwireMtu, Minuteman.** `todo` holds the calls left of `run`,
`defers` its deferred calls; a call that fails makes `run` return. `kern` is
what is left in the kernel and on disk. Part of it are settings on interfaces
minuteman does not own, which no code undoes: the sysctls of `AttachWAN`, the
addresses `Reconcile` adds to the LANs, at the start or for a later lease, and
the host routes. Of the rest, `leaked` is what no deferred call will remove.
`apps` is the list `Running.Stop` walks, and an application past its restart
intensity, which ends the context, stays on it until then. `packet` is the packet being carved: clones to come, the unit they
carry, the MTU encap honoured and the fragments sent.

Each module's `TypeOK` gives the types of its variables. It is proved for
`Migration` and `DHCPv4`, and holds in the other runs' configurations when added
to them as an invariant.

## Runs

| Run | Distinct states | Shows |
|---|---|---|
| `migration_slots` | 210,400 | Slots in use are whole after every update, failed or not; `EndpointSwitch` is implemented; calls match `LoaderOps`. |
| `migration_affinity` | 741,954 | With a full table and racing CPUs, the flows seen while priming, and only those, stay on the old AFTR. |
| `migration_pmtu` | 20,626 | A learned MTU follows its pair, recoveries included, when packets do not overlap operations. |
| `softwirectl_safe` | 265,933 | Controller, softwire and tunnel agree when settled, over renumberings and a restart, no call failing; the controller settles again and again. |
| `softwirectl_failures` | 318,303 | With failing calls, the Softwire value still knows where traffic goes and that a migration is open. |
| `dhcpv4` | 474,187 | No address is granted twice, every ACK is on disk, quarantine holds, only its owner ends a lease. |
| `prefix_delegation` | 93,043 | The lease in use is one the server honours and the LAN was told; the socket is armed while waited on; the process gets back to Bound; a shutdown ends. |
| `lan_advertising` | 46,024 | A changed prefix is always due; addresses follow the record; LANs catch up with the lease or the WAN's prefix. |
| `nd_proxy` | 92,758 | The proxy claims only hosts heard of within `activeTTL`; routes follow the hosts, and catch up after failures and stops. |
| `minuteman` | 322,334 | Whatever fails, devices, programs, pins and pidfile are taken down in order and minuteman comes up again; fragments fit and reassemble; sizes settle. |
| `lan_retry` | violation | Finding 1 |
| `softwirectl_stuck_drain` | violation | Finding 2 |

**Bounds.**
- Migration: two CPUs race for one entry; one table place for two flows makes
  the table full; three endpoints let a slot be reused for a pair neither slot
  held. The epoch has 2 or 3 values, with `MaxUngced` below it. A packet
  overlaps at most `MaxOverlap` calls: a program takes microseconds, and the
  server calls the Loader once per request.
- Controller: one crash, up to two renumberings and two polls in flight, two
  migrations, so that a response or a drain cap of the first meets the second.
- DHCPv4: two clients and three addresses besides the server's, so that one can
  be quarantined and the others contended for; two writes on their way; lease
  and quarantine of two ticks, an offer of one.
- Prefix delegation: two prefixes, one stale datagram in the buffer, one process
  stop. The granted IA_PD leaves T1 to the client and has its floor above T2.
- LAN: one interface, the second of the flags, so that the prefix `narrow` has
  no /64 for it; interfaces share nothing but the apply process's turn, and the
  proofs cover any number. Two changes, two failures, two stops.
- Neighbour proxy: one target and two LANs; targets share only the mailbox. Two
  moves, one failed call, one stop.
- Minuteman: two command lines, one with everything dynamic and one static with
  `-ndproxy`; two failures, a signal, a kill; two path MTUs, one below IPv6's
  minimum; a packet of two or three fragments. `MaxSoftwireFrags` is 3 where the
  code has 4: a fourth clone of this packet would find nothing to carry, as the
  third does at the WAN's own MTU. One slot of learned MTUs; with two, encap
  reads that of the packet's slot, the poller the smaller one. The proofs cover
  any number of both.

**Fairness.** The runtime delivers messages, runs processes and fires armed
timers: weak fairness of the server, of receipt, of handlers and of timers in
`Softwirectl`, `PrefixDelegation`, `LanAdvertising` and `NDProxy`, of `run` and
the poller in `Minuteman`. In `PrefixDelegation` a Solicit or Request that is
retransmitted for ever is granted at last (strong fairness); nothing makes the
server answer anything else. In `NDProxy` the WAN goes on asking, and a host
probed again and again is heard at last. In `LanAdvertising` the lease goes on
being renewed. Crashes, failures, losses, moves and renumberings are never
forced. `Migration` and `DHCPv4` have no fairness: their properties are safety.

## Proofs

Each theorem holds for every value of the constants allowed by the named
assumption of its module; some have one more hypothesis, given below, which is
what the run of the same property sets too. Every invariant and every action
property of a passing run has a theorem. Few of them are inductive as they
stand; the paragraphs say what has to be added. Leaves name the backend that
finds them where the default order would try the other one first.

**Migration.** Any number of CPUs, flows, endpoints and epochs.
- `TypeCorrect`, `SlotsWhole`, `Refinement`. `LiveSlotsWhole` says nothing of the
  call in progress. `SlotInv` adds what each program counter means: the slot
  being written is not one a packet may resolve (`Writing`), the word about to be
  stored points at whole slots (`CuttingOver`), a slot being cleared has left the
  word (`Ending`). `Refinement` follows step by step: stores of the control word
  are abstract steps, everything else stutters.
- `PacketsWhole`. `PacketInv` adds, for each packet in flight, that no call it
  overlaps reaches the slot of its word.
- `CallsListed`: each Loader call, failed or not, leaves the datapath in an
  outcome that `LoaderOps` lists, which is all that `Softwirectl` assumes of it.
  `CallInv` relates the datapath to what it was when the call began: which parts
  each program counter has changed (`Reached`), and in which slot the pair it
  started from is found (`Found`, `OldSlot`).
- `ReadingsBelong`, if calls do not fail and no packet overlaps one
  (`MaxOverlap = 0`, `"fail" \notin Ops`; see Known limits): `PmtuInv` says the
  same of a packet about to record an MTU, and that the slot a call writes has
  none.
- `DrainCountsAll`. `SnapInv` relates the word each packet loaded to the one in
  force; `GCInv` says that an entry the collector is done with carries the epoch
  in force and is counted, although packets insert behind its iterator.
- `LossesReal`.
- `NoLeftoverPinned`, if fewer migrations than epochs begin between two
  collections (`MaxUngced < EpochMod`): an entry is at most `ungced` epochs old,
  so that the epoch in force has not come round to it (`RecordInv`).
- `PrimedStayOnOld`, if nothing collects the table in PRIMING
  (`"gc-priming" \notin Ops`, as the controller has it): `PrimedInv` follows a
  flow through a racing CPU's lookup, insert and touch, up to the choice of slot.

**Softwirectl.** Any number of requests in flight, renumberings and crashes.
- `ActiveAgrees`, `MigrationsKnown` (in `SoftwirectlLemmas`). `SoftwireInv` relates
  the Softwire value and the datapath after each outcome of `LoaderOps`. Nothing
  about the controller is used, so both hold for any sequence of requests.
- `CutoversGated`, whatever fails: a cutover requested, or an answer that will
  make the controller request one, follows a reading of the counters in this
  migration (`GateInv`). It rests on the discipline of the two queues
  (`Discipline`): at most one request or answer is the one awaited, the request
  is the last in its queue, and all others are of an earlier generation.
- `ControllerAgrees`, `RequestsAccepted`, if no Loader call fails (`MaxFails = 0`;
  finding 2 is what happens otherwise). `AgreeInv` says, for each phase of the
  controller and each request or answer still queued, what the Softwire value
  and the datapath are by then.

**DHCPv4.** `TypeCorrect`, `PoolStaysIndexed`, `QuarantineHolds`, `AcksDurable`,
`GrantsDistinct`, `OwnersEnd`. The invariant `Inv` has two parts. `PoolInv`,
types, the two indexes and the quarantine, is inductive by itself. `Backed`
needs it, and holds until a write fails: every stage of the table between disk
and memory backs what a client was told, for at least as long. This is what
`AckDurable` lacks to be inductive, because a write becoming durable promotes
the next stage to the disk. Distinct grants follow from `Backed` and the
indexes.

**PrefixDelegation.** `TimersOrdered`: for every usable IA_PD, `0 < T1 <= T2`,
floor and infinite lifetimes included. `LadderStaysOrdered` and `LanKeepsLease`
use it, with an invariant that also says what the lease of start-up, to which a
restarted process returns, and every IA_PD on its way are. `ClientListens`, about
the exchange process under any abandoned calls: `ClientInv` says what each phase
means for the socket and that the lease process has at most one call queued or
running. `LeasesBacked`: a lease is the server's to honour only if the answer it
came in was, so `BackInv` says this of every answer in the socket to the running
exchange (`MailInv`), and that a call still awaited is of the kind the lease
process is at (`CallsApt`).

**LanAdvertising.** `ChangesAreDue`, `AddressesStay`, for any number of
interfaces: both are inductive once types are known.

**NDProxy.** `ClaimsStayFresh`: a confirmed target was heard no longer ago than
its confirmation is old (`Confirmed`), and ages are told apart up to `activeTTL`
(`Bounded`). `RoutesAlwaysFollow`, for any finite set of targets: where a target's
route leads after the first `n` casts of the mailbox is given by the last of them
about it (`Leads`); the whole mailbox leads to the confirmed interface, and each
removal finds the route it names (`RouteInv`).

**Minuteman.** `SizesFit`: at every MTU IPv6 allows, the derived sizes leave
room for their headers. `FragmentsAlwaysFit` and `FragmentsReassemble`, for
every packet length and path MTU: the invariant says that clones and fragments
of a packet are disjoint, cut with the packet's own unit, and cover it.
`AppsStopFirst` and `ExitsClean`, for any command line and any failures, signals
and kills: `run`'s calls come in one order on every command line (`Rank`), so that
what a call relies on is done (`StartInv`); everything made or opened, the
settings apart, has its deferred call (`KernInv`, `OpenInv`), and `stopApps` runs before what the
applications use is closed (`AppsInv`).

Only model-checked: the liveness properties, which need fairness and so are out
of the prover's reach; and the type invariants of the modules other than
`Migration` and `DHCPv4`.

## Findings

1. `lan_retry`: when a call for an interface fails, `reconcileOne` still returns
   the new subnet, and the next `Reconcile` takes it as unchanged
   (`reconcile.go:87`); after a further change, removing the address that was
   never added fails first (`reconcile.go:93`). The comment at
   `reconcile.go:40-42` says the entry is there for the next call to retry.
2. `softwirectl_stuck_drain`: if `CompleteMigration` fails after storing the
   control word, every retry is refused and the controller stays in Draining.

## Known limits

What the passing runs step around, or the code does not do:

- A packet pinned by the word it loaded can resolve the old slot while
  `CompleteMigration` clears it (`PinnedPacketsWhole`; `migration.go:140`, 165).
- A Packet Too Big between `clearTunnelPMTU` and the slot's update leaves the old
  pair's MTU on the new pair (`config.go:179`, 187).
- After a recovery in mid-migration (`softwire.go:127`) both slots hold one pair,
  and `find_dslite_local_slot` takes the lower one: a learned MTU is recorded on
  slot 0 while encap reads slot 1, although `tunnelpmtu.go:34` has it that "encap
  clamps against the learned value per packet the moment it lands"
  (`PtbLandsOnActive`; `datapath.bpf.c:1839`).
- A renumbering noticed while the cutover's answer is on its way switches new
  flows back to the old AFTR (`SwitchStaysOnNew`; `controller.go:486`).
- A flow lost between reading the counters and the cutover goes unnoticed
  (`CutoverLosesNoFlow`; `controller.go:383`).
- `GCFlowAffinity` is called only outside PRIMING, as the controller does; and
  fewer migrations than epochs begin between two collections.
- A flow that the collector's walk found idle counts as ended: a packet that
  refreshes its entry before the delete does not keep it (`migration.go:266`).
- A watch that restarts goes back to the prefix it was started with: if the WAN
  has meanwhile been renumbered back to that one, the LANs keep the prefix in
  between (`RestartedWatchExtends`; `watch.go:69-71`).
- A delegation without a /64 for an interface leaves its former address there,
  and forgets it (`reconcile.go`).
- An advertiser of the extended prefix that restarts is silent until the WAN's
  prefix next changes.
- A proxy that stops leaves its host routes in the kernel: the route to a host
  the WAN asks for again is corrected then, any other stays.
- When the last application fails to start, the netlink socket, the tunnel and
  the datapath are closed before the first `stopApps`, under the applications
  (`main.go:519`, 529): `StoppedBeforeClosed` excepts such starts.
- A killed process leaves its pidfile (`main.go:531`).
- An orderly exit too leaves the forwarding and `accept_ra` sysctls
  (`sysctl.go:39`; `Close` restores none), the LAN addresses of the delegated
  prefix (`reconcile.go:98`; `DelAddr` is called only when the subnet changes, and
  a new process does not know of the old one's) and the host routes.
  `CleanExit` is about devices, programs, pins and pidfile.

The properties named here are defined in their modules. Added to the
configuration of `migration_slots` (`PinnedPacketsWhole`), `migration_pmtu`
(`PtbLandsOnActive`), `softwirectl_safe` (`SwitchStaysOnNew`,
`CutoverLosesNoFlow`) or `lan_advertising` (`RestartedWatchExtends`), TLC finds
each of them violated.

## Not modelled

- Codecs (netlink, DHCP options, RA, ethtool), header rewriting, command-line
  parsing and statistics: no state that interleaves.
- The DNS proxy: its queries are independent of each other and of all other
  parts; what they share is a count of reads that each query gives back once.
- The HB46PP half of AFTR discovery: HTTP and DNS requests in sequence, which the
  controller sees as an answer or a failure.
- The ICMP rate bucket and IPv6 software RSS in XDP: per-CPU, read by nothing
  else.
- The molecule runtime and its key-value store are external, modelled as the code
  uses them: mailboxes, timers, supervisors, writes that become durable in order.
