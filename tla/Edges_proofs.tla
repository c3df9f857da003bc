---------------------------- MODULE Edges_proofs ----------------------------
(***************************************************************************)
(* Theorems about the ports plugin, for any number of requests, any budget *)
(* and bodies of any length, and about the Cloudflare plugin, for any      *)
(* number of processes, setups and plans.                                  *)
(*                                                                         *)
(* A request has two halves, this side's and the peer's.  What each knows  *)
(* of the other is the heart of the invariant: while a request is under    *)
(* way the browser has seen the blocks that were taken from the peer, and  *)
(* an end that the peer marked is final there.                             *)
(***************************************************************************)
EXTENDS Edges, FiniteSetTheorems, FunctionTheorems, TLAPS

CallStates ==
  [step : {"idle", "read", "resolve", "head", "body"}, phase : {"init", "head", "body"},
   gone : {"no", "early", "late"}, size : Nat, ticket : {0, 1},
   out : {"none", "refused", "broken", "gone", "complete"}, seen : Nat]
PeerStates ==
  [step : {"idle", "check", "connect", "stream", "done", "aborted"},
   up : {"none", "open", "cut", "ended"}, fin : {"none", "head", "fin", "reset"},
   blocks : Nat, taken : Nat]

CallsTyped == call \in [Calls -> CallStates] /\ peer \in [Calls -> PeerStates]

\* This side of a request: nothing is answered before the end, nothing held
\* behind it.
OwnSide(c) ==
  /\ c.step # "idle" => c.out = "none"
  /\ c.step = "idle" => c.ticket = 0
  /\ c.step \in {"read", "resolve"} => c.seen = 0

\* The peer's side: an end is marked when all is done, and the blocks that
\* were taken are some of those there are.
PeerSide(p) ==
  /\ p.fin = "fin" => p.step = "done" /\ p.up # "open"
  /\ p.step \in {"check", "connect"} => p.blocks = 0
  /\ p.step = "check" => p.up # "open"
  /\ p.taken <= p.blocks

\* The two together.
BothSides(c, p) ==
  /\ c.step \in {"head", "body"} => c.seen = p.taken
  /\ c.out = "complete" => c.seen = p.blocks /\ p.fin = "fin"

CallStands(r) == OwnSide(call[r]) /\ PeerSide(peer[r]) /\ BothSides(call[r], peer[r])

Budget == count = Cardinality(InFlight) /\ count <= MaxCount /\ bytes = Cardinality(HeldBytes)

CallInv == CallsTyped /\ (\A r \in Calls : CallStands(r)) /\ Budget

LEMMA IdleTyped == NoCall \in CallStates /\ NoPeer \in PeerStates
  BY DEF NoCall, NoPeer, CallStates, PeerStates

LEMMA CallBase == PortsInit => CallInv
<1> SUFFICES ASSUME PortsInit PROVE CallInv
  OBVIOUS
<1> USE DEF PortsInit
<1>1. CallsTyped
  BY IdleTyped DEF CallsTyped
<1>2. \A r \in Calls : CallStands(r)
  BY DEF CallStands, OwnSide, PeerSide, BothSides, NoCall, NoPeer
<1>3. InFlight = {} /\ HeldBytes = {}
  BY DEF InFlight, HeldBytes, NoCall, Limit
<1> QED
  BY <1>1, <1>2, <1>3, FS_EmptySet, PortsAssumption DEF CallInv, Budget

(***************************************************************************)
(* The budget.  A request holds a byte or none.                            *)
(***************************************************************************)
HoldersIn(t) == {r \in Calls : t[r].ticket = 1}
BytesIn(t) == {h \in Calls \X (1..Limit) : h[2] <= t[h[1]].ticket}
Held == HoldersIn(call)

LEMMA HoldersCounted ==
  ASSUME NEW t \in [Calls -> CallStates]
  PROVE  /\ IsFiniteSet(HoldersIn(t)) /\ Cardinality(HoldersIn(t)) \in Nat
         /\ Cardinality(BytesIn(t)) = Cardinality(HoldersIn(t))
<1> DEFINE f == [r \in HoldersIn(t) |-> <<r, 1>>]
<1>1. IsFiniteSet(HoldersIn(t))
  <2>1. HoldersIn(t) \subseteq Calls
    BY DEF HoldersIn
  <2> QED
    BY <2>1, PortsAssumption, FS_Subset
<1>2. BytesIn(t) = {<<r, 1>> : r \in HoldersIn(t)}
  <2>1. \A r \in Calls, b \in 1..Limit : b <= t[r].ticket <=> b = 1 /\ t[r].ticket = 1
    BY DEF CallStates, Limit
  <2>2. 1 \in 1..Limit
    BY DEF Limit
  <2> QED
    BY <2>1, <2>2 DEF BytesIn, HoldersIn
<1>3. f \in Bijection(HoldersIn(t), BytesIn(t))
  <2>1. f \in [HoldersIn(t) -> BytesIn(t)]
    BY <1>2
  <2>2. \A p, q \in HoldersIn(t) : f[p] = f[q] => p = q
    OBVIOUS
  <2>3. \A h \in BytesIn(t) : \E r \in HoldersIn(t) : f[r] = h
    BY <1>2
  <2> QED
    BY <2>1, <2>2, <2>3, Fun_IsBij, Zenon
<1> QED
  BY <1>1, <1>3, FS_Bijection, FS_CardinalityType DEF ExistsBijection

LEMMA FiniteInFlight == IsFiniteSet(InFlight) /\ Cardinality(InFlight) \in Nat
<1>1. InFlight \subseteq Calls
  BY DEF InFlight
<1> QED
  BY <1>1, PortsAssumption, FS_Subset, FS_CardinalityType

\* Whoever holds bytes is in flight, so the bytes need no bound of their own.
LEMMA BudgetFollows == CallInv => BudgetExact
<1> SUFFICES ASSUME CallInv PROVE BudgetExact
  OBVIOUS
<1>1. Held \subseteq InFlight
  BY DEF CallInv, CallStands, OwnSide, Held, HoldersIn, InFlight
<1>2. Cardinality(Held) <= Cardinality(InFlight)
  BY <1>1, FiniteInFlight, FS_Subset
<1>3. Cardinality(Held) \in Nat /\ bytes = Cardinality(Held)
  BY HoldersCounted DEF CallInv, CallsTyped, Budget, HeldBytes, BytesIn, Held
<1> QED
  BY <1>2, <1>3, FiniteInFlight, PortsAssumption
     DEF CallInv, Budget, BudgetExact, MaxBytes, Limit

LEMMA CleanFollows == CallInv => CleanEnd
  BY DEF CallInv, CallStands, PeerSide, BothSides, CleanEnd

(***************************************************************************)
(* A step of one request leaves the others alone; what it has to show is   *)
(* that the two halves still fit and that the budget follows.              *)
(***************************************************************************)
Weight(c) == IF c.step = "idle" THEN 0 ELSE 1

LEMMA BudgetMoves ==
  ASSUME CallInv, CallsTyped', NEW r \in Calls, NEW c \in CallStates,
         call' = [call EXCEPT ![r] = c],
         count' = count + Weight(c) - Weight(call[r]), count' <= MaxCount,
         bytes' = bytes + c.ticket - call[r].ticket
  PROVE  Budget'
<1> USE DEF Weight
<1>0. CallsTyped /\ Budget /\ call[r] \in CallStates /\ \A q \in Calls : call'[q] = IF q = r THEN c ELSE call[q]
  BY DEF CallInv, CallsTyped
<1>1. count' = Cardinality(InFlight')
  <2>1. CASE c.step = "idle" /\ call[r].step # "idle"
    <3>1. InFlight' = InFlight \ {r} /\ r \in InFlight
      BY <1>0, <2>1 DEF InFlight
    <3>2. Cardinality(InFlight') = Cardinality(InFlight) - 1
      BY <3>1, FiniteInFlight, FS_RemoveElement
    <3> QED
      BY <1>0, <2>1, <3>2, FiniteInFlight DEF Budget
  <2>2. CASE c.step # "idle" /\ call[r].step = "idle"
    <3>1. InFlight' = InFlight \cup {r} /\ r \notin InFlight
      BY <1>0, <2>2 DEF InFlight
    <3>2. Cardinality(InFlight') = Cardinality(InFlight) + 1
      BY <3>1, FiniteInFlight, FS_AddElement
    <3> QED
      BY <1>0, <2>2, <3>2, FiniteInFlight DEF Budget
  <2>3. CASE (c.step = "idle") = (call[r].step = "idle")
    <3>1. InFlight' = InFlight
      BY <1>0, <2>3 DEF InFlight
    <3> QED
      BY <1>0, <2>3, <3>1, FiniteInFlight DEF Budget
  <2> QED
    BY <2>1, <2>2, <2>3
<1>2. bytes' = Cardinality(HeldBytes')
  <2>0. bytes = Cardinality(Held) /\ IsFiniteSet(Held) /\ Cardinality(Held) \in Nat
    BY <1>0, HoldersCounted DEF CallsTyped, Budget, HeldBytes, BytesIn, Held
  <2>1. Cardinality(HeldBytes') = Cardinality(HoldersIn(call'))
    BY HoldersCounted DEF CallsTyped, HeldBytes, BytesIn
  <2>2. c.ticket \in {0, 1} /\ call[r].ticket \in {0, 1}
    BY <1>0 DEF CallStates
  <2>3. CASE c.ticket = 0 /\ call[r].ticket = 1
    <3>1. HoldersIn(call') = Held \ {r} /\ r \in Held
      BY <1>0, <2>3 DEF Held, HoldersIn
    <3>2. Cardinality(HoldersIn(call')) = Cardinality(Held) - 1
      BY <2>0, <3>1, FS_RemoveElement
    <3> QED
      BY <2>0, <2>1, <2>3, <3>2
  <2>4. CASE c.ticket = 1 /\ call[r].ticket = 0
    <3>1. HoldersIn(call') = Held \cup {r} /\ r \notin Held
      BY <1>0, <2>4 DEF Held, HoldersIn
    <3>2. Cardinality(HoldersIn(call')) = Cardinality(Held) + 1
      BY <2>0, <3>1, FS_AddElement
    <3> QED
      BY <2>0, <2>1, <2>4, <3>2
  <2>5. CASE c.ticket = call[r].ticket
    <3>1. HoldersIn(call') = Held
      BY <1>0, <2>5 DEF Held, HoldersIn
    <3> QED
      BY <2>0, <2>1, <2>2, <2>5, <3>1
  <2> QED
    BY <2>2, <2>3, <2>4, <2>5
<1> QED
  BY <1>1, <1>2 DEF Budget

LEMMA RequestMoves ==
  ASSUME CallInv, NEW r \in Calls, NEW c \in CallStates, NEW p \in PeerStates,
         call' = [call EXCEPT ![r] = c], peer' = [peer EXCEPT ![r] = p],
         OwnSide(c), PeerSide(p), BothSides(c, p),
         count' = count + Weight(c) - Weight(call[r]), count' <= MaxCount,
         bytes' = bytes + c.ticket - call[r].ticket
  PROVE  CallInv'
<1>1. CallsTyped'
  BY DEF CallInv, CallsTyped
<1>2. \A q \in Calls : CallStands(q)'
  BY DEF CallInv, CallsTyped, CallStands
<1>3. Budget'
  BY <1>1, BudgetMoves
<1> QED
  BY <1>1, <1>2, <1>3 DEF CallInv

Here(r) == call[r] \in CallStates /\ peer[r] \in PeerStates /\ OwnSide(call[r]) /\ PeerSide(peer[r]) /\ BothSides(call[r], peer[r])

\* What the invariant says of one request and of the counters.
LEMMA Standing ==
  ASSUME CallInv, NEW r \in Calls
  PROVE  /\ Here(r)
         /\ count \in Nat /\ bytes \in Nat /\ count <= MaxCount /\ call[r].ticket \in {0, 1}
         /\ call = [call EXCEPT ![r] = call[r]] /\ peer = [peer EXCEPT ![r] = peer[r]]
<1>1. count \in Nat /\ bytes \in Nat
  BY FiniteInFlight, HoldersCounted DEF CallInv, CallsTyped, Budget, HeldBytes, BytesIn
<1>2. call = [call EXCEPT ![r] = call[r]] /\ peer = [peer EXCEPT ![r] = peer[r]]
  BY DEF CallInv, CallsTyped
<1> QED
  BY <1>1, <1>2 DEF CallInv, CallsTyped, CallStands, CallStates, Budget, Here

\* Only the peer's half moves.
LEMMA PeerMoves ==
  ASSUME CallInv, NEW r \in Calls, NEW p \in PeerStates,
         UNCHANGED <<call, count, bytes>>, peer' = [peer EXCEPT ![r] = p],
         PeerSide(p), BothSides(call[r], p)
  PROVE  CallInv'
<1>1. call' = [call EXCEPT ![r] = call[r]] /\ call[r] \in CallStates /\ OwnSide(call[r])
  BY Standing DEF Here
<1>2. /\ count' = count + Weight(call[r]) - Weight(call[r]) /\ count' <= MaxCount
      /\ bytes' = bytes + call[r].ticket - call[r].ticket
  BY Standing DEF Weight
<1> QED
  BY <1>1, <1>2, RequestMoves

\* This side's half ends, whatever the reason.
LEMMA EndMoves ==
  ASSUME CallInv, NEW r \in Calls, NEW p \in PeerStates,
         NEW out \in {"refused", "broken", "gone", "complete"},
         call[r].step # "idle", End(r, out), peer' = [peer EXCEPT ![r] = p], PeerSide(p),
         out = "complete" => call[r].seen = p.blocks /\ p.fin = "fin"
  PROVE  CallInv'
<1> DEFINE c == [call[r] EXCEPT !.step = "idle", !.out = IF call[r].gone # "no" THEN "gone" ELSE out, !.ticket = 0]
<1>0. Here(r) /\ count \in Nat /\ bytes \in Nat /\ count <= MaxCount /\ call[r].ticket \in {0, 1}
  BY Standing
<1>1. /\ c \in CallStates /\ c.step = "idle" /\ c.ticket = 0 /\ c.seen = call[r].seen
      /\ c.out \in {"gone", out}
  BY <1>0 DEF CallStates, Here
<1>2. call' = [call EXCEPT ![r] = c] /\ count' = count - 1 /\ bytes' = bytes - call[r].ticket
  BY DEF End, With
<1> HIDE DEF c
<1>3. OwnSide(c) /\ BothSides(c, p)
  BY <1>1 DEF OwnSide, BothSides
<1>4. count' = count + Weight(c) - Weight(call[r]) /\ count' <= MaxCount /\ bytes' = bytes + c.ticket - call[r].ticket
  BY <1>0, <1>1, <1>2, PortsAssumption DEF Weight
<1> QED
  BY <1>1, <1>2, <1>3, <1>4, RequestMoves

(***************************************************************************)
(* This side of a request, and the session between the two.                *)
(***************************************************************************)
LEMMA handleStep ==
  ASSUME CallInv, NEW r \in Calls, NEW known \in BOOLEAN, NEW size \in 0..(Limit + 1), handle(r, known, size)
  PROVE  CallInv'
<1> DEFINE initial == IF known THEN size ELSE 0
<1>0. Here(r) /\ count \in Nat /\ bytes \in Nat /\ count <= MaxCount
  BY Standing
<1>1. /\ call[r].step = "idle" /\ call[r].out = "none" /\ call[r].ticket = 0
      /\ peer' = [peer EXCEPT ![r] = peer[r]] /\ PeerSide(peer[r])
  BY <1>0, Standing DEF handle, Here, OwnSide
<1>2. CASE (known /\ Over(size)) \/ ~TryAcquire(initial)
  <2> DEFINE c == [NoCall EXCEPT !.out = "refused"]
  <2>1. call' = [call EXCEPT ![r] = c] /\ count' = count /\ bytes' = bytes
    BY <1>2 DEF handle, With
  <2>2. c \in CallStates /\ c.step = "idle" /\ c.ticket = 0 /\ c.out = "refused"
    BY DEF NoCall, CallStates
  <2> HIDE DEF c
  <2>3. OwnSide(c) /\ BothSides(c, peer[r])
    BY <2>2 DEF OwnSide, BothSides
  <2>4. /\ count' = count + Weight(c) - Weight(call[r]) /\ count' <= MaxCount
        /\ bytes' = bytes + c.ticket - call[r].ticket
    BY <1>0, <1>1, <2>1, <2>2 DEF Weight
  <2> QED
    BY <1>0, <1>1, <2>1, <2>2, <2>3, <2>4, RequestMoves DEF Here
<1>3. CASE ~((known /\ Over(size)) \/ ~TryAcquire(initial))
  <2> DEFINE c == [NoCall EXCEPT !.step = "read", !.size = size, !.ticket = initial]
  <2>1. call' = [call EXCEPT ![r] = c] /\ count' = count + 1 /\ bytes' = bytes + initial
    BY <1>3 DEF handle, With
  <2>2. initial \in {0, 1} /\ size \in Nat /\ count + 1 <= MaxCount
    BY <1>0, <1>3 DEF Over, TryAcquire, Limit
  <2>3. c \in CallStates /\ c.step = "read" /\ c.ticket = initial /\ c.out = "none" /\ c.seen = 0
    BY <2>2 DEF NoCall, CallStates
  <2> HIDE DEF c
  <2>4. OwnSide(c) /\ BothSides(c, peer[r])
    BY <2>3 DEF OwnSide, BothSides
  <2>5. /\ count' = count + Weight(c) - Weight(call[r]) /\ count' <= MaxCount
        /\ bytes' = bytes + c.ticket - call[r].ticket
    BY <1>0, <1>1, <2>1, <2>2, <2>3 DEF Weight
  <2> QED
    BY <1>0, <1>1, <2>1, <2>3, <2>4, <2>5, RequestMoves DEF Here
<1> QED
  BY <1>2, <1>3

LEMMA BodyReadStep ==
  ASSUME CallInv, NEW r \in Calls, BodyRead(r)
  PROVE  CallInv'
<1>0. Here(r) /\ count \in Nat /\ bytes \in Nat /\ count <= MaxCount
  BY Standing
<1>1. call[r].step = "read" /\ peer' = [peer EXCEPT ![r] = peer[r]] /\ PeerSide(peer[r])
  BY <1>0, Standing DEF BodyRead, Here
<1>2. CASE Over(call[r].size) \/ call[r].gone # "no"
  <2>1. End(r, "broken")
    BY <1>2 DEF BodyRead
  <2> QED
    BY <1>0, <1>1, <2>1, EndMoves DEF Here
<1>3. CASE ~(Over(call[r].size) \/ call[r].gone # "no")
  <2> DEFINE c == [call[r] EXCEPT !.step = "resolve", !.ticket = call[r].size]
  <2>1. call' = [call EXCEPT ![r] = c] /\ count' = count /\ bytes' = bytes - call[r].ticket + call[r].size
    BY <1>3 DEF BodyRead, With
  <2>2. call[r].size \in {0, 1} /\ call[r].ticket \in {0, 1}
    BY <1>0, <1>3 DEF Over, Limit, Here, CallStates
  <2>3. /\ c \in CallStates /\ c.step = "resolve" /\ c.ticket = call[r].size
        /\ c.out = call[r].out /\ c.seen = call[r].seen
    BY <1>0, <2>2 DEF Here, CallStates
  <2> HIDE DEF c
  <2>4. OwnSide(c) /\ BothSides(c, peer[r])
    BY <1>0, <1>1, <2>3 DEF Here, OwnSide, BothSides
  <2>5. /\ count' = count + Weight(c) - Weight(call[r]) /\ count' <= MaxCount
        /\ bytes' = bytes + c.ticket - call[r].ticket
    BY <1>0, <1>1, <2>1, <2>2, <2>3 DEF Weight
  <2> QED
    BY <1>0, <1>1, <2>1, <2>3, <2>4, <2>5, RequestMoves DEF Here
<1> QED
  BY <1>2, <1>3

LEMMA ResolveStep ==
  ASSUME CallInv, NEW r \in Calls, Resolve(r)
  PROVE  CallInv'
<1>0. Here(r) /\ count \in Nat /\ bytes \in Nat /\ count <= MaxCount
  BY Standing
<1>1. call[r].step = "resolve"
  BY DEF Resolve
<1>2. CASE End(r, "refused") /\ UNCHANGED peer
  BY <1>0, <1>1, <1>2, Standing, EndMoves DEF Here
<1>3. CASE /\ With(r, [call[r] EXCEPT !.step = "head", !.phase = "head"])
           /\ peer' = [peer EXCEPT ![r] = [NoPeer EXCEPT !.step = "check"]]
           /\ UNCHANGED <<count, bytes>>
  <2> DEFINE c == [call[r] EXCEPT !.step = "head", !.phase = "head"]
             p == [NoPeer EXCEPT !.step = "check"]
  <2>1. /\ call' = [call EXCEPT ![r] = c] /\ peer' = [peer EXCEPT ![r] = p]
        /\ count' = count /\ bytes' = bytes
    BY <1>3 DEF With
  <2>2. /\ c \in CallStates /\ c.step = "head" /\ c.ticket = call[r].ticket
        /\ c.out = call[r].out /\ c.seen = call[r].seen
    BY <1>0 DEF Here, CallStates
  <2>3. p \in PeerStates /\ PeerSide(p) /\ p.taken = 0
    BY DEF NoPeer, PeerStates, PeerSide
  <2> HIDE DEF c, p
  <2>4. OwnSide(c) /\ BothSides(c, p)
    BY <1>0, <1>1, <2>2, <2>3 DEF Here, OwnSide, BothSides
  <2>5. /\ count' = count + Weight(c) - Weight(call[r]) /\ count' <= MaxCount
        /\ bytes' = bytes + c.ticket - call[r].ticket
    BY <1>0, <1>1, <2>1, <2>2 DEF Weight, Here, CallStates
  <2> QED
    BY <2>1, <2>2, <2>3, <2>4, <2>5, RequestMoves
<1> QED
  BY <1>2, <1>3 DEF Resolve

\* A RESET leaves the blocks as they are and marks no end.
AfterReset(p) == [p EXCEPT !.step = IF p.step \in {"idle", "done"} THEN p.step ELSE "aborted", !.fin = "reset",
                      !.up = IF p.up = "open" THEN "cut" ELSE p.up]
LEMMA ResetFacts ==
  ASSUME NEW p \in PeerStates, PeerSide(p)
  PROVE  /\ AfterReset(p) \in PeerStates /\ PeerSide(AfterReset(p)) /\ AfterReset(p).fin = "reset"
         /\ AfterReset(p).taken = p.taken /\ AfterReset(p).blocks = p.blocks
<1>1. /\ AfterReset(p) \in PeerStates /\ AfterReset(p).fin = "reset" /\ AfterReset(p).step \notin {"check", "connect"}
      /\ AfterReset(p).taken = p.taken /\ AfterReset(p).blocks = p.blocks
  BY DEF AfterReset, PeerStates
<1> QED
  BY <1>1 DEF PeerSide

LEMMA ResetMaps ==
  ASSUME CallsTyped, NEW r \in Calls, Reset(r)
  PROVE  peer' = [peer EXCEPT ![r] = AfterReset(peer[r])]
  BY DEF Reset, AfterReset, CallsTyped, PeerStates

LEMMA ResponseHeadStep ==
  ASSUME CallInv, NEW r \in Calls, ResponseHead(r)
  PROVE  CallInv'
<1>0. Here(r) /\ count \in Nat /\ bytes \in Nat /\ count <= MaxCount /\ CallsTyped
  BY Standing DEF CallInv
<1>1. call[r].step = "head" /\ peer[r] \in PeerStates /\ PeerSide(peer[r])
  BY <1>0 DEF ResponseHead, Here
<1>2. CASE peer[r].fin = "reset"
  <2>1. End(r, "refused") /\ peer' = [peer EXCEPT ![r] = peer[r]]
    BY <1>2, Standing DEF ResponseHead
  <2> QED
    BY <1>1, <2>1, EndMoves
<1>3. CASE peer[r].fin # "reset" /\ call[r].gone # "no"
  <2>1. End(r, "gone") /\ Reset(r)
    BY <1>3 DEF ResponseHead
  <2> QED
    BY <1>0, <1>1, <2>1, ResetFacts, ResetMaps, EndMoves
<1>4. CASE peer[r].fin # "reset" /\ call[r].gone = "no"
  <2> DEFINE c == [call[r] EXCEPT !.step = "body", !.phase = "body"]
  <2>1. /\ call' = [call EXCEPT ![r] = c] /\ peer' = [peer EXCEPT ![r] = peer[r]]
        /\ count' = count /\ bytes' = bytes
    BY <1>4, Standing DEF ResponseHead, With
  <2>2. /\ c \in CallStates /\ c.step = "body" /\ c.ticket = call[r].ticket
        /\ c.out = call[r].out /\ c.seen = call[r].seen
    BY <1>0 DEF Here, CallStates
  <2> HIDE DEF c
  <2>3. OwnSide(c) /\ BothSides(c, peer[r])
    BY <1>0, <1>1, <2>2 DEF Here, OwnSide, BothSides
  <2>4. /\ count' = count + Weight(c) - Weight(call[r]) /\ count' <= MaxCount
        /\ bytes' = bytes + c.ticket - call[r].ticket
    BY <1>0, <1>1, <2>1, <2>2 DEF Weight, Here, CallStates
  <2> QED
    BY <1>1, <2>1, <2>2, <2>3, <2>4, RequestMoves
<1> QED
  BY <1>2, <1>3, <1>4

LEMMA PumpStep ==
  ASSUME CallInv, NEW r \in Calls, Pump(r)
  PROVE  CallInv'
<1>0. Here(r) /\ count \in Nat /\ bytes \in Nat /\ count <= MaxCount
  BY Standing
<1>1. call[r].step = "body" /\ peer[r] \in PeerStates /\ PeerSide(peer[r]) /\ call[r].seen = peer[r].taken
  BY <1>0 DEF Pump, Here, BothSides
<1>2. CASE peer[r].fin = "reset"
  <2>1. End(r, Failed(r)) /\ peer' = [peer EXCEPT ![r] = peer[r]] /\ Failed(r) \in {"refused", "broken"}
    BY <1>2, Standing DEF Pump, Failed
  <2> QED
    BY <1>1, <2>1, EndMoves
<1>3. CASE peer[r].fin # "reset" /\ peer[r].taken < peer[r].blocks
  <2> DEFINE p == [peer[r] EXCEPT !.taken = peer[r].taken + 1]
  <2>1. peer' = [peer EXCEPT ![r] = p]
    BY <1>0, <1>3 DEF Pump, Here
  <2>2. p \in PeerStates /\ p.taken = call[r].seen + 1 /\ p.blocks = peer[r].blocks /\ p.fin = peer[r].fin
        /\ p.step = peer[r].step /\ p.up = peer[r].up
    BY <1>1 DEF PeerStates
  <2> HIDE DEF p
  <2>3. PeerSide(p)
    BY <1>1, <1>3, <2>2 DEF PeerSide, PeerStates
  <2>4. CASE call[r].gone # "no"
    <3>1. End(r, "gone")
      BY <1>3, <2>4 DEF Pump
    <3> QED
      BY <1>1, <2>1, <2>2, <2>3, <3>1, EndMoves
  <2>5. CASE call[r].gone = "no"
    <3> DEFINE c == [call[r] EXCEPT !.seen = call[r].seen + 1]
    <3>1. call' = [call EXCEPT ![r] = c] /\ count' = count /\ bytes' = bytes
      BY <1>0, <1>3, <2>5 DEF Pump, With, Here
    <3>2. /\ c \in CallStates /\ c.step = "body" /\ c.ticket = call[r].ticket
          /\ c.out = call[r].out /\ c.seen = call[r].seen + 1
      BY <1>0, <1>1 DEF Here, CallStates
    <3> HIDE DEF c
    <3>3. OwnSide(c) /\ BothSides(c, p)
      BY <1>0, <1>1, <2>2, <3>2 DEF Here, OwnSide, BothSides
    <3>4. /\ count' = count + Weight(c) - Weight(call[r]) /\ count' <= MaxCount
          /\ bytes' = bytes + c.ticket - call[r].ticket
      BY <1>0, <1>1, <3>1, <3>2 DEF Weight, Here, CallStates
    <3> QED
      BY <2>1, <2>2, <2>3, <3>1, <3>2, <3>3, <3>4, RequestMoves
  <2> QED
    BY <2>4, <2>5
<1>4. CASE peer[r].fin # "reset" /\ ~(peer[r].taken < peer[r].blocks)
  <2>1. peer[r].fin = "fin" /\ End(r, "complete") /\ peer' = [peer EXCEPT ![r] = peer[r]]
    BY <1>4, Standing DEF Pump
  <2>2. call[r].seen = peer[r].blocks
    BY <1>1, <1>4 DEF PeerSide, PeerStates
  <2> QED
    BY <1>1, <2>1, <2>2, EndMoves
<1> QED
  BY <1>2, <1>3, <1>4

LEMMA LocalGoneStep ==
  ASSUME CallInv, NEW r \in Calls, LocalGone(r)
  PROVE  CallInv'
<1> DEFINE c == [call[r] EXCEPT !.gone = IF call[r].phase = "init" THEN "early" ELSE "late"]
<1>0. Here(r) /\ count \in Nat /\ bytes \in Nat /\ count <= MaxCount /\ CallsTyped
  BY Standing DEF CallInv
<1>1. call[r].step # "idle" /\ call' = [call EXCEPT ![r] = c] /\ count' = count /\ bytes' = bytes
  BY DEF LocalGone, With
<1>2. /\ c \in CallStates /\ c.step = call[r].step /\ c.ticket = call[r].ticket
      /\ c.out = call[r].out /\ c.seen = call[r].seen
  BY <1>0 DEF Here, CallStates
<1> HIDE DEF c
<1>3. /\ count' = count + Weight(c) - Weight(call[r]) /\ count' <= MaxCount
      /\ bytes' = bytes + c.ticket - call[r].ticket
  BY <1>0, <1>1, <1>2 DEF Weight, Here, CallStates
<1>4. CASE call[r].phase = "init"
  <2>1. peer' = [peer EXCEPT ![r] = peer[r]]
    BY <1>4, Standing DEF LocalGone
  <2>2. OwnSide(c) /\ BothSides(c, peer[r])
    BY <1>0, <1>2 DEF Here, OwnSide, BothSides
  <2> QED
    BY <1>0, <1>1, <1>2, <1>3, <2>1, <2>2, RequestMoves DEF Here
<1>5. CASE call[r].phase # "init"
  <2>1. peer' = [peer EXCEPT ![r] = AfterReset(peer[r])]
    BY <1>0, <1>5, ResetMaps DEF LocalGone
  <2>2. /\ AfterReset(peer[r]) \in PeerStates /\ PeerSide(AfterReset(peer[r]))
        /\ AfterReset(peer[r]).taken = peer[r].taken /\ AfterReset(peer[r]).blocks = peer[r].blocks
    BY <1>0, ResetFacts DEF Here
  <2>3. OwnSide(c) /\ BothSides(c, AfterReset(peer[r]))
    BY <1>0, <1>1, <1>2, <2>2 DEF Here, OwnSide, BothSides
  <2> QED
    BY <1>1, <1>2, <1>3, <2>1, <2>2, <2>3, RequestMoves
<1> QED
  BY <1>4, <1>5

LEMMA SessionLostStep ==
  ASSUME CallInv, NEW r \in Calls, SessionLost(r)
  PROVE  CallInv'
<1>1. Here(r) /\ CallsTyped /\ call[r].step # "idle" /\ Reset(r)
  BY Standing DEF CallInv, SessionLost
<1>2. /\ peer' = [peer EXCEPT ![r] = AfterReset(peer[r])] /\ AfterReset(peer[r]) \in PeerStates
      /\ PeerSide(AfterReset(peer[r])) /\ AfterReset(peer[r]).taken = peer[r].taken
  BY <1>1, ResetMaps, ResetFacts DEF Here
<1>3. BothSides(call[r], AfterReset(peer[r]))
  BY <1>1, <1>2 DEF Here, OwnSide, BothSides
<1> QED
  BY <1>2, <1>3, PeerMoves DEF SessionLost

\* The deadline of a stop: a request that had not been sent is only told.
LEMMA CancelStep ==
  ASSUME CallInv, CancelAll, UNCHANGED <<count, bytes>>
  PROVE  CallInv'
<1>0. \A r \in Calls : Here(r)
  BY Standing
<1>1. ASSUME NEW r \in Calls
      PROVE  /\ call'[r] \in CallStates /\ call'[r].step = call[r].step /\ call'[r].ticket = call[r].ticket
             /\ call'[r].out = call[r].out /\ call'[r].seen = call[r].seen
  BY <1>0 DEF CancelAll, Here, CallStates
<1>2. ASSUME NEW r \in Calls
      PROVE  peer'[r] = peer[r] \/ (call[r].step # "idle" /\ peer'[r] = AfterReset(peer[r]))
  BY <1>0 DEF CancelAll, AfterReset, Here, PeerStates
<1>3. ASSUME NEW r \in Calls
      PROVE  peer'[r] \in PeerStates /\ PeerSide(peer'[r]) /\ peer'[r].taken = peer[r].taken
             /\ (peer'[r] = peer[r] \/ call[r].step # "idle")
  BY <1>0, <1>2, ResetFacts DEF Here
<1>4. CallsTyped'
  <2>1. call' = [r \in Calls |-> call'[r]] /\ peer' = [r \in Calls |-> peer'[r]]
    BY DEF CancelAll
  <2> QED
    BY <1>1, <1>3, <2>1 DEF CallsTyped
<1>5. \A r \in Calls : CallStands(r)'
  BY <1>0, <1>1, <1>3 DEF CallStands, OwnSide, BothSides, Here
<1>6. Budget'
  <2>1. InFlight' = InFlight
    BY <1>1 DEF InFlight
  <2>2. HeldBytes' = HeldBytes
    BY <1>1 DEF HeldBytes
  <2> QED
    BY <2>1, <2>2 DEF Budget, CallInv
<1> QED
  BY <1>4, <1>5, <1>6 DEF CallInv

(***************************************************************************)
(* The peer's side.                                                        *)
(***************************************************************************)
\* The peer works on a request: blocks come, an end comes last.
Provided(q, p) ==
  /\ q.step \in {"check", "connect", "stream"} /\ p.step # "check"
  /\ p.step = "connect" => p.blocks = 0
  /\ p.taken = q.taken /\ p.blocks >= q.blocks
  /\ p.fin = "fin" => p.step = "done" /\ p.up # "open"

LEMMA ProviderMoves ==
  ASSUME CallInv, NEW r \in Calls, NEW p \in PeerStates,
         UNCHANGED <<call, count, bytes>>, peer' = [peer EXCEPT ![r] = p], Provided(peer[r], p)
  PROVE  CallInv'
<1>0. Here(r) /\ PeerSide(peer[r]) /\ peer[r] \in PeerStates
  BY Standing DEF Here
<1>1. PeerSide(p)
  BY <1>0 DEF Provided, PeerSide, PeerStates
<1>2. BothSides(call[r], p)
  BY <1>0 DEF Provided, Here, PeerSide, BothSides
<1> QED
  BY <1>1, <1>2, PeerMoves

LEMMA ProviderSteps ==
  ASSUME CallInv, NEW r \in Calls,
         Check(r) \/ Connected(r) \/ UpstreamData(r) \/ UpstreamEnd(r) \/ UpstreamBroken(r)
  PROVE  CallInv'
<1>0. /\ peer[r] \in PeerStates /\ PeerSide(peer[r]) /\ UNCHANGED <<call, count, bytes>>
      /\ peer[r].blocks \in Nat /\ peer[r].taken \in Nat
  BY Standing DEF Here, Check, Connected, UpstreamData, UpstreamEnd, UpstreamBroken, PeerStates
<1>1. ASSUME Check(r), allowed PROVE CallInv'
  <2> DEFINE p == [peer[r] EXCEPT !.step = "connect", !.up = "open"]
  <2>1. peer[r].blocks = 0 /\ peer[r].fin # "fin" /\ peer[r].step = "check" /\ peer' = [peer EXCEPT ![r] = p]
    BY <1>0, <1>1 DEF Check, P, PeerSide
  <2>2. /\ p \in PeerStates /\ p.step = "connect" /\ p.blocks = 0 /\ p.taken = peer[r].taken
        /\ p.fin = peer[r].fin
    BY <1>0, <2>1 DEF PeerStates
  <2> HIDE DEF p
  <2>3. Provided(peer[r], p)
    BY <1>0, <2>1, <2>2 DEF Provided, PeerSide
  <2> QED
    BY <1>0, <2>1, <2>2, <2>3, ProviderMoves
<1>2. ASSUME NEW u \in {"cut", peer[r].up}, u # "open", peer[r].step \in {"check", "connect"},
             peer' = [peer EXCEPT ![r] = [peer[r] EXCEPT !.step = "done", !.fin = "fin", !.blocks = 1, !.up = u]]
      PROVE CallInv'
  <2> DEFINE p == [peer[r] EXCEPT !.step = "done", !.fin = "fin", !.blocks = 1, !.up = u]
  <2>1. peer[r].blocks = 0 /\ peer' = [peer EXCEPT ![r] = p]
    BY <1>0, <1>2 DEF PeerSide
  <2>2. p \in PeerStates /\ p.step = "done" /\ p.blocks = 1 /\ p.taken = peer[r].taken /\ p.up = u
    BY <1>0, <1>2 DEF PeerStates
  <2> HIDE DEF p
  <2>3. Provided(peer[r], p)
    BY <1>0, <1>2, <2>1, <2>2 DEF Provided
  <2> QED
    BY <1>0, <2>1, <2>2, <2>3, ProviderMoves
<1>3. ASSUME Connected(r), P(r, [peer[r] EXCEPT !.step = "stream", !.fin = "head"])
      PROVE  CallInv'
  <2> DEFINE p == [peer[r] EXCEPT !.step = "stream", !.fin = "head"]
  <2>1. peer' = [peer EXCEPT ![r] = p] /\ peer[r].step = "connect"
    BY <1>3 DEF Connected, P
  <2>2. /\ p \in PeerStates /\ p.step = "stream" /\ p.blocks = peer[r].blocks /\ p.taken = peer[r].taken
        /\ p.fin = "head"
    BY <1>0 DEF PeerStates
  <2> HIDE DEF p
  <2>3. Provided(peer[r], p)
    BY <1>0, <2>1, <2>2 DEF Provided, PeerSide
  <2> QED
    BY <1>0, <2>1, <2>2, <2>3, ProviderMoves
<1>4. ASSUME UpstreamData(r) PROVE CallInv'
  <2> DEFINE p == [peer[r] EXCEPT !.blocks = peer[r].blocks + 1]
  <2>1. peer[r].step = "stream" /\ peer[r].fin # "fin" /\ peer' = [peer EXCEPT ![r] = p]
    BY <1>0, <1>4 DEF UpstreamData, P, PeerStates, PeerSide
  <2>2. /\ p \in PeerStates /\ p.step = "stream" /\ p.blocks = peer[r].blocks + 1 /\ p.taken = peer[r].taken
        /\ p.fin = peer[r].fin
    BY <1>0, <2>1 DEF PeerStates
  <2> HIDE DEF p
  <2>3. Provided(peer[r], p)
    BY <1>0, <2>1, <2>2 DEF Provided, PeerSide
  <2> QED
    BY <1>0, <2>1, <2>2, <2>3, ProviderMoves
<1>5. ASSUME UpstreamEnd(r) PROVE CallInv'
  <2> DEFINE p == [peer[r] EXCEPT !.step = "done", !.fin = "fin", !.up = "ended"]
  <2>1. peer[r].step = "stream" /\ peer' = [peer EXCEPT ![r] = p]
    BY <1>5 DEF UpstreamEnd, P
  <2>2. /\ p \in PeerStates /\ p.step = "done" /\ p.blocks = peer[r].blocks /\ p.taken = peer[r].taken
        /\ p.up = "ended"
    BY <1>0 DEF PeerStates
  <2> HIDE DEF p
  <2>3. Provided(peer[r], p)
    BY <1>0, <2>1, <2>2 DEF Provided, PeerSide
  <2> QED
    BY <1>0, <2>1, <2>2, <2>3, ProviderMoves
<1>6. ASSUME UpstreamBroken(r) PROVE CallInv'
  <2> DEFINE p == [peer[r] EXCEPT !.step = "aborted", !.fin = "reset", !.up = "cut"]
  <2>1. peer[r].step = "stream" /\ peer' = [peer EXCEPT ![r] = p]
    BY <1>6 DEF UpstreamBroken, abortUpstream, P
  <2>2. /\ p \in PeerStates /\ p.step = "aborted" /\ p.blocks = peer[r].blocks /\ p.taken = peer[r].taken
        /\ p.fin = "reset"
    BY <1>0 DEF PeerStates
  <2> HIDE DEF p
  <2>3. Provided(peer[r], p)
    BY <1>0, <2>1, <2>2 DEF Provided, PeerSide
  <2> QED
    BY <1>0, <2>1, <2>2, <2>3, ProviderMoves
<1>7. ASSUME Check(r), ~allowed PROVE CallInv'
  <2>1. peer[r].step = "check" /\ peer[r].up # "open"
    BY <1>0, <1>7 DEF Check, PeerSide
  <2>2. peer' = [peer EXCEPT ![r] = [peer[r] EXCEPT !.step = "done", !.fin = "fin", !.blocks = 1, !.up = peer[r].up]]
    BY <1>0, <1>7 DEF Check, Static, P, PeerStates
  <2> QED
    BY <2>1, <2>2, <1>2
<1>8. ASSUME Connected(r) PROVE CallInv'
  <2>1. CASE P(r, [peer[r] EXCEPT !.step = "done", !.fin = "fin", !.blocks = 1, !.up = "cut"])
    BY <2>1, <1>2, <1>8 DEF Connected, P
  <2>2. CASE P(r, [peer[r] EXCEPT !.step = "stream", !.fin = "head"])
    BY <2>2, <1>3, <1>8
  <2> QED
    BY <1>8, <2>1, <2>2 DEF Connected
<1> QED
  BY <1>1, <1>4, <1>5, <1>6, <1>7, <1>8

LEMMA CallsStay == CallInv /\ UNCHANGED callVars => CallInv'
<1> SUFFICES ASSUME CallInv, UNCHANGED callVars PROVE CallInv'
  OBVIOUS
<1>1. UNCHANGED <<count, bytes, call, peer>>
  BY DEF callVars
<1>2. CallsTyped' /\ \A r \in Calls : CallStands(r)'
  BY <1>1 DEF CallInv, CallsTyped, CallStands
<1>3. Budget'
  BY <1>1 DEF CallInv, Budget, InFlight, HeldBytes
<1> QED
  BY <1>2, <1>3 DEF CallInv

LEMMA DrainedCalls == ASSUME CallInv, NEW o \in Orders, Drained(o) PROVE CallInv'
<1>1. UNCHANGED <<count, bytes>>
  BY DEF Drained
<1>2. CASE InFlight = {}
  <2>1. UNCHANGED callVars
    BY <1>2 DEF Drained, callVars
  <2> QED
    BY <2>1, CallsStay
<1> QED
  BY <1>1, <1>2, CancelStep DEF Drained

LEMMA CallKept == CallInv /\ (CallNext \/ ListenNext) => CallInv'
<1> SUFFICES ASSUME CallInv, CallNext \/ ListenNext PROVE CallInv'
  OBVIOUS
<1>1. CASE \E r \in Calls, known \in BOOLEAN, size \in 0..(Limit + 1) : handle(r, known, size)
  BY <1>1, handleStep
<1>2. CASE \E r \in Calls : CallSteps(r) \/ LocalGone(r) \/ SessionLost(r)
  BY <1>2, BodyReadStep, ResolveStep, ResponseHeadStep, PumpStep, LocalGoneStep, SessionLostStep, ProviderSteps
     DEF CallSteps
<1>3. CASE \E r \in Calls : Connected(r) \/ UpstreamData(r) \/ UpstreamEnd(r) \/ UpstreamBroken(r)
  BY <1>3, ProviderSteps
<1>4. CASE \E o \in Orders : Drained(o)
  BY <1>4, DrainedCalls
<1>5. ASSUME \/ Allow(TRUE) \/ Allow(FALSE)
             \/ \E o \in Orders :
                  \/ addMapping(o) \/ removeMapping(o) \/ setMappingEnabled(o, TRUE) \/ setMappingEnabled(o, FALSE)
                  \/ startEnabledMappings(o) \/ stopAll(o)
                  \/ Listen(o) \/ StartIfRunning(o) \/ Erase(o) \/ SaveOff(o) \/ Disposed(o)
      PROVE CallInv'
  <2>1. UNCHANGED <<count, bytes, call, peer>>
    BY <1>5 DEF Allow, addMapping, removeMapping, setMappingEnabled, startEnabledMappings, stopAll, Listen,
       StartIfRunning, Erase, SaveOff, Disposed, callVars
  <2>2. CallsTyped' /\ \A r \in Calls : CallStands(r)'
    BY <2>1 DEF CallInv, CallsTyped, CallStands
  <2>3. Budget'
    BY <2>1 DEF CallInv, Budget, InFlight, HeldBytes
  <2> QED
    BY <2>2, <2>3 DEF CallInv
<1> QED
  BY <1>1, <1>2, <1>3, <1>4, <1>5 DEF CallNext, ListenNext, OrderSteps

-----------------------------------------------------------------------------
LEMMA PartsApart ==
  ASSUME [Next]_vars
  PROVE  CallNext \/ ListenNext \/ UNCHANGED portsVars
  BY DEF Next, vars, CfOnly, TrayOnly

\* A response that the browser takes for whole is whole, and the budget is
\* what the requests in flight hold and within its limits (proxy.mjs, handle
\* and the pump; provider.mjs), whatever breaks and however many requests and
\* management calls there are.
THEOREM RequestsAlwaysSound == Spec => [](CleanEnd /\ BudgetExact)
<1>1. Init => CallInv
  BY CallBase DEF Init
<1>2. CallInv /\ [Next]_vars => CallInv'
  BY PartsApart, CallKept, CallsStay DEF portsVars
<1>3. CallInv => CleanEnd /\ BudgetExact
  BY CleanFollows, BudgetFollows
<1> QED
  BY <1>1, <1>2, <1>3, PTL DEF Spec

(***************************************************************************)
(* The Cloudflare connector.  Whoever lives is known: the startup's child, *)
(* the active one, or the one a stop waits for, and never two of them are  *)
(* there at once.                                                          *)
(***************************************************************************)
KidStates == [proc : {"none", "resolving", "asked", "up", "dead", "unborn"},
              settled : BOOLEAN, stopping : BOOLEAN, grace : BOOLEAN, told : BOOLEAN]
KidsTyped ==
  /\ kid \in [Kids -> KidStates] /\ begun \in 0..MaxKids
  /\ tunnelStart \in 0..MaxKids /\ tunnelChild \in 0..MaxKids /\ stopping \in 0..MaxKids
  /\ tunnelStopAll \in {"no", "pending", "active"}

KidStands(k) ==
  /\ k > begun => kid[k].proc = "none" /\ ~kid[k].settled
  /\ kid[k].proc # "none" /\ ~kid[k].settled => tunnelStart = k
  /\ kid[k].proc = "resolving" /\ kid[k].settled => kid[k].stopping
  /\ kid[k].grace => kid[k].proc \in {"up", "dead", "unborn"}
  /\ Alive(k) => k \in {tunnelStart, tunnelChild, stopping}

\* Startup, active child and stop exclude one another.
OneRole ==
  /\ tunnelStart <= begun
  /\ tunnelStart # 0 => tunnelChild = 0
  /\ tunnelStopAll = "no" => stopping = 0
  /\ tunnelStopAll # "no" => tunnelStart = 0
  /\ tunnelStopAll # "no" => tunnelChild = 0

KidInv == KidsTyped /\ OneRole /\ \A k \in Kids : KidStands(k)

LEMMA KidBase == CfInit => KidInv
<1> SUFFICES ASSUME CfInit PROVE KidInv
  OBVIOUS
<1> QED
  BY CfAssumption DEF CfInit, KidInv, KidsTyped, KidStates, NoKid, OneRole, KidStands, Alive, Kids

LEMMA KidOne == KidInv => OneConnector
<1> SUFFICES ASSUME KidInv PROVE OneConnector
  OBVIOUS
<1> DEFINE A == {k \in Kids : Alive(k)}
<1>1. PICK x \in 0..MaxKids : A \subseteq {x}
  <2>1. CASE tunnelStopAll = "no" /\ tunnelStart # 0
    <3>1. A \subseteq {tunnelStart}
      BY <2>1 DEF KidInv, OneRole, KidStands, Kids
    <3> QED
      BY <3>1 DEF KidInv, KidsTyped
  <2>2. CASE tunnelStopAll = "no" /\ tunnelStart = 0
    <3>1. A \subseteq {tunnelChild}
      BY <2>2 DEF KidInv, OneRole, KidStands, Kids
    <3> QED
      BY <3>1 DEF KidInv, KidsTyped
  <2>3. CASE tunnelStopAll # "no"
    <3>1. A \subseteq {stopping}
      BY <2>3 DEF KidInv, OneRole, KidStands, Kids
    <3> QED
      BY <3>1 DEF KidInv, KidsTyped
  <2> QED
    BY <2>1, <2>2, <2>3
<1> HIDE DEF A
<1>2. IsFiniteSet({x}) /\ Cardinality({x}) = 1
  BY FS_Singleton
<1>3. Cardinality(A) <= Cardinality({x})
  BY <1>1, <1>2, FS_Subset
<1> QED
  BY <1>2, <1>3 DEF OneConnector, A

\* A startup or its child comes to its end.
LEMMA failStep ==
  ASSUME KidInv, NEW k \in Kids, NEW proc \in {"dead", "unborn"}, NEW told \in BOOLEAN,
         fail(k, proc, told), kid[k].proc # "none",
         tunnelChild' \in {tunnelChild, 0}, UNCHANGED <<tunnelStopAll, stopping, begun>>,
         tunnelChild' # tunnelChild => tunnelChild = k
  PROVE  KidInv'
<1> USE DEF KidInv
<1>1. kid' = [kid EXCEPT ![k].proc = proc, ![k].settled = TRUE, ![k].told = told]
  BY DEF fail
<1>2. tunnelStart' = tunnelStart \/ (tunnelStart = k /\ tunnelStart' = 0)
  BY DEF fail
<1>3. /\ kid'[k].proc = proc /\ kid'[k].settled
      /\ \A j \in Kids \ {k} : kid'[j] = kid[j]
  BY <1>1 DEF KidsTyped, KidStates
<1>4. KidsTyped'
  <2>1. kid[k] \in KidStates
    BY DEF KidsTyped
  <2>2. [kid[k] EXCEPT !.proc = proc, !.settled = TRUE, !.told = told] \in KidStates
    BY <2>1 DEF KidStates
  <2>3. kid' \in [Kids -> KidStates]
    BY <1>1, <2>2 DEF KidsTyped
  <2>4. 0 \in 0..MaxKids
    BY CfAssumption
  <2> QED
    BY <1>2, <2>3, <2>4 DEF KidsTyped
<1>5. OneRole'
  BY <1>2 DEF OneRole, KidsTyped
<1>7. KidStands(k)'
  BY <1>3 DEF KidStands, Alive
<1>8. ASSUME NEW j \in Kids \ {k} PROVE KidStands(j)'
  BY <1>2, <1>3, <1>8 DEF KidStands, Alive
<1> QED
  BY <1>4, <1>5, <1>7, <1>8

\* A field of a kid's record.
LEMMA KidUpdates ==
  ASSUME NEW x \in KidStates, NEW proc \in {"resolving", "asked", "up", "dead"}, NEW b \in BOOLEAN
  PROVE  /\ [x EXCEPT !.proc = proc] \in KidStates /\ [x EXCEPT !.settled = TRUE] \in KidStates
         /\ [x EXCEPT !.proc = proc, !.grace = b] \in KidStates
         /\ [x EXCEPT !.stopping = TRUE, !.settled = TRUE] \in KidStates
  BY DEF KidStates

LEMMA spawnStep == ASSUME KidInv, NEW c \in Starts, spawnCloudflared(c) PROVE KidInv'
<1> USE DEF KidInv
<1>1. CASE UNCHANGED <<tunnelStart, tunnelChild, kid, begun>>
  BY <1>1 DEF spawnCloudflared, KidsTyped, OneRole, KidStands, Alive
<1>2. CASE ~UNCHANGED <<tunnelStart, tunnelChild, kid, begun>>
  <2>0. /\ tunnelStopAll = "no" /\ tunnelStart = 0 /\ NoChild /\ begun < MaxKids
        /\ begun' = begun + 1 /\ tunnelStart' = begun + 1 /\ tunnelChild' = 0
        /\ kid' = [kid EXCEPT ![begun + 1].proc = "resolving"]
        /\ UNCHANGED <<tunnelStopAll, stopping>>
    BY <1>2 DEF spawnCloudflared, MayStart
  <2>1. PICK n \in Kids :
          /\ n = begun + 1 /\ begun' = n /\ tunnelStart' = n /\ tunnelChild' = 0
          /\ kid' = [kid EXCEPT ![n] = [kid[n] EXCEPT !.proc = "resolving"]]
    <3>1. begun + 1 \in Kids
      BY <2>0, CfAssumption DEF KidsTyped, Kids
    <3> QED
      BY <2>0, <3>1
  <2>2. n \in 1..MaxKids /\ begun \in Nat /\ n > begun /\ stopping = 0
    BY <2>0, <2>1, CfAssumption DEF KidsTyped, Kids, OneRole
  <2>3. kid[n] \in KidStates /\ [kid[n] EXCEPT !.proc = "resolving"] \in KidStates
    BY KidUpdates DEF KidsTyped
  <2>4. KidsTyped'
    BY <2>0, <2>1, <2>2, <2>3, CfAssumption DEF KidsTyped
  <2>5. OneRole'
    BY <2>0, <2>1, <2>2 DEF OneRole
  <2>6. ASSUME NEW j \in Kids PROVE ~Alive(j)
    BY <2>0, <2>2 DEF KidStands, NoChild, Exited, Alive, Kids
  <2>7. kid'[n] = [kid[n] EXCEPT !.proc = "resolving"] /\ \A j \in Kids \ {n} : kid'[j] = kid[j]
    BY <2>1 DEF KidsTyped
  <2>8. ASSUME NEW j \in Kids \ {n} PROVE KidStands(j)'
    <3>1. kid[j].proc = "none" \/ kid[j].settled
      BY <2>0 DEF KidStands, Kids
    <3>2. j > begun' => j > begun
      BY <2>1, <2>2 DEF Kids
    <3> QED
      BY <2>6, <2>7, <3>1, <3>2 DEF KidStands, Alive
  <2>9. KidStands(n)'
    <3>1. kid[n].proc = "none" /\ ~kid[n].grace
      BY <2>2 DEF KidStands
    <3>2. kid'[n].proc = "resolving" /\ ~kid'[n].grace
      BY <2>3, <2>7, <3>1 DEF KidStates
    <3>3. ~(n > n)
      BY <2>2
    <3>4. ~kid'[n].settled
      <4>1. ~kid[n].settled
        BY <2>2 DEF KidStands
      <4> QED
        BY <2>3, <2>7, <4>1 DEF KidStates
    <3> QED
      BY <2>1, <3>2, <3>3, <3>4 DEF KidStands, Alive
  <2> QED
    BY <2>4, <2>5, <2>8, <2>9
<1> QED
  BY <1>1, <1>2

LEMMA ChildStep ==
  ASSUME KidInv, NEW k \in Kids,
         Resolved(k) \/ NotResolved(k) \/ Spawned(k) \/ Dies(k) \/ ExitTold(k) \/ GraceEnds(k)
  PROVE  KidInv'
<1> USE DEF KidInv
<1>0. /\ kid[k] \in KidStates /\ KidStands(k)
      /\ \A x \in KidStates : kid' = [kid EXCEPT ![k] = x] =>
           kid' \in [Kids -> KidStates] /\ kid'[k] = x /\ \A j \in Kids \ {k} : kid'[j] = kid[j]
  BY DEF KidsTyped
<1>1. CASE Resolved(k)
  <2>1. CASE Halted(k)
    BY <1>1, <2>1, failStep DEF Resolved
  <2>2. CASE ~Halted(k)
    <3>1. /\ kid[k].proc = "resolving" /\ ~kid[k].stopping
          /\ kid' = [kid EXCEPT ![k] = [kid[k] EXCEPT !.proc = "asked"]]
          /\ UNCHANGED <<tunnelStart, tunnelChild, tunnelStopAll, stopping, begun>>
      BY <1>1, <2>2 DEF Resolved, Halted
    <3>2. [kid[k] EXCEPT !.proc = "asked"] \in KidStates
      BY <1>0, KidUpdates
    <3>3. kid'[k] = [kid[k] EXCEPT !.proc = "asked"] /\ KidsTyped' /\ OneRole'
          /\ \A j \in Kids \ {k} : kid'[j] = kid[j]
      BY <1>0, <3>1, <3>2 DEF KidsTyped, OneRole
    <3>4. KidStands(k)'
      BY <1>0, <3>1, <3>3 DEF KidStands, Alive, KidStates
    <3> QED
      BY <3>1, <3>3, <3>4 DEF KidStands, Alive
  <2> QED
    BY <2>1, <2>2
<1>2. CASE NotResolved(k)
  BY <1>2, failStep DEF NotResolved
<1>3. CASE Spawned(k)
  <2> DEFINE x == [kid[k] EXCEPT !.proc = "up", !.grace = ~kid[k].settled /\ ~kid[k].stopping]
  <2>1. /\ kid[k].proc = "asked" /\ kid' = [kid EXCEPT ![k] = x]
        /\ UNCHANGED <<tunnelStart, tunnelChild, tunnelStopAll, stopping, begun>>
    BY <1>3 DEF Spawned
  <2>2. x \in KidStates
    BY <1>0, KidUpdates DEF KidStates
  <2>3. x.proc = "up" /\ x.settled = kid[k].settled
    BY <1>0 DEF KidStates
  <2> HIDE DEF x
  <2>4. kid'[k] = x /\ KidsTyped' /\ OneRole' /\ \A j \in Kids \ {k} : kid'[j] = kid[j]
    BY <1>0, <2>1, <2>2 DEF KidsTyped, OneRole
  <2>5. KidStands(k)'
    BY <1>0, <2>1, <2>3, <2>4 DEF KidStands, Alive
  <2> QED
    BY <2>1, <2>4, <2>5 DEF KidStands, Alive
<1>4. CASE Dies(k)
  <2> DEFINE x == [kid[k] EXCEPT !.proc = "dead"]
  <2>1. /\ kid[k].proc = "up" /\ kid' = [kid EXCEPT ![k] = x]
        /\ UNCHANGED <<tunnelStart, tunnelChild, tunnelStopAll, stopping, begun>>
    BY <1>4 DEF Dies
  <2>2. x \in KidStates
    BY <1>0, KidUpdates
  <2>3. x.proc = "dead" /\ x.settled = kid[k].settled
    BY <1>0 DEF KidStates
  <2> HIDE DEF x
  <2>4. kid'[k] = x /\ KidsTyped' /\ OneRole' /\ \A j \in Kids \ {k} : kid'[j] = kid[j]
    BY <1>0, <2>1, <2>2 DEF KidsTyped, OneRole
  <2>5. KidStands(k)'
    BY <1>0, <2>1, <2>3, <2>4 DEF KidStands, Alive
  <2> QED
    BY <2>1, <2>4, <2>5 DEF KidStands, Alive
<1>5. CASE ExitTold(k)
  BY <1>5, failStep DEF ExitTold, Exited
<1>6. CASE GraceEnds(k)
  <2>1. CASE Exited(k)
    BY <1>6, <2>1, failStep DEF GraceEnds, Exited
  <2>2. CASE ~Exited(k)
    <3> DEFINE x == [kid[k] EXCEPT !.settled = TRUE]
    <3>1. /\ kid[k].grace /\ ~kid[k].settled /\ kid' = [kid EXCEPT ![k] = x]
          /\ tunnelStart' = (IF tunnelStart = k THEN 0 ELSE tunnelStart) /\ tunnelChild' = k
          /\ UNCHANGED <<tunnelStopAll, stopping, begun>>
      BY <1>6, <2>2 DEF GraceEnds
    <3>2. x \in KidStates
      BY <1>0, KidUpdates
    <3>3. x.proc = kid[k].proc /\ x.settled /\ x.grace = kid[k].grace
      BY <1>0 DEF KidStates
    <3> HIDE DEF x
    <3>4. tunnelStart = k /\ tunnelStart' = 0 /\ k # 0
      BY <1>0, <3>1 DEF KidStands, Kids
    <3>5. tunnelChild = 0 /\ tunnelStopAll = "no" /\ stopping = 0
      BY <3>4 DEF OneRole
    <3>6. kid'[k] = x /\ \A j \in Kids \ {k} : kid'[j] = kid[j]
      BY <1>0, <3>1, <3>2
    <3>7. KidsTyped'
      BY <1>0, <3>1, <3>2, <3>4, CfAssumption DEF KidsTyped, Kids
    <3>8. OneRole'
      BY <3>1, <3>4, <3>5 DEF OneRole, KidsTyped
    <3>9. KidStands(k)'
      BY <1>0, <3>1, <3>3, <3>6 DEF KidStands, Alive
    <3>10. ASSUME NEW j \in Kids \ {k} PROVE KidStands(j)'
      BY <3>1, <3>4, <3>5, <3>6, <3>10 DEF KidStands, Alive, Kids
    <3> QED
      BY <3>7, <3>8, <3>9, <3>10
  <2> QED
    BY <2>1, <2>2
<1> QED
  BY <1>1, <1>2, <1>3, <1>4, <1>5, <1>6

LEMMA StopStep ==
  ASSUME KidInv, stopCloudflared \/ Stopped
  PROVE  KidInv' /\ ((tunnelStopAll # "no" /\ tunnelStopAll' = "no") => \A k \in Kids : ~Alive(k)')
<1> USE DEF KidInv
<1>1. CASE stopCloudflared /\ tunnelStart # 0
  <2>0. PICK s \in Kids : s = tunnelStart
    BY <1>1 DEF KidsTyped, Kids
  <2>1. /\ tunnelStopAll = "no" /\ tunnelStopAll' = "pending" /\ stopping' = s /\ tunnelStart' = 0
        /\ kid' = [kid EXCEPT ![s] = [kid[s] EXCEPT !.stopping = TRUE, !.settled = TRUE]]
        /\ tunnelChild' = 0 /\ tunnelChild = 0 /\ stopping = 0 /\ begun' = begun
    BY <1>1, <2>0 DEF stopCloudflared, OneRole
  <2>2. s \in 0..MaxKids /\ s # 0 /\ 0 \in 0..MaxKids
    BY <1>1, <2>0, CfAssumption DEF KidsTyped, Kids
  <2>3. kid[s] \in KidStates /\ [kid[s] EXCEPT !.stopping = TRUE, !.settled = TRUE] \in KidStates
    BY <2>2, KidUpdates DEF KidsTyped
  <2>4. KidsTyped'
    BY <2>1, <2>2, <2>3 DEF KidsTyped
  <2>5. OneRole'
    BY <2>1 DEF OneRole, KidsTyped
  <2>6. /\ kid'[s].proc = kid[s].proc /\ kid'[s].settled /\ kid'[s].stopping
        /\ kid'[s].grace = kid[s].grace
        /\ \A j \in Kids \ {s} : kid'[j] = kid[j]
    BY <2>1, <2>2, <2>3 DEF KidsTyped, KidStates
  <2>7. KidStands(s)'
    BY <2>0, <2>1, <2>2, <2>6 DEF OneRole, KidsTyped, KidStands, Alive
  <2>8. ASSUME NEW j \in Kids \ {s} PROVE KidStands(j)'
    BY <2>0, <2>1, <2>2, <2>6, <2>8 DEF KidStands, Alive, Kids
  <2> QED
    BY <2>1, <2>4, <2>5, <2>7, <2>8
<1>2. CASE stopCloudflared /\ tunnelStart = 0
  <2>1. /\ tunnelStopAll = "no" /\ tunnelStopAll' = "active" /\ stopping' = tunnelChild /\ tunnelChild' = 0
        /\ UNCHANGED <<tunnelStart, kid, begun>> /\ stopping = 0
    BY <1>2 DEF stopCloudflared, OneRole
  <2> QED
    BY <1>2, <2>1, CfAssumption DEF KidsTyped, OneRole, KidStands, Alive, Kids
<1>3. CASE Stopped
  <2>1. /\ tunnelStopAll # "no" /\ tunnelStart = 0 /\ tunnelChild = 0
        /\ UNCHANGED <<tunnelStart, kid, begun>> /\ tunnelChild' = 0 /\ stopping' = 0
        /\ tunnelStopAll' \in {"active", "no"}
    BY <1>3 DEF Stopped, OneRole
  <2>2. \A k \in Kids : ~Alive(k) /\ ~Alive(k)'
    BY <1>3, <2>1 DEF Stopped, Waited, KidStands, Alive, Kids
  <2> QED
    BY <2>1, <2>2, CfAssumption DEF KidsTyped, OneRole, KidStands, Kids
<1> QED
  BY <1>1, <1>2, <1>3

LEMMA KidKept ==
  ASSUME KidInv, ConnectorNext \/ UNCHANGED kidVars
  PROVE  KidInv' /\ ((tunnelStopAll # "no" /\ tunnelStopAll' = "no") => \A k \in Kids : ~Alive(k)')
<1>1. ASSUME NEW c \in Starts, spawnCloudflared(c) PROVE KidInv' /\ tunnelStopAll' = tunnelStopAll
  BY <1>1, spawnStep DEF spawnCloudflared
<1>2. ASSUME NEW k \in Kids,
             Resolved(k) \/ NotResolved(k) \/ Spawned(k) \/ Dies(k) \/ ExitTold(k) \/ GraceEnds(k)
      PROVE  KidInv' /\ tunnelStopAll' = tunnelStopAll
  BY <1>2, ChildStep DEF Resolved, NotResolved, Spawned, Dies, ExitTold, GraceEnds
<1>3. CASE UNCHANGED kidVars
  BY <1>3 DEF KidInv, KidsTyped, OneRole, KidStands, Alive, kidVars
<1> QED
  BY <1>1, <1>2, <1>3, StopStep DEF ConnectorNext

(***************************************************************************)
(* The Cloudflare setups.  What a setup has done stays done while only     *)
(* setups of the same plan are at work: whatever one of them changes is    *)
(* changed to what the plan says.                                          *)
(***************************************************************************)
Ended == {"idle", "ok", "failed"}
Steps == Ended \cup {"auth", "persist", "choose", "plan", "tunnel", "create", "get", "put",
                    "dns", "make", "ask", "replace", "verify"}
Contents == {"none", "elsewhere", "other", "ours", "old"}
TunnelStates == [ingress : {"absent", "none", "theirs", "single", "dual"}, rest : Nat]
Lefts == {<<>>, <<"gateway">>, <<"relay", "gateway">>}
RunStates ==
  [step : Steps, kind : {"flags", "wizard"}, mode : {"single", "dual"}, dry : BOOLEAN,
   how : {"auto", "existing", "new"}, id : Ids, had : TunnelStates, left : Lefts,
   rec : Contents, token : Nat, clean : BOOLEAN]

SetupsTyped ==
  /\ run \in [Runs -> RunStates] /\ tunnels \in [Ids -> TunnelStates]
  /\ dns \in [Hosts -> Contents] /\ issued \in Nat /\ saved \in Nat

\* The tunnel that was there has rules and settings, and so has what was read
\* of it.
Filled(t) == t.ingress \notin {"absent", "none"} /\ t.rest >= 1

\* What setup q has done, if nobody has disturbed it, in the state (t, d) of
\* tunnels and records: the rules, and the records of the hosts it is past.
Bound(q) == q.step \in {"dns", "make", "ask", "replace", "verify"} /\ q.clean /\ ~q.dry
Stands(q, t, d) ==
  /\ Bound(q) => t[q.id].ingress = q.mode
  /\ Bound(q) /\ q.left = <<>> => d["gateway"] = q.id
  /\ Bound(q) /\ q.mode = "dual" /\ q.left # <<"relay", "gateway">> => d["relay"] = q.id
  /\ q.step = "verify" => q.left = <<>> /\ ~q.dry
  /\ q.step \in {"make", "ask", "replace"} => q.left # <<>>
  /\ q.step = "put" => q.left = hostnames(q) /\ (q.id = "old" => Filled(q.had))

\* Undisturbed means that whoever is at work has the same plan.
Undisturbed(q, p) ==
  q.clean /\ q.step \notin Ended /\ p.step \notin Ended => q.mode = p.mode /\ q.id = p.id

SetupInv ==
  /\ SetupsTyped /\ Filled(tunnels["old"])
  /\ \A r \in Runs : Stands(run[r], tunnels, dns)
  /\ \A r, o \in Runs : Undisturbed(run[r], run[o])

LEMMA SetupBase == CfInit => SetupInv
<1> SUFFICES ASSUME CfInit PROVE SetupInv
  OBVIOUS
<1>1. NoRun \in RunStates
  BY DEF NoRun, RunStates, Steps, Ended, Ids, TunnelStates, NoTunnel, Lefts, Contents
<1>2. SetupsTyped
  BY <1>1 DEF CfInit, SetupsTyped, TunnelStates, NoTunnel, Hosts, Contents
<1>3. Filled(tunnels["old"])
  BY DEF CfInit, Filled, Ids
<1> QED
  BY <1>2, <1>3 DEF CfInit, SetupInv, Stands, Bound, Undisturbed, NoRun, Ended

\* What a setup changes at Cloudflare is what its plan says; a tunnel is made
\* only where there is none.
Changes(q, t2, d2) ==
  /\ \A i \in Ids : \/ t2[i] = tunnels[i]
                    \/ i = q.id /\ (t2[i].ingress = q.mode \/ tunnels[i] = NoTunnel)
  /\ \A h \in Hosts : d2[h] = dns[h] \/ d2[h] = q.id

LEMMA OthersStand ==
  ASSUME SetupInv, NEW r \in Runs, NEW o \in Runs, run[r].step \notin Ended,
         Changes(run[r], tunnels', dns')
  PROVE  Stands(run[o], tunnels', dns')
<1>1. Stands(run[o], tunnels, dns) /\ Undisturbed(run[o], run[r])
  BY DEF SetupInv
<1>2. run[o] \in RunStates /\ run[r] \in RunStates
  BY DEF SetupInv, SetupsTyped
<1>3. CASE ~Bound(run[o])
  BY <1>1, <1>3 DEF Stands
<1>4. CASE Bound(run[o])
  <2>1. run[o].mode = run[r].mode /\ run[o].id = run[r].id
    BY <1>1, <1>4 DEF Bound, Undisturbed, Ended
  <2>2. tunnels'[run[o].id].ingress = run[o].mode
    BY <1>1, <1>2, <1>4, <2>1 DEF Stands, Changes, NoTunnel, RunStates
  <2> QED
    BY <1>1, <1>4, <2>1, <2>2 DEF Stands, Changes, Hosts
<1> QED
  BY <1>3, <1>4

\* A step of one setup: its plan stays or is over, and what it did stands.
LEMMA SetupMoves ==
  ASSUME SetupInv, NEW r \in Runs, NEW q \in RunStates, run' = [run EXCEPT ![r] = q],
         run[r].step \notin Ended,
         q.step \in Ended \/ (q.mode = run[r].mode /\ q.id = run[r].id /\ q.clean = run[r].clean),
         Changes(run[r], tunnels', dns'),
         tunnels' \in [Ids -> TunnelStates], dns' \in [Hosts -> Contents],
         issued' \in Nat, saved' \in Nat, Filled(tunnels'["old"]),
         Stands(q, tunnels', dns')
  PROVE  SetupInv'
<1>1. SetupsTyped'
  BY DEF SetupInv, SetupsTyped
<1>2. run'[r] = q /\ \A o \in Runs \ {r} : run'[o] = run[o]
  BY DEF SetupInv, SetupsTyped
<1>3. \A o \in Runs : Stands(run'[o], tunnels', dns')
  BY <1>2, OthersStand
<1>4. \A o, p \in Runs : Undisturbed(run'[o], run'[p])
  <2> SUFFICES ASSUME NEW o \in Runs, NEW p \in Runs PROVE Undisturbed(run'[o], run'[p])
    OBVIOUS
  <2>1. Undisturbed(run[o], run[p]) /\ Undisturbed(run[r], run[p]) /\ Undisturbed(run[o], run[r])
    BY DEF SetupInv
  <2>2. run'[o] = run[o] \/ o = r
    BY <1>2
  <2>3. run'[p] = run[p] \/ p = r
    BY <1>2
  <2> QED
    BY <1>2, <2>1, <2>2, <2>3 DEF Undisturbed
<1> QED
  BY <1>1, <1>3, <1>4 DEF SetupInv

\* A step that changes nothing at Cloudflare and does not touch what stands.
LEMMA QuietMoves ==
  ASSUME SetupInv, NEW r \in Runs, NEW q \in RunStates, run' = [run EXCEPT ![r] = q],
         run[r].step \notin Ended,
         q.step \in Ended \/ (q.mode = run[r].mode /\ q.id = run[r].id /\ q.clean = run[r].clean),
         UNCHANGED <<tunnels, dns>>, issued' \in Nat, saved' \in Nat,
         Stands(q, tunnels, dns)
  PROVE  SetupInv'
<1>1. Changes(run[r], tunnels', dns')
  BY DEF Changes
<1> QED
  BY <1>1, SetupMoves DEF SetupInv, SetupsTyped

\* Move: the plan stays, or the setup is over.
LEMMA Moves ==
  ASSUME SetupInv, NEW r \in Runs, NEW step \in Steps, Move(r, step)
  PROVE  \E q \in RunStates :
           /\ run' = [run EXCEPT ![r] = q] /\ q.step = step
           /\ step \notin Ended => q = [run[r] EXCEPT !.step = step]
<1>1. run[r] \in RunStates
  BY DEF SetupInv, SetupsTyped
<1>2. CASE step \in Ended
  <2> DEFINE q == [NoRun EXCEPT !.step = step, !.dry = run[r].dry, !.kind = run[r].kind]
  <2>1. run' = [run EXCEPT ![r] = q]
    BY <1>2 DEF Move, Ended
  <2>2. q \in RunStates /\ q.step = step
    BY <1>1 DEF NoRun, RunStates, Steps, Ended, Ids, TunnelStates, NoTunnel, Lefts, Contents
  <2> QED
    BY <1>2, <2>1, <2>2
<1>3. CASE step \notin Ended
  <2> DEFINE q == [run[r] EXCEPT !.step = step]
  <2>1. run' = [run EXCEPT ![r] = q]
    BY <1>3 DEF Move, Ended
  <2>2. q \in RunStates /\ q.step = step
    BY <1>1 DEF RunStates
  <2> QED
    BY <2>1, <2>2
<1> QED
  BY <1>2, <1>3

\* The end of a setup, from wherever it is.
LEMMA OverStep ==
  ASSUME SetupInv, NEW r \in Runs, run[r].step \notin Ended, NEW step \in Ended, Move(r, step),
         UNCHANGED <<tunnels, dns, issued, saved>>
  PROVE  SetupInv'
<1>1. PICK q \in RunStates : run' = [run EXCEPT ![r] = q] /\ q.step = step
  BY Moves DEF Steps
<1>2. Stands(q, tunnels, dns)
  BY <1>1 DEF Stands, Bound, Ended
<1> QED
  BY <1>1, <1>2, QuietMoves DEF SetupInv, SetupsTyped

\* A step before anything is applied.
LEMMA EarlyStep ==
  ASSUME SetupInv, NEW r \in Runs, NEW q \in RunStates, run' = [run EXCEPT ![r] = q],
         run[r].step \notin Ended, q.mode = run[r].mode, q.id = run[r].id, q.clean = run[r].clean,
         q.step \in {"persist", "choose", "plan", "tunnel", "create", "get"},
         UNCHANGED <<tunnels, dns>>, issued' \in Nat, saved' \in Nat
  PROVE  SetupInv'
<1>1. Stands(q, tunnels, dns)
  BY DEF Stands, Bound
<1> QED
  BY <1>1, QuietMoves

LEMMA CredentialStep ==
  ASSUME SetupInv, NEW r \in Runs, EnvToken(r) \/ getApiToken(r) \/ Refused(r) \/ Persist(r)
  PROVE  SetupInv'
<1>0. run[r] \in RunStates /\ issued \in Nat /\ issued + 1 \in Nat /\ saved \in Nat /\ run[r].token \in Nat
  BY DEF SetupInv, SetupsTyped, RunStates
<1>1. CASE EnvToken(r)
  <2> DEFINE q == [run[r] EXCEPT !.step = After(run[r]), !.token = 0]
  <2>1. q \in RunStates /\ q.step \in {"choose", "tunnel"}
        /\ q.mode = run[r].mode /\ q.id = run[r].id /\ q.clean = run[r].clean
    BY <1>0 DEF RunStates, After, Steps
  <2>2. run' = [run EXCEPT ![r] = q] /\ run[r].step = "auth" /\ UNCHANGED <<tunnels, dns, issued, saved>>
    BY <1>1 DEF EnvToken
  <2> HIDE DEF q
  <2> QED
    BY <1>0, <2>1, <2>2, EarlyStep DEF Ended
<1>2. CASE getApiToken(r)
  <2> DEFINE next == IF run[r].kind = "flags" /\ ~run[r].dry THEN "persist" ELSE After(run[r])
             q == [run[r] EXCEPT !.token = issued + 1, !.step = next]
  <2>1. q \in RunStates /\ q.step \in {"choose", "tunnel", "persist"}
        /\ q.mode = run[r].mode /\ q.id = run[r].id /\ q.clean = run[r].clean
    BY <1>0 DEF RunStates, After, Steps
  <2>2. run' = [run EXCEPT ![r] = q] /\ run[r].step = "auth" /\ UNCHANGED <<tunnels, dns, saved>>
        /\ issued' = issued + 1
    BY <1>2 DEF getApiToken, Rotated
  <2> HIDE DEF q
  <2> QED
    BY <1>0, <2>1, <2>2, EarlyStep DEF Ended
<1>3. CASE Refused(r) /\ run[r].kind = "flags"
  BY <1>3, OverStep DEF Refused, Ended
<1>4. CASE Refused(r) /\ run[r].kind # "flags"
  <2> DEFINE q == [run[r] EXCEPT !.token = issued + 1, !.step = "choose"]
  <2>1. q \in RunStates /\ q.step = "choose"
        /\ q.mode = run[r].mode /\ q.id = run[r].id /\ q.clean = run[r].clean
    BY <1>0 DEF RunStates, Steps
  <2>2. run' = [run EXCEPT ![r] = q] /\ run[r].step = "auth" /\ UNCHANGED <<tunnels, dns, saved>>
        /\ issued' = issued + 1
    BY <1>4 DEF Refused
  <2> HIDE DEF q
  <2> QED
    BY <1>0, <2>1, <2>2, EarlyStep DEF Ended
<1>5. CASE Persist(r)
  <2>1. PICK q \in RunStates : run' = [run EXCEPT ![r] = q] /\ q = [run[r] EXCEPT !.step = "tunnel"]
    BY <1>5, Moves DEF Persist, Steps, Ended
  <2>2. q.step = "tunnel" /\ q.mode = run[r].mode /\ q.id = run[r].id /\ q.clean = run[r].clean
    BY <1>0, <2>1 DEF RunStates
  <2> QED
    BY <1>0, <1>5, <2>1, <2>2, EarlyStep DEF Persist, Ended
<1> QED
  BY <1>1, <1>2, <1>3, <1>4, <1>5

LEMMA ChoiceStep ==
  ASSUME SetupInv, NEW r \in Runs, ChooseTunnel(r) \/ Decide(r)
  PROVE  SetupInv'
<1>0. run[r] \in RunStates /\ issued \in Nat /\ saved \in Nat
  BY DEF SetupInv, SetupsTyped
<1>1. CASE ChooseTunnel(r)
  <2> DEFINE q == [run[r] EXCEPT !.step = "plan",
                      !.how = IF tunnels[run[r].id] = NoTunnel THEN "new" ELSE "existing"]
  <2>1. q \in RunStates /\ q.step = "plan"
        /\ q.mode = run[r].mode /\ q.id = run[r].id /\ q.clean = run[r].clean
    BY <1>0 DEF RunStates, Steps
  <2>2. run' = [run EXCEPT ![r] = q] /\ run[r].step = "choose" /\ UNCHANGED <<tunnels, dns, issued, saved>>
    BY <1>1 DEF ChooseTunnel
  <2> HIDE DEF q
  <2> QED
    BY <1>0, <2>1, <2>2, EarlyStep DEF Ended
<1>2. CASE Decide(r) /\ Move(r, "persist")
  <2>1. PICK q \in RunStates : run' = [run EXCEPT ![r] = q] /\ q = [run[r] EXCEPT !.step = "persist"]
    BY <1>2, Moves DEF Steps, Ended
  <2>2. q.step = "persist" /\ q.mode = run[r].mode /\ q.id = run[r].id /\ q.clean = run[r].clean
    BY <1>0, <2>1 DEF RunStates
  <2> QED
    BY <1>0, <1>2, <2>1, <2>2, EarlyStep DEF Decide, Ended
<1>3. CASE Decide(r) /\ run' = [run EXCEPT ![r].step = "tunnel", ![r].dry = TRUE]
  <2> DEFINE q == [run[r] EXCEPT !.step = "tunnel", !.dry = TRUE]
  <2>1. q \in RunStates /\ q.step = "tunnel"
        /\ q.mode = run[r].mode /\ q.id = run[r].id /\ q.clean = run[r].clean
    BY <1>0 DEF RunStates, Steps
  <2>2. run' = [run EXCEPT ![r] = q] /\ run[r].step = "plan" /\ UNCHANGED <<tunnels, dns, issued, saved>>
    BY <1>3 DEF Decide
  <2> HIDE DEF q
  <2> QED
    BY <1>0, <2>1, <2>2, EarlyStep DEF Ended
<1>4. CASE Decide(r) /\ Move(r, "idle")
  BY <1>4, OverStep DEF Decide, Ended
<1> QED
  BY <1>1, <1>2, <1>3, <1>4 DEF Decide

\* A setup that only moves on to another step of applying its plan.
LEMMA OnwardStep ==
  ASSUME SetupInv, NEW r \in Runs, NEW step \in Steps \ Ended, Move(r, step),
         run[r].step \notin Ended, Changes(run[r], tunnels', dns'),
         tunnels' \in [Ids -> TunnelStates], dns' \in [Hosts -> Contents],
         UNCHANGED <<issued, saved>>, Filled(tunnels'["old"]),
         Stands([run[r] EXCEPT !.step = step], tunnels', dns')
  PROVE  SetupInv'
<1>0. run[r] \in RunStates
  BY DEF SetupInv, SetupsTyped
<1>1. PICK q \in RunStates : run' = [run EXCEPT ![r] = q] /\ q = [run[r] EXCEPT !.step = step]
  BY Moves
<1>2. q.mode = run[r].mode /\ q.id = run[r].id /\ q.clean = run[r].clean
  BY <1>0, <1>1 DEF RunStates
<1> QED
  BY <1>1, <1>2, SetupMoves DEF SetupInv, SetupsTyped

LEMMA TunnelStep ==
  ASSUME SetupInv, NEW r \in Runs, FindTunnel(r) \/ createTunnel(r) \/ getConfiguration(r) \/ putConfiguration(r)
  PROVE  SetupInv'
<1>0. /\ run[r] \in RunStates /\ tunnels \in [Ids -> TunnelStates] /\ dns \in [Hosts -> Contents]
      /\ issued \in Nat /\ saved \in Nat /\ run[r].id \in Ids /\ Filled(tunnels["old"])
      /\ Stands(run[r], tunnels, dns)
  BY DEF SetupInv, SetupsTyped, RunStates
<1> DEFINE at(step) == [run[r] EXCEPT !.step = step]
<1>9. \A step : /\ at(step).step = step /\ at(step).mode = run[r].mode /\ at(step).id = run[r].id
                /\ at(step).dry = run[r].dry /\ at(step).left = run[r].left
                /\ at(step).clean = run[r].clean
  BY <1>0 DEF RunStates
<1> HIDE DEF at
<1>1. CASE FindTunnel(r)
  <2>1. PICK step \in {"get", "failed", "dns", "create"} :
          Move(r, step) /\ (step = "dns" => run[r].dry)
    BY <1>1 DEF FindTunnel
  <2>2. UNCHANGED <<tunnels, dns, issued, saved>> /\ run[r].step = "tunnel"
    BY <1>1 DEF FindTunnel, restOfCloud
  <2>3. CASE step = "failed"
    BY <2>1, <2>2, <2>3, OverStep DEF Ended
  <2>4. CASE step # "failed"
    <3>1. Stands(at(step), tunnels', dns')
      BY <1>9, <2>1, <2>2, <2>4 DEF Stands, Bound
    <3>2. Changes(run[r], tunnels', dns')
      BY <2>2 DEF Changes
    <3>3. step \in Steps \ Ended
      BY <2>1, <2>4 DEF Steps, Ended
    <3> QED
      BY <1>0, <2>1, <2>2, <3>1, <3>2, <3>3, OnwardStep DEF Ended, at
  <2> QED
    BY <2>3, <2>4
<1>2. CASE createTunnel(r)
  <2>1. run[r].step = "create" /\ UNCHANGED <<dns, issued, saved>>
    BY <1>2 DEF createTunnel, restOfCloud
  <2>2. CASE tunnels[run[r].id] = NoTunnel
    <3>1. tunnels' = [tunnels EXCEPT ![run[r].id] = [ingress |-> "none", rest |-> 0]] /\ Move(r, "get")
      BY <1>2, <2>2 DEF createTunnel
    <3>2. [ingress |-> "none", rest |-> 0] \in TunnelStates
      BY DEF TunnelStates
    <3>3. tunnels' \in [Ids -> TunnelStates] /\ Changes(run[r], tunnels', dns')
      BY <1>0, <2>1, <2>2, <3>1, <3>2 DEF Changes
    <3>4. run[r].id # "old"
      BY <1>0, <2>2 DEF Filled, NoTunnel
    <3>5. Filled(tunnels'["old"])
      BY <1>0, <3>1, <3>4 DEF Ids
    <3>6. Stands(at("get"), tunnels', dns')
      BY <1>9 DEF Stands, Bound
    <3>7. "get" \in Steps \ Ended
      BY DEF Steps, Ended
    <3> QED
      BY <1>0, <2>1, <3>1, <3>3, <3>5, <3>6, <3>7, OnwardStep DEF Ended, at
  <2>3. CASE tunnels[run[r].id] # NoTunnel
    BY <1>2, <2>1, <2>3, OverStep DEF createTunnel, Ended
  <2> QED
    BY <2>2, <2>3
<1>3. CASE getConfiguration(r)
  <2> DEFINE t == tunnels[run[r].id]
             step == IF t.ingress = buildIngress(run[r]) \/ run[r].dry THEN "dns" ELSE "put"
             q == [run[r] EXCEPT !.had = t, !.left = hostnames(run[r]), !.step = step]
  <2>1. run' = [run EXCEPT ![r] = q] /\ run[r].step = "get" /\ UNCHANGED <<tunnels, dns, issued, saved>>
    BY <1>3 DEF getConfiguration, restOfCloud
  <2>2. hostnames(run[r]) \in Lefts /\ t \in TunnelStates /\ step \in Steps
    BY <1>0 DEF hostnames, Lefts, Steps
  <2>3. /\ q \in RunStates /\ q.step = step /\ q.mode = run[r].mode /\ q.id = run[r].id
        /\ q.clean = run[r].clean /\ q.dry = run[r].dry /\ q.left = hostnames(run[r]) /\ q.had = t
    BY <1>0, <2>2 DEF RunStates
  <2>4. hostnames(q) = hostnames(run[r]) /\ hostnames(q) # <<>>
        /\ (q.mode = "dual" => hostnames(q) = <<"relay", "gateway">>)
    BY <1>0, <2>3 DEF hostnames, RunStates
  <2>5. step \in {"dns", "put"} /\ (step = "dns" => t.ingress = run[r].mode \/ run[r].dry)
    BY DEF buildIngress
  <2>6. q.id = "old" => t = tunnels["old"]
    BY <2>3
  <2> HIDE DEF q, t, step
  <2>7. tunnels[q.id] = t
    BY <2>3 DEF t
  <2>8. Stands(q, tunnels, dns)
    BY <1>0, <2>3, <2>4, <2>5, <2>6, <2>7 DEF Stands, Bound
  <2> QED
    BY <1>0, <2>1, <2>3, <2>8, QuietMoves DEF Ended
<1>4. CASE putConfiguration(r)
  <2> DEFINE t == mergeConfiguration(run[r].had, buildIngress(run[r]))
  <2>1. run[r].step = "put" /\ UNCHANGED <<dns, issued, saved>> /\ Move(r, "dns")
        /\ tunnels' = [tunnels EXCEPT ![run[r].id] = t]
    BY <1>4 DEF putConfiguration, restOfCloud
  <2>2. t \in TunnelStates /\ t.ingress = run[r].mode
        /\ (run[r].id = "old" => Filled(t))
    BY <1>0, <2>1 DEF mergeConfiguration, buildIngress, RunStates, TunnelStates, Filled, Stands
  <2> HIDE DEF t
  <2>3. tunnels' \in [Ids -> TunnelStates] /\ Changes(run[r], tunnels', dns')
        /\ tunnels'[run[r].id] = t
    BY <1>0, <2>1, <2>2 DEF Changes
  <2>4. Filled(tunnels'["old"])
    BY <1>0, <2>1, <2>2 DEF Ids
  <2>5. run[r].left = hostnames(run[r]) /\ hostnames(run[r]) # <<>>
        /\ (run[r].mode = "dual" => hostnames(run[r]) = <<"relay", "gateway">>)
    BY <1>0, <2>1 DEF hostnames, RunStates, Stands
  <2>6. Stands(at("dns"), tunnels', dns')
    BY <1>9, <2>2, <2>3, <2>5 DEF Stands, Bound
  <2>7. "dns" \in Steps \ Ended
    BY DEF Steps, Ended
  <2> QED
    BY <1>0, <2>1, <2>3, <2>4, <2>6, <2>7, OnwardStep DEF Ended, at
<1> QED
  BY <1>1, <1>2, <1>3, <1>4

\* The hosts that are left.
LEMMA LeftShape ==
  ASSUME NEW l \in Lefts, l # <<>>
  PROVE  /\ Head(l) \in Hosts /\ Tail(l) \in Lefts
         /\ l = <<"gateway">> => Head(l) = "gateway" /\ Tail(l) = <<>>
         /\ l = <<"relay", "gateway">> => Head(l) = "relay" /\ Tail(l) = <<"gateway">>
         /\ Tail(l) # <<"relay", "gateway">> /\ (Tail(l) = <<>> <=> l = <<"gateway">>)
<1> DEFINE a == <<"gateway">>
<1> DEFINE b == <<"relay", "gateway">>
<1>1. Len(<<>>) = 0 /\ Len(a) = 1 /\ Len(b) = 2
  OBVIOUS
<1>2. Head(a) = "gateway" /\ Head(b) = "relay"
  OBVIOUS
<1>3. Tail(a) = <<>> /\ Tail(b) = a
  OBVIOUS
<1>4. l \in {a, b}
  BY DEF Lefts
<1>5. <<>> \in Lefts /\ a \in Lefts
  BY DEF Lefts
<1>6. "gateway" \in Hosts /\ "relay" \in Hosts
  BY DEF Hosts
<1> HIDE DEF a, b
<1>7. a # b /\ a # <<>> /\ b # <<>>
  <2> DEFINE none == <<>>
  <2>1. Len(none) = 0 /\ Len(a) = 1 /\ Len(b) = 2
    BY <1>1
  <2> HIDE DEF none
  <2>2. a # b /\ a # none /\ b # none
    BY <2>1
  <2> QED
    BY <2>2 DEF none
<1>8. CASE l = a
  BY <1>2, <1>3, <1>5, <1>6, <1>7, <1>8 DEF a, b
<1>9. CASE l = b
  BY <1>2, <1>3, <1>5, <1>6, <1>7, <1>9 DEF a, b
<1> QED
  BY <1>4, <1>8, <1>9

\* The host at hand is done: its record says what the plan says.
LEMMA HostDone ==
  ASSUME SetupInv, NEW r \in Runs, run[r].step \in {"dns", "make", "replace"}, run[r].left # <<>>,
         run' = [run EXCEPT ![r] = NextHost(run[r])], UNCHANGED <<tunnels, issued, saved>>,
         dns' = dns \/ dns' = [dns EXCEPT ![Host(r)] = run[r].id],
         dns'[Host(r)] = run[r].id \/ run[r].dry
  PROVE  SetupInv'
<1> DEFINE q == NextHost(run[r])
<1>0. /\ run[r] \in RunStates /\ dns \in [Hosts -> Contents] /\ tunnels \in [Ids -> TunnelStates]
      /\ issued \in Nat /\ saved \in Nat /\ run[r].left \in Lefts /\ run[r].id \in Contents
      /\ Filled(tunnels["old"]) /\ Stands(run[r], tunnels, dns)
  BY DEF SetupInv, SetupsTyped, RunStates, Ids, Contents
<1>1. Host(r) \in Hosts /\ Tail(run[r].left) \in Lefts
  BY <1>0, LeftShape DEF Host
<1>2. /\ q \in RunStates /\ q.step = "dns" /\ q.mode = run[r].mode /\ q.id = run[r].id
      /\ q.clean = run[r].clean /\ q.dry = run[r].dry /\ q.left = Tail(run[r].left)
  BY <1>0, <1>1 DEF NextHost, RunStates, Steps
<1>3. dns' \in [Hosts -> Contents] /\ Changes(run[r], tunnels', dns')
  BY <1>0, <1>1 DEF Changes
<1> HIDE DEF q
<1>4. Stands(q, tunnels', dns')
  <2>1. CASE ~Bound(q)
    BY <1>2, <2>1 DEF Stands
  <2>2. CASE Bound(q)
    <3>1. Bound(run[r]) /\ ~run[r].dry
      BY <1>2, <2>2 DEF Bound
    <3>2. tunnels'[q.id].ingress = q.mode
      BY <1>0, <1>2, <3>1 DEF Stands
    <3>3. q.left = <<>> => dns'["gateway"] = q.id
      BY <1>0, <1>2, <3>1, LeftShape DEF Host
    <3>4. q.mode = "dual" => dns'["relay"] = q.id
      <4>1. CASE run[r].left = <<"relay", "gateway">>
        BY <1>0, <1>2, <3>1, <4>1, LeftShape DEF Host
      <4>2. CASE run[r].left # <<"relay", "gateway">>
        BY <1>0, <1>1, <1>2, <3>1, <4>2 DEF Stands, Hosts
      <4> QED
        BY <4>1, <4>2
    <3> QED
      BY <1>2, <3>2, <3>3, <3>4 DEF Stands
  <2> QED
    BY <2>1, <2>2
<1>5. run' = [run EXCEPT ![r] = q] /\ run[r].step \notin Ended
  BY DEF q, Ended
<1> QED
  BY <1>0, <1>2, <1>3, <1>4, <1>5, SetupMoves

LEMMA RecordStep ==
  ASSUME SetupInv, NEW r \in Runs,
         findDnsRecord(r) \/ createDnsRecord(r) \/ onDnsConflict(r) \/ updateDnsRecord(r)
  PROVE  SetupInv'
<1>0. /\ run[r] \in RunStates /\ dns \in [Hosts -> Contents] /\ tunnels \in [Ids -> TunnelStates]
      /\ issued \in Nat /\ saved \in Nat /\ run[r].left \in Lefts /\ Filled(tunnels["old"])
      /\ Stands(run[r], tunnels, dns)
  BY DEF SetupInv, SetupsTyped, RunStates
<1>1. CASE findDnsRecord(r)
  <2> DEFINE q == run[r]
             content == dns[Host(r)]
             step == IF content = "none" THEN "make" ELSE IF q.kind = "wizard" THEN "ask" ELSE "failed"
             next == [q EXCEPT !.rec = content, !.step = step]
  <2>1. q.step = "dns" /\ q.left # <<>> /\ UNCHANGED <<tunnels, dns, issued, saved>>
    BY <1>1 DEF findDnsRecord, restOfCloud
  <2>2. CASE Routed(q, content) \/ q.dry
    <3>1. run' = [run EXCEPT ![r] = NextHost(run[r])]
      BY <1>1, <2>2 DEF findDnsRecord
    <3> QED
      BY <2>1, <2>2, <3>1, HostDone DEF Routed
  <2>3. CASE ~(Routed(q, content) \/ q.dry)
    <3>1. run' = [run EXCEPT ![r] = next]
      BY <1>1, <2>3 DEF findDnsRecord
    <3>2. content \in Contents
      BY <1>0, <2>1, LeftShape DEF Host
    <3>3. next \in RunStates /\ next.step = step /\ next.mode = q.mode /\ next.id = q.id
          /\ next.clean = q.clean /\ next.dry = q.dry /\ next.left = q.left
      BY <1>0, <3>2 DEF RunStates, Steps, Ended
    <3>4. step \in {"make", "ask", "failed"}
      OBVIOUS
    <3> HIDE DEF next, step
    <3>5. Stands(next, tunnels, dns)
      BY <1>0, <2>1, <3>3, <3>4 DEF Stands, Bound
    <3> QED
      BY <1>0, <2>1, <3>1, <3>3, <3>5, QuietMoves DEF Ended
  <2> QED
    BY <2>2, <2>3
<1>2. CASE createDnsRecord(r)
  <2>1. run[r].step = "make" /\ run[r].left # <<>> /\ UNCHANGED <<tunnels, issued, saved>>
        /\ Host(r) \in Hosts
    BY <1>0, <1>2, LeftShape DEF createDnsRecord, restOfCloud, Stands, Host
  <2>2. CASE dns[Host(r)] = "none"
    <3>1. dns' = [dns EXCEPT ![Host(r)] = run[r].id] /\ run' = [run EXCEPT ![r] = NextHost(run[r])]
      BY <1>2, <2>2 DEF createDnsRecord
    <3> QED
      BY <1>0, <2>1, <3>1, HostDone
  <2>3. CASE dns[Host(r)] # "none"
    BY <1>2, <2>1, <2>3, OverStep DEF createDnsRecord, Ended
  <2> QED
    BY <2>2, <2>3
<1>3. CASE onDnsConflict(r)
  <2>1. run[r].step = "ask" /\ UNCHANGED <<tunnels, dns, issued, saved>>
        /\ (Move(r, "replace") \/ Move(r, "failed"))
    BY <1>3 DEF onDnsConflict
  <2>2. CASE Move(r, "failed")
    BY <2>1, <2>2, OverStep DEF Ended
  <2>3. CASE Move(r, "replace")
    <3> DEFINE q == [run[r] EXCEPT !.step = "replace"]
    <3>1. /\ q.step = "replace" /\ q.mode = run[r].mode /\ q.id = run[r].id
          /\ q.clean = run[r].clean /\ q.dry = run[r].dry /\ q.left = run[r].left
      BY <1>0 DEF RunStates
    <3> HIDE DEF q
    <3>2. Stands(q, tunnels', dns') /\ Changes(run[r], tunnels', dns')
      BY <1>0, <2>1, <3>1 DEF Stands, Bound, Changes
    <3>3. "replace" \in Steps \ Ended
      BY DEF Steps, Ended
    <3> QED
      BY <1>0, <2>1, <2>3, <3>2, <3>3, OnwardStep DEF q, Ended
  <2> QED
    BY <2>1, <2>2, <2>3
<1>4. CASE updateDnsRecord(r)
  <2>1. run[r].step = "replace" /\ run[r].left # <<>> /\ UNCHANGED <<tunnels, issued, saved>>
        /\ Host(r) \in Hosts
        /\ dns' = [dns EXCEPT ![Host(r)] = run[r].id] /\ run' = [run EXCEPT ![r] = NextHost(run[r])]
    BY <1>0, <1>4, LeftShape DEF updateDnsRecord, restOfCloud, Stands, Host
  <2> QED
    BY <1>0, <2>1, HostDone
<1> QED
  BY <1>1, <1>2, <1>3, <1>4

LEMMA LastStep ==
  ASSUME SetupInv, NEW r \in Runs, WriteConfig(r) \/ verifyExposure(r) \/ Broken(r)
  PROVE  SetupInv'
<1>0. run[r] \in RunStates /\ Stands(run[r], tunnels, dns)
  BY DEF SetupInv, SetupsTyped
<1>1. CASE WriteConfig(r) /\ run[r].dry
  BY <1>1, OverStep DEF WriteConfig, restOfCloud, Ended
<1>2. CASE WriteConfig(r) /\ ~run[r].dry
  <2> DEFINE q == [run[r] EXCEPT !.step = "verify"]
  <2>1. run[r].step = "dns" /\ run[r].left = <<>> /\ Move(r, "verify") /\ UNCHANGED <<tunnels, dns, issued, saved>>
    BY <1>2 DEF WriteConfig, restOfCloud
  <2>2. /\ q.step = "verify" /\ q.mode = run[r].mode /\ q.id = run[r].id
        /\ q.clean = run[r].clean /\ q.dry = run[r].dry /\ q.left = run[r].left
    BY <1>0 DEF RunStates
  <2> HIDE DEF q
  <2>3. Stands(q, tunnels', dns') /\ Changes(run[r], tunnels', dns')
    BY <1>0, <1>2, <2>1, <2>2 DEF Stands, Bound, Changes
  <2>4. "verify" \in Steps \ Ended
    BY DEF Steps, Ended
  <2> QED
    BY <2>1, <2>3, <2>4, OnwardStep DEF q, Ended, SetupInv, SetupsTyped
<1>3. CASE verifyExposure(r)
  BY <1>3, OverStep DEF verifyExposure, restOfCloud, Ended
<1>4. CASE Broken(r)
  BY <1>4, OverStep DEF Broken, Busy, Ended
<1> QED
  BY <1>1, <1>2, <1>3, <1>4

LEMMA BeginStep == ASSUME SetupInv, NEW r \in Runs, Begin(r) PROVE SetupInv'
<1>1. PICK p \in Plans :
        LET q == [NoRun EXCEPT !.step = "auth", !.kind = p.kind, !.mode = p.mode, !.dry = p.dry, !.id = p.id,
                               !.how = IF p.id = "old" THEN "existing" ELSE "auto", !.token = saved]
        IN  run' = [o \in Runs |->
              IF o = r THEN [q EXCEPT !.clean = \A o2 \in Runs \ {r} : Busy(o2) => Same(o2, q)]
              ELSE [run[o] EXCEPT !.clean = @ /\ (Busy(o) => Same(o, q))]]
  BY DEF Begin
<1>2. run[r] = NoRun /\ UNCHANGED <<tunnels, dns, issued, saved>>
  BY DEF Begin
<1> DEFINE q == [NoRun EXCEPT !.step = "auth", !.kind = p.kind, !.mode = p.mode, !.dry = p.dry, !.id = p.id,
                              !.how = IF p.id = "old" THEN "existing" ELSE "auto", !.token = saved]
<1>3. /\ q \in RunStates /\ q.step = "auth" /\ q.mode = p.mode /\ q.id = p.id
  BY CfAssumption DEF SetupInv, SetupsTyped, NoRun, RunStates, Steps, Ended, Ids, TunnelStates, NoTunnel,
     Lefts, Contents
<1> HIDE DEF q
<1>4. /\ run'[r] = [q EXCEPT !.clean = \A o2 \in Runs \ {r} : Busy(o2) => Same(o2, q)]
      /\ \A o \in Runs \ {r} : run'[o] = [run[o] EXCEPT !.clean = run[o].clean /\ (Busy(o) => Same(o, q))]
      /\ DOMAIN run' = Runs /\ run' = [o \in Runs |-> run'[o]]
  BY <1>1 DEF q
<1>5. \A x \in RunStates, b \in BOOLEAN :
        LET y == [x EXCEPT !.clean = b]
        IN  y \in RunStates /\ y.clean = b /\ y.step = x.step /\ y.mode = x.mode /\ y.id = x.id
            /\ y.dry = x.dry /\ y.left = x.left /\ y.had = x.had
  BY DEF RunStates
<1>6. \A o \in Runs : run[o] \in RunStates
  BY DEF SetupInv, SetupsTyped
<1>7. /\ run'[r] \in RunStates /\ run'[r].step = "auth" /\ run'[r].mode = q.mode /\ run'[r].id = q.id
      /\ run'[r].clean => \A o \in Runs \ {r} : Busy(o) => Same(o, q)
  <2> DEFINE b == \A o2 \in Runs \ {r} : Busy(o2) => Same(o2, q)
  <2>1. b \in BOOLEAN
    OBVIOUS
  <2>2. run'[r] = [q EXCEPT !.clean = b]
    BY <1>4
  <2> HIDE DEF b
  <2>3. /\ run'[r] \in RunStates /\ run'[r].step = "auth" /\ run'[r].mode = q.mode /\ run'[r].id = q.id
        /\ run'[r].clean = b
    BY <1>3, <1>5, <2>1, <2>2
  <2> QED
    BY <2>3 DEF b
<1>8. ASSUME NEW o \in Runs \ {r}
      PROVE  /\ run'[o] \in RunStates /\ run'[o].step = run[o].step /\ run'[o].mode = run[o].mode
             /\ run'[o].id = run[o].id /\ run'[o].dry = run[o].dry /\ run'[o].left = run[o].left
             /\ run'[o].had = run[o].had
             /\ run'[o].clean => run[o].clean /\ (Busy(o) => Same(o, q))
  <2> DEFINE b == run[o].clean /\ (Busy(o) => Same(o, q))
  <2>1. b \in BOOLEAN /\ run[o] \in RunStates
    BY <1>6
  <2>2. run'[o] = [run[o] EXCEPT !.clean = b]
    BY <1>4
  <2> HIDE DEF b
  <2>3. /\ run'[o] \in RunStates /\ run'[o].step = run[o].step /\ run'[o].mode = run[o].mode
        /\ run'[o].id = run[o].id /\ run'[o].dry = run[o].dry /\ run'[o].left = run[o].left
        /\ run'[o].had = run[o].had /\ run'[o].clean = b
    BY <1>5, <2>1, <2>2
  <2> QED
    BY <2>3 DEF b
<1>9. SetupsTyped'
  BY <1>2, <1>4, <1>7, <1>8 DEF SetupInv, SetupsTyped
<1>10. \A o \in Runs : Stands(run'[o], tunnels', dns')
  <2>1. Stands(run'[r], tunnels', dns')
    BY <1>7 DEF Stands, Bound
  <2>2. ASSUME NEW o \in Runs \ {r} PROVE Stands(run'[o], tunnels', dns')
    <3>1. Stands(run[o], tunnels, dns)
      BY DEF SetupInv
    <3>2. hostnames(run'[o]) = hostnames(run[o])
      BY <1>8 DEF hostnames
    <3> QED
      BY <1>2, <1>8, <3>1, <3>2 DEF Stands, Bound
  <2> QED
    BY <2>1, <2>2
<1>11. ASSUME NEW o \in Runs, NEW o2 \in Runs PROVE Undisturbed(run'[o], run'[o2])
  <2>1. CASE o = r /\ o2 = r
    BY <2>1 DEF Undisturbed
  <2>2. CASE o = r /\ o2 # r
    BY <1>7, <1>8, <2>2 DEF Undisturbed, Busy, Same, Ended
  <2>3. CASE o # r /\ o2 = r
    BY <1>7, <1>8, <2>3 DEF Undisturbed, Busy, Same, Ended
  <2>4. CASE o # r /\ o2 # r
    <3>1. Undisturbed(run[o], run[o2])
      BY DEF SetupInv
    <3> QED
      BY <1>8, <2>4, <3>1 DEF Undisturbed
  <2> QED
    BY <2>1, <2>2, <2>3, <2>4
<1> QED
  BY <1>2, <1>9, <1>10, <1>11 DEF SetupInv

\* Somebody else's change disturbs every setup, and keeps the tunnel filled.
LEMMA ElsewhereStep == ASSUME SetupInv, Elsewhere PROVE SetupInv'
<1>1. run' = [r \in Runs |-> [run[r] EXCEPT !.clean = FALSE]] /\ UNCHANGED <<issued, saved>>
  BY DEF Elsewhere
<1>2. tunnels' \in [Ids -> TunnelStates] /\ dns' \in [Hosts -> Contents] /\ Filled(tunnels'["old"])
  <2>1. CASE UNCHANGED tunnels
    BY <2>1 DEF Elsewhere, SetupInv, SetupsTyped, Contents
  <2>2. CASE ~UNCHANGED tunnels
    <3>1. PICK i \in Ids : tunnels' = [tunnels EXCEPT ![i].rest = @ + 1, ![i].ingress = "theirs"]
      BY <2>2 DEF Elsewhere
    <3>2. UNCHANGED dns
      BY <2>2 DEF Elsewhere
    <3>3. tunnels[i] \in TunnelStates
      BY DEF SetupInv, SetupsTyped
    <3>4. /\ tunnels'[i] = [ingress |-> "theirs", rest |-> tunnels[i].rest + 1]
          /\ \A j \in Ids \ {i} : tunnels'[j] = tunnels[j]
          /\ DOMAIN tunnels' = Ids /\ tunnels' = [j \in Ids |-> tunnels'[j]]
      BY <3>1, <3>3 DEF SetupInv, SetupsTyped, TunnelStates
    <3>5. tunnels'[i] \in TunnelStates /\ Filled(tunnels'[i])
      BY <3>3, <3>4 DEF TunnelStates, Filled
    <3>6. "old" \in Ids
      BY DEF Ids
    <3>7. Filled(tunnels'["old"])
      BY <3>4, <3>5, <3>6 DEF SetupInv
    <3> QED
      BY <3>2, <3>4, <3>5, <3>7 DEF SetupInv, SetupsTyped
  <2> QED
    BY <2>1, <2>2
<1>3. ASSUME NEW r \in Runs
      PROVE  /\ run'[r] \in RunStates /\ ~run'[r].clean /\ Stands(run'[r], tunnels', dns')
  <2>1. run[r] \in RunStates /\ Stands(run[r], tunnels, dns)
    BY DEF SetupInv, SetupsTyped
  <2>2. /\ run'[r] \in RunStates /\ ~run'[r].clean /\ run'[r].step = run[r].step
        /\ run'[r].mode = run[r].mode /\ run'[r].id = run[r].id /\ run'[r].dry = run[r].dry
        /\ run'[r].left = run[r].left /\ run'[r].had = run[r].had
    BY <1>1, <2>1 DEF RunStates
  <2>3. hostnames(run'[r]) = hostnames(run[r])
    BY <2>2 DEF hostnames
  <2> QED
    BY <2>1, <2>2, <2>3 DEF Stands, Bound
<1>4. SetupsTyped'
  BY <1>1, <1>2, <1>3 DEF SetupInv, SetupsTyped
<1> QED
  BY <1>2, <1>3, <1>4 DEF SetupInv, Undisturbed

LEMMA SetupKept == SetupInv /\ (SetupNext \/ UNCHANGED cloudVars) => SetupInv'
<1> SUFFICES ASSUME SetupInv, SetupNext \/ UNCHANGED cloudVars PROVE SetupInv'
  OBVIOUS
<1>1. CASE login \/ logout \/ UNCHANGED cloudVars
  <2>1. UNCHANGED <<tunnels, dns, run>> /\ issued' \in Nat /\ saved' \in Nat
    BY <1>1 DEF login, logout, cloudVars, SetupInv, SetupsTyped
  <2> QED
    BY <2>1 DEF SetupInv, SetupsTyped
<1> QED
  BY <1>1, ElsewhereStep, BeginStep, CredentialStep, ChoiceStep, TunnelStep, RecordStep, LastStep DEF SetupNext

LEMMA DoneAsPlanned ==
  ASSUME SetupInv, NEW r \in Runs, run[r].step = "verify", run[r].clean
  PROVE  AppliedBy(run[r])
<1>1. run[r] \in RunStates /\ Stands(run[r], tunnels, dns) /\ Filled(tunnels["old"])
  BY DEF SetupInv, SetupsTyped
<1>2. Bound(run[r]) /\ run[r].left = <<>>
  BY <1>1 DEF Bound, Stands
<1>3. <<>> # <<"relay", "gateway">>
  OBVIOUS
<1> QED
  BY <1>1, <1>2, <1>3 DEF AppliedBy, Stands, Filled

-----------------------------------------------------------------------------
LEMMA CfApart ==
  ASSUME [Next]_vars
  PROVE  /\ ConnectorNext \/ UNCHANGED kidVars
         /\ SetupNext \/ UNCHANGED cloudVars
  <1>1. ConnectorNext => UNCHANGED cloudVars
    BY DEF ConnectorNext, spawnCloudflared, Resolved, NotResolved, Spawned, Dies, ExitTold, GraceEnds,
       stopCloudflared, Stopped, cloudVars
  <1>2. SetupNext => UNCHANGED kidVars
    BY DEF SetupNext, login, logout, Elsewhere, Begin, EnvToken, getApiToken, Refused, Persist,
       ChooseTunnel, Decide, FindTunnel, createTunnel, getConfiguration, putConfiguration,
       findDnsRecord, createDnsRecord, onDnsConflict, updateDnsRecord, WriteConfig, verifyExposure,
       Broken, restOfCloud
  <1> QED
    BY <1>1, <1>2 DEF Next, vars, cfVars, PortsOnly, TrayOnly

\* There is one cloudflared process at most and none when a stop is over; a
\* setup that ends well, undisturbed, has left its plan at Cloudflare, for any
\* number of startups, setups and failures (connector.ts, provision.ts).
THEOREM CfAlwaysHolds == Spec => CfHolds
<1>1. Init => KidInv /\ SetupInv
  BY KidBase, SetupBase DEF Init
<1>2. KidInv /\ SetupInv /\ [Next]_vars => KidInv' /\ SetupInv'
  BY CfApart, KidKept, SetupKept
<1> DEFINE Reaps == (tunnelStopAll # "no" /\ tunnelStopAll' = "no") => \A k \in Kids : ~Alive(k)'
           Does == \A r \in Runs : (run[r].step = "verify" /\ run[r].clean /\ run'[r].step = "ok") => AppliedBy(run[r])
<1>3. KidInv /\ [Next]_vars => [Reaps]_kidVars
  BY CfApart, KidKept
<1>4. SetupInv /\ [Next]_vars => [Does]_cloudVars
  BY DoneAsPlanned
<1>5. KidInv => OneConnector
  BY KidOne
<1> HIDE DEF Reaps, Does
<1>6. Spec => []OneConnector /\ [][Reaps]_kidVars /\ [][Does]_cloudVars
  BY <1>1, <1>2, <1>3, <1>4, <1>5, PTL DEF Spec
<1> QED
  BY <1>6 DEF CfHolds, StopReaps, Applied, Reaps, Does

=============================================================================
