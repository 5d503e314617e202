------------------------ MODULE PlannerIngressProofs ------------------------
(***************************************************************************)
(* The inductive invariant of ingress and decisions and its theorems, for   *)
(* any projects, keys, threads, workspace switches and crashes.             *)
(***************************************************************************)
EXTENDS PlannerIngress, FiniteSetTheorems, TLAPS

\* A thread that holds the claim of its key, and one whose row is written.
Holding == {"claimed", "refused", "clear", "built"}
Holds(c) == calls[c].at \in Holding
Plans(c) == calls[c].at \in {"created", "planning"}

\* Threads are there only while the daemon serves.
HostOK ==
    host # "up" => /\ \A c \in Calls : calls[c] = IdleCall
                   /\ \A h \in Deciders : deciders[h] = IdleDecider

\* The claim a thread holds is open until it binds it or gives it back; the row
\* it wrote is where the thread left it.
CallsOK ==
    \A c \in Calls :
        /\ calls[c].at # "idle" => calls[c].project \in Projects /\ calls[c].key \in Keys
        /\ calls[c].at = "built" => calls[c].context \in Projects
        /\ Holds(c) => IsOpen(Receipt(c))
        /\ Plans(c) => calls[c].request \in DOMAIN requests
        /\ calls[c].at = "created" => requests[calls[c].request].status = "pending"
        /\ calls[c].at = "planning" => requests[calls[c].request].status = "running"

\* No two threads hold one claim, or plan one row.
ExclusiveOK ==
    \A c, d \in Calls :
        /\ Holds(c) /\ Holds(d) /\ calls[c].project = calls[d].project
                    /\ calls[c].key = calls[d].key => c = d
        /\ Plans(c) /\ Plans(d) /\ calls[c].request = calls[d].request => c = d

\* There is room for the row of everybody who may still write one.
RoomOK == IsFiniteSet(Undecided)
          /\ Len(requests) + Cardinality(Undecided) <= MaxRequests

DecidersOK ==
    \A h \in Deciders : deciders[h].at # "idle" =>
        deciders[h].request \in Ids /\ deciders[h].action # None

IngressInv ==
    /\ TypeOK /\ HostOK /\ CallsOK /\ ExclusiveOK /\ RoomOK /\ DecidersOK
    /\ ToldIsStored /\ RequestIsBound /\ ClaimHasOwner
-----------------------------------------------------------------------------
(* What a step of one thread does to the others.                            *)

Places == Holding \cup {"idle", "created", "planning", "answering"}
Elsewhere == <<authority, carried, active, deciders, host, switches, crashes>>

\* Whoever leaves makes room, whoever comes takes it.
LEMMA RoomKept ==
    ASSUME RoomOK, TypeOK, NEW c \in Calls, Len(requests') \in Nat,
           \A d \in Calls \ {c} : calls'[d] = calls[d],
           \/ c \in Undecided' /\ Len(requests') = Len(requests)
                /\ (c \notin Undecided => Len(requests) + Cardinality(Undecided) < MaxRequests)
           \/ c \notin Undecided' /\ Len(requests') = Len(requests)
           \/ c \in Undecided /\ c \notin Undecided' /\ Len(requests') = Len(requests) + 1
    PROVE  RoomOK'
<1>1. /\ IsFiniteSet(Undecided) /\ Cardinality(Undecided) \in Nat
      /\ Len(requests) \in Nat /\ MaxRequests \in Nat
      /\ Len(requests) + Cardinality(Undecided) <= MaxRequests
  BY FS_CardinalityType, BoundsAssumption DEF RoomOK, TypeOK
<1>2. \A d \in Calls \ {c} : d \in Undecided' <=> d \in Undecided BY DEF Undecided
<1>3. CASE c \in Undecided' /\ c \in Undecided
  <2>1. Undecided' = Undecided BY <1>2, <1>3 DEF Undecided
  <2> QED BY <1>1, <1>3, <2>1 DEF RoomOK
<1>4. CASE c \in Undecided' /\ c \notin Undecided
  <2>1. Undecided' = Undecided \cup {c} BY <1>2, <1>4 DEF Undecided
  <2>2. IsFiniteSet(Undecided') /\ Cardinality(Undecided') = Cardinality(Undecided) + 1
    BY <1>1, <1>4, <2>1, FS_AddElement
  <2> QED BY <1>1, <1>4, <2>2 DEF RoomOK
<1>5. CASE c \notin Undecided' /\ c \in Undecided
  <2>1. Undecided' = Undecided \ {c} BY <1>2, <1>5 DEF Undecided
  <2>2. IsFiniteSet(Undecided') /\ Cardinality(Undecided') = Cardinality(Undecided) - 1
    BY <1>1, <1>5, <2>1, FS_RemoveElement
  <2> QED BY <1>1, <1>5, <2>2 DEF RoomOK
<1>6. CASE c \notin Undecided' /\ c \notin Undecided
  <2>1. Undecided' = Undecided BY <1>2, <1>6 DEF Undecided
  <2> QED BY <1>1, <1>6, <2>1 DEF RoomOK
<1> QED BY <1>3, <1>4, <1>5, <1>6

\* A thread moves on without writing: it keeps the claim it has, or has none.
LEMMA MovePreserves ==
    ASSUME IngressInv, host = "up", NEW c \in Calls, NEW r \in CallRecords,
           calls' = [calls EXCEPT ![c] = r], UNCHANGED <<receipts, requests, Elsewhere>>,
           r.at \in Holding \cup {"idle", "answering"}, calls[c].at \notin {"created", "planning"},
           r.at \in Holding <=> Holds(c),
           r.at \in {"claimed", "clear", "built"} => c \in Undecided,
           r.at # "idle" => r.project \in Projects /\ r.key \in Keys,
           r.at = "built" => r.context \in Projects,
           Holds(c) => r.project = calls[c].project /\ r.key = calls[c].key
    PROVE  IngressInv'
<1> USE DEF IngressInv, Elsewhere
<1>1. calls'[c] = r /\ \A d \in Calls \ {c} : calls'[d] = calls[d] BY DEF TypeOK
<1>2. TypeOK' BY DEF TypeOK
<1>3. HostOK' BY DEF HostOK
<1>4. CallsOK'
  <2>1. ASSUME NEW d \in Calls \ {c} PROVE Receipt(d)' = Receipt(d) BY <1>1 DEF Receipt
  <2>2. Holds(c) => Receipt(c)' = Receipt(c) BY <1>1 DEF Receipt
  <2> QED BY <1>1, <2>1, <2>2 DEF CallsOK, Holds, Plans, IsOpen, Holding
<1>5. ExclusiveOK' BY <1>1 DEF ExclusiveOK, Holds, Plans, Holding
<1>6. RoomOK'
  <2>1. Len(requests') = Len(requests) /\ Len(requests) \in Nat BY DEF TypeOK
  <2>2. c \in Undecided' => c \in Undecided BY <1>1 DEF Undecided
  <2> QED BY <1>1, <2>1, <2>2, RoomKept
<1>7. DecidersOK' /\ ToldIsStored' BY DEF DecidersOK, ToldIsStored
<1>8. RequestIsBound' BY DEF RequestIsBound
<1>9. ClaimHasOwner'
  BY <1>1 DEF ClaimHasOwner, Holds, Holding, IsOpen
<1> QED BY <1>2, <1>3, <1>4, <1>5, <1>6, <1>7, <1>8, <1>9

\* A thread finds its project busy, fails to build a context, builds one, finds
\* its key already planned, or answers: nothing is written.
LEMMA ReadsPreserve ==
    ASSUME IngressInv, NEW c \in Calls,
           \/ CheckSettled(c) \/ RefuseContext(c) \/ BuildContext(c) \/ Answer(c)
           \/ \E p \in Projects, k \in Keys, d \in Digests : Replay(c, p, k, d)
    PROVE  IngressInv'
<1> USE DEF Elsewhere, Undecided, Holds, Holding
<1>0. calls \in [Calls -> CallRecords] /\ calls[c] \in CallRecords
  BY DEF IngressInv, TypeOK
<1>1. CASE CheckSettled(c) \/ RefuseContext(c)
  <2> DEFINE at == calls'[c].at
             r == [calls[c] EXCEPT !.at = at]
  <2>1. /\ calls' = [calls EXCEPT ![c] = r] /\ r \in CallRecords /\ r.at = at
        /\ at \in {"clear", "refused"} /\ host = "up"
        /\ calls[c].at \in {"claimed", "clear"}
        /\ r.project = calls[c].project /\ r.key = calls[c].key
        /\ UNCHANGED <<receipts, requests, Elsewhere>>
    BY <1>0, <1>1 DEF CheckSettled, RefuseContext, Goto, CallRecords
  <2>2. calls[c].project \in Projects /\ calls[c].key \in Keys
    BY <2>1 DEF IngressInv, CallsOK
  <2> HIDE DEF at, r
  <2> QED BY <2>1, <2>2, MovePreserves
<1>2. CASE BuildContext(c)
  <2> DEFINE r == [calls[c] EXCEPT !.at = "built", !.context = active]
  <2>1. /\ calls' = [calls EXCEPT ![c] = r] /\ r \in CallRecords /\ r.at = "built"
        /\ r.context \in Projects /\ host = "up" /\ calls[c].at = "clear"
        /\ r.project = calls[c].project /\ r.key = calls[c].key
        /\ UNCHANGED <<receipts, requests, Elsewhere>>
    BY <1>0, <1>2 DEF BuildContext, CallRecords, IngressInv, TypeOK
  <2>2. calls[c].project \in Projects /\ calls[c].key \in Keys
    BY <2>1 DEF IngressInv, CallsOK
  <2> HIDE DEF r
  <2> QED BY <2>1, <2>2, MovePreserves
<1>3. CASE Answer(c)
  <2>1. /\ IdleCall \in CallRecords /\ IdleCall.at = "idle" /\ calls[c].at = "answering"
        /\ calls' = [calls EXCEPT ![c] = IdleCall] /\ host = "up"
        /\ UNCHANGED <<receipts, requests, Elsewhere>>
    BY <1>3 DEF Answer, IdleCall, CallRecords
  <2> QED BY <2>1, MovePreserves
<1>4. ASSUME NEW p \in Projects, NEW k \in Keys, NEW d \in Digests, Replay(c, p, k, d)
      PROVE  IngressInv'
  <2> DEFINE r == [IdleCall EXCEPT !.at = "answering", !.project = p, !.key = k,
                                   !.request = receipts[p][k].request]
  <2>1. receipts[p][k] \in Receipts \cup {None} /\ receipts[p][k] # None
    <3>1. receipts[p][k] # None BY <1>4 DEF Replay
    <3>2. receipts[p][k] \in Receipts \cup {None} BY <1>4 DEF IngressInv, TypeOK
    <3> QED BY <3>1, <3>2
  <2>2. /\ r \in CallRecords /\ r.at = "answering" /\ r.project = p /\ r.key = k
        /\ calls[c].at = "idle" /\ calls' = [calls EXCEPT ![c] = r] /\ host = "up"
        /\ UNCHANGED <<receipts, requests, Elsewhere>>
    <3>1. receipts[p][k].request \in Ids \cup {None} BY <2>1 DEF Receipts
    <3>2. r \in CallRecords /\ r.at = "answering" /\ r.project = p /\ r.key = k
      BY <3>1 DEF IdleCall, CallRecords
    <3>3. /\ calls[c].at = "idle" /\ calls' = [calls EXCEPT ![c] = r] /\ host = "up"
          /\ UNCHANGED <<receipts, requests, Elsewhere>>
      BY <1>4 DEF Replay
    <3> QED BY <3>2, <3>3
  <2> HIDE DEF r
  <2> QED BY <2>2, MovePreserves
<1> QED BY <1>1, <1>2, <1>3, <1>4
-----------------------------------------------------------------------------
(* Who writes a receipt.                                                    *)

\* A fresh key is claimed: nobody else holds it, and no row has it.
LEMMA ClaimPreserves ==
    ASSUME IngressInv, NEW c \in Calls, NEW p \in Projects, NEW k \in Keys,
           NEW d \in Digests, Claim(c, p, k, d)
    PROVE  IngressInv'
<1> USE DEF IngressInv, Claim
<1> DEFINE claim == [digest |-> d, request |-> None, abandoned |-> FALSE]
           r == [IdleCall EXCEPT !.at = "claimed", !.project = p, !.key = k]
<1>1. claim \in Receipts /\ claim # None /\ claim.request = None /\ ~ claim.abandoned
  <2>1. claim \in Receipts /\ claim.request = None /\ ~ claim.abandoned BY DEF Receipts
  <2> HIDE DEF claim
  <2> QED BY <2>1, NoneIsNothing
<1>2. r \in CallRecords /\ r.at = "claimed" /\ r.project = p /\ r.key = k
  BY DEF IdleCall, CallRecords
<1>3. /\ calls' = [calls EXCEPT ![c] = r] /\ receipts' = [receipts EXCEPT ![p][k] = claim]
      /\ receipts[p][k] = None /\ calls[c].at = "idle" /\ host = "up"
      /\ UNCHANGED <<requests, Elsewhere>>
  BY DEF Elsewhere
<1> HIDE DEF claim, r, Claim
<1>4. calls'[c] = r /\ \A b \in Calls \ {c} : calls'[b] = calls[b]
  BY <1>3 DEF TypeOK
<1>5. /\ receipts'[p][k] = claim
      /\ \A q \in Projects, l \in Keys : q # p \/ l # k => receipts'[q][l] = receipts[q][l]
      /\ receipts' \in [Projects -> [Keys -> Receipts \cup {None}]]
  <2>1. receipts \in [Projects -> [Keys -> Receipts \cup {None}]] BY DEF TypeOK
  <2>2. receipts'[p][k] = claim BY <1>1, <1>3, <2>1
  <2>3. \A q \in Projects, l \in Keys : q # p \/ l # k => receipts'[q][l] = receipts[q][l]
    BY <1>1, <1>3, <2>1
  <2>4. receipts' \in [Projects -> [Keys -> Receipts \cup {None}]] BY <1>1, <1>3, <2>1
  <2> QED BY <2>2, <2>3, <2>4
<1>6. TypeOK' BY <1>2, <1>3, <1>5 DEF TypeOK, Elsewhere
<1>7. HostOK' BY <1>3 DEF HostOK, Elsewhere
<1>8. \A b \in Calls \ {c} :
         Holds(b) => calls[b].project # p \/ calls[b].key # k
  BY <1>3 DEF CallsOK, IsOpen, Receipt
<1>9. CallsOK'
  <2>1. Receipt(c)' = claim BY <1>2, <1>4, <1>5 DEF Receipt
  <2>2. \A b \in Calls \ {c} : Holds(b) => Receipt(b)' = Receipt(b)
    BY <1>4, <1>5, <1>8 DEF Receipt, CallsOK, Holds, Holding
  <2> QED
    BY <1>1, <1>2, <1>3, <1>4, <2>1, <2>2 DEF CallsOK, Holds, Plans, IsOpen, Holding
<1>10. ExclusiveOK'
  BY <1>2, <1>4, <1>8 DEF ExclusiveOK, Holds, Plans, Holding
<1>11. RoomOK'
  <2>1. c \in Undecided' /\ c \notin Undecided BY <1>2, <1>3, <1>4 DEF Undecided
  <2>2. /\ Len(requests') = Len(requests) /\ Len(requests) \in Nat
        /\ Len(requests) + Cardinality(Undecided) < MaxRequests
    BY <1>3 DEF TypeOK, Claim
  <2> QED BY <1>4, <2>1, <2>2, RoomKept
<1>12. DecidersOK' /\ ToldIsStored' BY <1>3 DEF DecidersOK, ToldIsStored, Elsewhere
<1>13. RequestIsBound'
  BY <1>3, <1>5 DEF RequestIsBound, TypeOK, Requests
<1>14. ClaimHasOwner'
  BY <1>2, <1>3, <1>4, <1>5 DEF ClaimHasOwner, IsOpen
<1> QED BY <1>6, <1>7, <1>9, <1>10, <1>11, <1>12, <1>13, <1>14

\* A refused thread gives its claim back, which nothing is bound to.
LEMMA ReleasePreserves ==
    ASSUME IngressInv, NEW c \in Calls, Release(c)
    PROVE  IngressInv'
<1> USE DEF IngressInv
<1> DEFINE p == calls[c].project
           k == calls[c].key
<1>1. /\ Holds(c) /\ calls[c].at = "refused" /\ p \in Projects /\ k \in Keys
      /\ IsOpen(receipts[p][k])
  BY DEF Release, CallsOK, Holds, Holding, Receipt
<1>2. /\ receipts' = [receipts EXCEPT ![p][k] = None]
      /\ calls' = [calls EXCEPT ![c] = IdleCall] /\ host = "up"
      /\ UNCHANGED <<requests, Elsewhere>>
  BY <1>1 DEF Release, SetReceipt, Receipt, Elsewhere
<1>3. IdleCall.at = "idle" /\ IdleCall \in CallRecords BY DEF IdleCall, CallRecords
<1>4. calls'[c] = IdleCall /\ \A b \in Calls \ {c} : calls'[b] = calls[b]
  BY <1>2 DEF TypeOK
<1> HIDE DEF p, k
<1>5. /\ receipts'[p][k] = None
      /\ \A q \in Projects, l \in Keys : q # p \/ l # k => receipts'[q][l] = receipts[q][l]
      /\ receipts' \in [Projects -> [Keys -> Receipts \cup {None}]]
  <2>1. receipts \in [Projects -> [Keys -> Receipts \cup {None}]] BY DEF TypeOK
  <2>2. receipts'[p][k] = None BY <1>1, <1>2, <2>1
  <2>3. \A q \in Projects, l \in Keys : q # p \/ l # k => receipts'[q][l] = receipts[q][l]
    BY <1>1, <1>2, <2>1
  <2>4. receipts' \in [Projects -> [Keys -> Receipts \cup {None}]] BY <1>1, <1>2, <2>1
  <2> QED BY <2>2, <2>3, <2>4
<1>6. TypeOK' BY <1>2, <1>3, <1>5 DEF TypeOK, Elsewhere
<1>7. HostOK' BY <1>2 DEF HostOK, Elsewhere
<1>8. \A b \in Calls \ {c} : Holds(b) => calls[b].project # p \/ calls[b].key # k
  BY <1>1 DEF ExclusiveOK, p, k
<1>9. CallsOK'
  <2>1. \A b \in Calls \ {c} : Holds(b) => Receipt(b)' = Receipt(b)
    BY <1>4, <1>5, <1>8 DEF Receipt, CallsOK, Holds, Holding
  <2> QED BY <1>2, <1>3, <1>4, <2>1 DEF CallsOK, Holds, Plans, IsOpen, Holding
<1>10. ExclusiveOK' BY <1>3, <1>4 DEF ExclusiveOK, Holds, Plans, Holding
<1>11. RoomOK'
  <2>1. c \notin Undecided' BY <1>3, <1>4 DEF Undecided
  <2>2. Len(requests') = Len(requests) /\ Len(requests) \in Nat BY <1>2 DEF TypeOK
  <2> QED BY <1>4, <2>1, <2>2, RoomKept
<1>12. DecidersOK' /\ ToldIsStored' BY <1>2 DEF DecidersOK, ToldIsStored, Elsewhere
<1>13. RequestIsBound'
  <2>1. ASSUME NEW i \in DOMAIN requests
        PROVE  requests[i].asked # p \/ requests[i].key # k
    BY <1>1, <2>1, NoneIsNothing DEF RequestIsBound, IsOpen, TypeOK
  <2> QED BY <1>2, <1>5, <2>1 DEF RequestIsBound, TypeOK, Requests
<1>14. ClaimHasOwner'
  <2>1. ASSUME NEW q \in Projects, NEW l \in Keys, IsOpen(receipts'[q][l])
        PROVE  \E b \in Calls : /\ calls'[b].project = q /\ calls'[b].key = l
                                /\ calls'[b].at \in Holding
    <3>1. (q # p \/ l # k) /\ IsOpen(receipts[q][l]) BY <1>5, <2>1 DEF IsOpen
    <3>2. PICK b \in Calls : /\ calls[b].project = q /\ calls[b].key = l
                             /\ calls[b].at \in Holding
      BY <1>2, <3>1 DEF ClaimHasOwner, Holding
    <3>3. b # c BY <3>1, <3>2 DEF p, k
    <3> QED BY <1>4, <3>2, <3>3
  <2> QED BY <2>1 DEF ClaimHasOwner, Holding, IsOpen
<1> QED BY <1>6, <1>7, <1>9, <1>10, <1>11, <1>12, <1>13, <1>14

\* The row and the binding of the claim are one transaction.
LEMMA CreatePreserves ==
    ASSUME IngressInv, NEW c \in Calls, CreateRequest(c)
    PROVE  IngressInv'
<1> USE DEF IngressInv
<1> DEFINE p == calls[c].project
           k == calls[c].key
           i == Len(requests) + 1
           row == [project |-> calls[c].context, asked |-> p, key |-> k,
                   status |-> "pending", action |-> None]
           bound == [receipts[p][k] EXCEPT !.request = i]
           r == [calls[c] EXCEPT !.at = "created", !.request = i]
<1>1. /\ Holds(c) /\ calls[c].at = "built" /\ p \in Projects /\ k \in Keys
      /\ calls[c].context \in Projects /\ IsOpen(receipts[p][k]) /\ host = "up"
      /\ receipts[p][k] \in Receipts /\ c \in Undecided
  BY DEF CreateRequest, CallsOK, Holds, Holding, Receipt, IsOpen, TypeOK, Undecided
<1>2. /\ requests' = Append(requests, row) /\ receipts' = [receipts EXCEPT ![p][k] = bound]
      /\ calls' = [calls EXCEPT ![c] = r] /\ UNCHANGED Elsewhere
  BY <1>1 DEF CreateRequest, SetReceipt, Receipt, Elsewhere
<1>3. /\ Len(requests) \in Nat /\ requests \in Seq(Requests) /\ i \in Ids
  <2>1. /\ IsFiniteSet(Undecided) /\ Cardinality(Undecided) \in Nat
        /\ Cardinality(Undecided) # 0
    BY <1>1, FS_CardinalityType, FS_EmptySet DEF RoomOK
  <2> QED BY <2>1, BoundsAssumption DEF RoomOK, TypeOK, Ids
<1>4. /\ row \in Requests /\ row.asked = p /\ row.key = k /\ row.status = "pending"
      /\ bound \in Receipts /\ bound # None /\ bound.request = i
      /\ r \in CallRecords /\ r.at = "created" /\ r.request = i
      /\ r.project = p /\ r.key = k
  <2> HIDE DEF i
  <2>1. row \in Requests /\ row.asked = p /\ row.key = k /\ row.status = "pending"
    BY <1>1 DEF Requests, Statuses
  <2>2. bound \in Receipts /\ bound.request = i BY <1>1, <1>3 DEF Receipts
  <2>3. calls[c] \in CallRecords BY DEF TypeOK
  <2>4. /\ r \in CallRecords /\ r.at = "created" /\ r.request = i
        /\ r.project = p /\ r.key = k
    BY <1>3, <2>3 DEF CallRecords
  <2> HIDE DEF bound
  <2>5. bound # None BY <2>2, NoneIsNothing
  <2> QED BY <2>1, <2>2, <2>4, <2>5
<1> HIDE DEF p, k, row, bound, r
<1>5. /\ Len(requests') = i /\ requests' \in Seq(Requests) /\ requests'[i] = row
      /\ \A j \in DOMAIN requests : j \in DOMAIN requests' /\ requests'[j] = requests[j] /\ j # i
      /\ DOMAIN requests' = DOMAIN requests \cup {i}
  BY <1>2, <1>3, <1>4
<1>6. i # None BY <1>3, NoneIsNothing DEF Ids
<1>7. calls'[c] = r /\ \A b \in Calls \ {c} : calls'[b] = calls[b]
  BY <1>2 DEF TypeOK
<1>8. /\ receipts'[p][k] = bound
      /\ \A q \in Projects, l \in Keys : q # p \/ l # k => receipts'[q][l] = receipts[q][l]
      /\ receipts' \in [Projects -> [Keys -> Receipts \cup {None}]]
  <2>1. receipts \in [Projects -> [Keys -> Receipts \cup {None}]] BY DEF TypeOK
  <2>2. receipts'[p][k] = bound BY <1>1, <1>2, <2>1
  <2>3. \A q \in Projects, l \in Keys : q # p \/ l # k => receipts'[q][l] = receipts[q][l]
    BY <1>1, <1>2, <2>1
  <2>4. receipts' \in [Projects -> [Keys -> Receipts \cup {None}]]
    BY <1>1, <1>2, <1>4, <2>1
  <2> QED BY <2>2, <2>3, <2>4
<1> HIDE DEF i
<1>9. TypeOK'
  <2>1. Len(requests') <= MaxRequests BY <1>3, <1>5, BoundsAssumption DEF Ids
  <2> QED BY <1>2, <1>4, <1>5, <1>7, <1>8, <2>1 DEF TypeOK, Elsewhere
<1>10. HostOK' BY <1>1, <1>2 DEF HostOK, Elsewhere
<1>11. \A b \in Calls \ {c} : Holds(b) => calls[b].project # p \/ calls[b].key # k
  BY <1>1 DEF ExclusiveOK, p, k
<1>12. \A b \in Calls \ {c} : Plans(b) => calls[b].request \in DOMAIN requests
  BY DEF CallsOK
<1>13. CallsOK'
  <2>1. ASSUME NEW b \in Calls \ {c}, Holds(b) PROVE Receipt(b)' = Receipt(b)
    BY <1>7, <1>8, <1>11, <2>1 DEF Receipt, CallsOK, Holds, Holding
  <2> QED BY <1>1, <1>4, <1>5, <1>7, <1>12, <2>1 DEF CallsOK, Holds, Plans, IsOpen, Holding
<1>14. ExclusiveOK' BY <1>4, <1>5, <1>7, <1>12 DEF ExclusiveOK, Holds, Plans, Holding
<1>15. RoomOK'
  <2>1. c \notin Undecided' BY <1>4, <1>7 DEF Undecided
  <2>2. Len(requests') = Len(requests) + 1 /\ Len(requests') \in Nat
    BY <1>3, <1>5 DEF i
  <2> QED BY <1>1, <1>7, <2>1, <2>2, RoomKept
<1>16. DecidersOK' /\ ToldIsStored' BY <1>2 DEF DecidersOK, ToldIsStored, Elsewhere
<1>17. RequestIsBound'
  <2>1. ASSUME NEW j \in DOMAIN requests
        PROVE  /\ requests[j].asked # p \/ requests[j].key # k
               /\ requests[j] \in Requests
    BY <1>1, <2>1, NoneIsNothing DEF RequestIsBound, IsOpen, TypeOK
  <2> QED BY <1>4, <1>5, <1>8, <2>1 DEF RequestIsBound, Requests
<1>18. ClaimHasOwner'
  <2>1. ASSUME NEW q \in Projects, NEW l \in Keys, IsOpen(receipts'[q][l])
        PROVE  \E b \in Calls : /\ calls'[b].project = q /\ calls'[b].key = l
                                /\ calls'[b].at \in Holding
    <3>1. (q # p \/ l # k) /\ IsOpen(receipts[q][l])
      BY <1>4, <1>6, <1>8, <2>1 DEF IsOpen
    <3>2. PICK b \in Calls : /\ calls[b].project = q /\ calls[b].key = l
                             /\ calls[b].at \in Holding
      BY <1>1, <3>1 DEF ClaimHasOwner, Holding
    <3>3. b # c BY <3>1, <3>2 DEF p, k
    <3> QED BY <1>7, <3>2, <3>3
  <2> QED BY <2>1 DEF ClaimHasOwner, Holding, IsOpen
<1> QED BY <1>9, <1>10, <1>13, <1>14, <1>15, <1>16, <1>17, <1>18
-----------------------------------------------------------------------------
(* Who writes a row after it was created.                                   *)

\* The thread that plans a row moves it on, and is the only one to.
LEMMA RowPreserves ==
    ASSUME IngressInv, host = "up", NEW c \in Calls, Plans(c), NEW row \in Requests,
           NEW at \in {"planning", "answering"},
           requests' = [requests EXCEPT ![calls[c].request] = row],
           row.asked = requests[calls[c].request].asked,
           row.key = requests[calls[c].request].key,
           at = "planning" => row.status = "running",
           Goto(c, at), UNCHANGED <<receipts, Elsewhere>>
    PROVE  IngressInv'
<1> USE DEF IngressInv
<1> DEFINE i == calls[c].request
           r == [calls[c] EXCEPT !.at = at]
<1>1. calls[c] \in CallRecords /\ i \in DOMAIN requests /\ requests \in Seq(Requests)
  BY DEF TypeOK, CallsOK
<1>2. /\ calls' = [calls EXCEPT ![c] = r] /\ r \in CallRecords /\ r.at = at /\ r.request = i
      /\ r.project = calls[c].project /\ r.key = calls[c].key
  BY <1>1 DEF Goto, CallRecords
<1> HIDE DEF i, r
<1>3. calls'[c] = r /\ \A b \in Calls \ {c} : calls'[b] = calls[b]
  BY <1>2 DEF TypeOK
<1>4. /\ requests' \in Seq(Requests) /\ Len(requests') = Len(requests)
      /\ Len(requests) \in Nat /\ DOMAIN requests' = DOMAIN requests
      /\ requests'[i] = row /\ \A j \in DOMAIN requests \ {i} : requests'[j] = requests[j]
      /\ \A j \in DOMAIN requests : requests[j] \in Requests
  BY <1>1 DEF i
<1>5. TypeOK' BY <1>2, <1>4 DEF TypeOK, Elsewhere
<1>6. HostOK' BY DEF HostOK, Elsewhere
<1>7. \A b \in Calls \ {c} : Plans(b) => calls[b].request # i /\ calls[b].request \in DOMAIN requests
  BY DEF ExclusiveOK, CallsOK, i
<1>8. CallsOK'
  <2>1. ASSUME NEW b \in Calls \ {c} PROVE Receipt(b)' = Receipt(b) BY <1>3 DEF Receipt
  <2> QED
    BY <1>1, <1>2, <1>3, <1>4, <1>7, <2>1 DEF CallsOK, Holds, Plans, IsOpen, Holding
<1>9. ExclusiveOK' BY <1>2, <1>3, <1>7 DEF ExclusiveOK, Holds, Plans, Holding
<1>10. RoomOK'
  <2>1. c \notin Undecided' BY <1>2, <1>3 DEF Undecided
  <2> QED BY <1>3, <1>4, <2>1, RoomKept
<1>11. DecidersOK' /\ ToldIsStored' BY DEF DecidersOK, ToldIsStored, Elsewhere
<1>12. RequestIsBound'
  <2>1. \A j \in DOMAIN requests :
           requests'[j].asked = requests[j].asked /\ requests'[j].key = requests[j].key
    BY <1>4 DEF i
  <2> QED BY <1>4, <2>1 DEF RequestIsBound
<1>13. ClaimHasOwner'
  BY <1>3 DEF ClaimHasOwner, IsOpen, Elsewhere, Plans
<1> QED BY <1>5, <1>6, <1>8, <1>9, <1>10, <1>11, <1>12, <1>13

\* What a thread that plans a row does to it.
Writes(c) == MarkRunning(c) \/ RecordFailure(c) \/ \E result \in Results : RecordSuccess(c, result)

LEMMA WritesFollow ==
    ASSUME IngressInv, NEW c \in Calls, Writes(c)
    PROVE  /\ host = "up" /\ Plans(c) /\ calls[c].request \in DOMAIN requests
           /\ requests[calls[c].request].status \notin Finished
           /\ \E row \in Requests, at \in {"planning", "answering"} :
                /\ requests' = [requests EXCEPT ![calls[c].request] = row]
                /\ row.asked = requests[calls[c].request].asked
                /\ row.key = requests[calls[c].request].key
                /\ at = "planning" => row.status = "running"
                /\ Goto(c, at)
           /\ UNCHANGED <<receipts, Elsewhere>>
<1> DEFINE i == calls[c].request
           old == requests[i]
<1>1. /\ host = "up" /\ calls[c].at \in {"created", "planning"} /\ i \in DOMAIN requests
      /\ calls[c].at = "created" => old.status = "pending"
      /\ calls[c].at = "planning" => old.status = "running"
      /\ UNCHANGED <<receipts, Elsewhere>>
  BY DEF Writes, MarkRunning, RecordFailure, RecordSuccess, Elsewhere, IngressInv, CallsOK, Plans
<1>2. old \in Requests /\ requests \in Seq(Requests) BY <1>1 DEF IngressInv, TypeOK
<1>3. CASE MarkRunning(c)
  <2> DEFINE row == [old EXCEPT !.status = "running"]
  <2>1. row \in Requests /\ row.asked = old.asked /\ row.key = old.key /\ row.status = "running"
    BY <1>2 DEF Requests, Statuses
  <2>2. requests' = [requests EXCEPT ![i] = row] /\ Goto(c, "planning")
    BY <1>1, <1>2, <1>3 DEF MarkRunning
  <2> HIDE DEF row
  <2> QED BY <1>1, <2>1, <2>2 DEF Plans, Finished
<1>4. CASE RecordFailure(c)
  <2> DEFINE row == [old EXCEPT !.status = "failed"]
  <2>1. row \in Requests /\ row.asked = old.asked /\ row.key = old.key
    BY <1>2 DEF Requests, Statuses
  <2>2. requests' = [requests EXCEPT ![i] = row] /\ Goto(c, "answering")
    BY <1>1, <1>2, <1>4 DEF RecordFailure
  <2> HIDE DEF row
  <2> QED BY <1>1, <2>1, <2>2 DEF Plans, Finished
<1>5. ASSUME NEW result \in Results, RecordSuccess(c, result)
      PROVE  \E row \in Requests :
                /\ requests' = [requests EXCEPT ![i] = row] /\ Goto(c, "answering")
                /\ row.asked = old.asked /\ row.key = old.key
  <2> DEFINE row == [old EXCEPT !.status = "succeeded", !.action = result]
  <2>1. row \in Requests /\ row.asked = old.asked /\ row.key = old.key
    BY <1>2 DEF Requests, Statuses
  <2>2. requests' = [requests EXCEPT ![i] = row] /\ Goto(c, "answering")
    BY <1>1, <1>2, <1>5 DEF RecordSuccess
  <2> HIDE DEF row
  <2> QED BY <2>1, <2>2
<1> HIDE DEF i, old
<1>6. CASE \E result \in Results : RecordSuccess(c, result)
  BY <1>1, <1>5, <1>6 DEF Plans, Finished, i, old
<1> QED BY <1>3, <1>4, <1>6 DEF Writes, i, old

\* The planner's answer, or its failure, is recorded in the row of its thread.
LEMMA WritesPreserve == ASSUME IngressInv, NEW c \in Calls, Writes(c) PROVE IngressInv'
BY WritesFollow, RowPreserves
-----------------------------------------------------------------------------
(* Decisions, and what goes on around them.                                 *)

\* What no thread of a submit has to do with.
LEMMA OutsideKeeps ==
    ASSUME IngressInv, TypeOK', HostOK', DecidersOK', ToldIsStored',
           UNCHANGED <<receipts, requests, calls, host>>
    PROVE  IngressInv'
<1> USE DEF IngressInv
<1>1. CallsOK' /\ ExclusiveOK'
  BY DEF CallsOK, ExclusiveOK, Holds, Plans, IsOpen, Receipt
<1>2. Undecided' = Undecided BY DEF Undecided
<1>3. RoomOK' BY <1>2 DEF RoomOK
<1>4. RequestIsBound' /\ ClaimHasOwner' BY DEF RequestIsBound, ClaimHasOwner, IsOpen
<1> QED BY <1>1, <1>3, <1>4

\* A person looks at the gate and at a decision that is already there.
LEMMA LookPreserves ==
    ASSUME IngressInv, NEW h \in Deciders, NEW i \in Ids,
           NEW a \in {"answer", "approve", "reject"}, Look(h, i, a)
    PROVE  IngressInv'
<1> USE DEF IngressInv, Look
<1> DEFINE r == [at |-> CASE authority[i] = None -> "looked"
                          [] authority[i] = a -> "stands"
                          [] OTHER -> "conflict",
                 request |-> i, action |-> a]
<1>1. a # None BY NoneIsNothing
<1>2. /\ r \in DeciderRecords /\ r.request = i /\ r.action = a
      /\ r.at = "stands" => authority[i] = a
      /\ r.at = "conflict" => authority[i] \notin {None, a}
  BY <1>1 DEF DeciderRecords
<1>3. deciders' = [deciders EXCEPT ![h] = r] /\ host = "up" OBVIOUS
<1> HIDE DEF r
<1>4. deciders'[h] = r /\ \A g \in Deciders \ {h} : deciders'[g] = deciders[g]
  BY <1>3 DEF TypeOK
<1>5. TypeOK' BY <1>2, <1>3 DEF TypeOK
<1>6. HostOK' BY <1>3 DEF HostOK
<1>7. DecidersOK' BY <1>1, <1>2, <1>4 DEF DecidersOK
<1>8. ToldIsStored' BY <1>2, <1>4 DEF ToldIsStored
<1> QED BY <1>5, <1>6, <1>7, <1>8, OutsideKeeps

\* Of two decisions the first is stored, and both are told which one it is.
LEMMA DecidePreserves ==
    ASSUME IngressInv, NEW h \in Deciders, Decide(h)
    PROVE  IngressInv'
<1> USE DEF IngressInv
<1> DEFINE i == deciders[h].request
           a == deciders[h].action
           r == [deciders[h] EXCEPT !.at = IF authority'[i] = a THEN "stands" ELSE "conflict"]
<1>1. /\ i \in Ids /\ a # None /\ a \in {"answer", "approve", "reject"} /\ host = "up"
      /\ deciders[h] \in DeciderRecords /\ deciders[h].at = "looked"
  BY DEF Decide, DecidersOK, TypeOK, DeciderRecords
<1>2. /\ authority' = [authority EXCEPT ![i] = IF @ = None THEN a ELSE @]
      /\ deciders' = [deciders EXCEPT ![h] = r]
      /\ UNCHANGED <<receipts, requests, calls, host, carried, active, switches, crashes>>
  BY DEF Decide
<1>3. /\ authority'[i] # None
      /\ \A j \in Ids : authority[j] # None => authority'[j] = authority[j]
  BY <1>1, <1>2 DEF TypeOK
<1>4. /\ r \in DeciderRecords /\ r.request = i /\ r.action = a
      /\ r.at = "stands" => authority'[i] = a
      /\ r.at = "conflict" => authority'[i] # a
      /\ r.at # "idle"
  BY <1>1 DEF DeciderRecords
<1> HIDE DEF i, a, r
<1>5. deciders'[h] = r /\ \A g \in Deciders \ {h} : deciders'[g] = deciders[g]
  BY <1>2 DEF TypeOK
<1>6. TypeOK' BY <1>1, <1>2, <1>4 DEF TypeOK
<1>7. HostOK' BY <1>1, <1>2 DEF HostOK
<1>8. DecidersOK' BY <1>1, <1>4, <1>5 DEF DecidersOK
<1>9. ToldIsStored'
  <2>1. ASSUME NEW g \in Deciders \ {h}, deciders[g].at \in {"stands", "conflict"}
        PROVE  authority'[deciders[g].request] = authority[deciders[g].request]
    <3>1. deciders[g].request \in Ids /\ deciders[g].action # None
      BY <2>1 DEF DecidersOK
    <3>2. authority[deciders[g].request] # None BY <2>1, <3>1 DEF ToldIsStored
    <3> QED BY <1>3, <3>1, <3>2
  <2> QED BY <1>3, <1>4, <1>5, <2>1 DEF ToldIsStored
<1> QED BY <1>2, <1>6, <1>7, <1>8, <1>9, OutsideKeeps

\* Work goes on further down, or another workspace is activated.
LEMMA OutsidePreserves ==
    ASSUME IngressInv,
           \/ \E i \in Ids, state \in {"working", "settled"} : Carry(i, state)
           \/ \E p \in Projects : SwitchWorkspace(p)
    PROVE  IngressInv'
<1> USE DEF IngressInv
<1>1. UNCHANGED <<receipts, requests, authority, calls, deciders, host, crashes>>
  BY DEF Carry, SwitchWorkspace
<1>2. TypeOK'
  <2>1. CASE \E i \in Ids, state \in {"working", "settled"} : Carry(i, state)
    BY <2>1 DEF Carry, TypeOK
  <2>2. CASE \E p \in Projects : SwitchWorkspace(p)
    BY <2>2, BoundsAssumption DEF SwitchWorkspace, TypeOK
  <2> QED BY <2>1, <2>2
<1>3. HostOK' /\ DecidersOK' /\ ToldIsStored' BY <1>1 DEF HostOK, DecidersOK, ToldIsStored
<1> QED BY <1>1, <1>2, <1>3, OutsideKeeps
-----------------------------------------------------------------------------
(* The daemon ends and starts again.                                        *)

\* While nobody is inside a submit or a decision, only the tables can disagree.
LEMMA QuietPreserves ==
    ASSUME IngressInv, TypeOK', RequestIsBound', ClaimHasOwner',
           Len(requests') = Len(requests),
           \A c \in Calls : calls'[c] = IdleCall,
           \A h \in Deciders : deciders'[h] = IdleDecider
    PROVE  IngressInv'
<1> USE DEF IngressInv
<1>1. IdleCall.at = "idle" /\ IdleDecider.at = "idle" BY DEF IdleCall, IdleDecider
<1>2. HostOK' BY DEF HostOK
<1>3. CallsOK' /\ ExclusiveOK' BY <1>1 DEF CallsOK, ExclusiveOK, Holds, Plans, Holding
<1>4. RoomOK'
  <2>1. Undecided' = {} BY <1>1 DEF Undecided
  <2>2. Len(requests) \in Nat /\ Len(requests) <= MaxRequests BY DEF TypeOK
  <2> QED BY <2>1, <2>2, FS_EmptySet, BoundsAssumption DEF RoomOK
<1>5. DecidersOK' /\ ToldIsStored' BY <1>1 DEF DecidersOK, ToldIsStored
<1> QED BY <1>2, <1>3, <1>4, <1>5

\* A death takes the threads and leaves the tables.
LEMMA CrashPreserves == IngressInv /\ Crash => IngressInv'
<1> SUFFICES ASSUME IngressInv, Crash PROVE IngressInv'
  OBVIOUS
<1>1. IdleCall \in CallRecords /\ IdleDecider \in DeciderRecords
  BY DEF IdleCall, CallRecords, IdleDecider, DeciderRecords
<1>2. TypeOK' BY <1>1, BoundsAssumption DEF IngressInv, TypeOK, Crash
<1>3. /\ \A c \in Calls : calls'[c] = IdleCall
      /\ \A h \in Deciders : deciders'[h] = IdleDecider
      /\ requests' = requests /\ receipts' = receipts /\ host' = "down"
  BY DEF Crash
<1>4. RequestIsBound' /\ ClaimHasOwner' BY <1>3 DEF IngressInv, RequestIsBound, ClaimHasOwner
<1> QED BY <1>2, <1>3, <1>4, QuietPreserves

\* The boot interrupts what was not finished, and keeps whose it is.
LEMMA InterruptedRows ==
    ASSUME IngressInv, MarkInterrupted
    PROVE  /\ requests' \in Seq(Requests) /\ Len(requests') = Len(requests)
           /\ DOMAIN requests' = DOMAIN requests
           /\ \A i \in DOMAIN requests :
                /\ requests'[i].asked = requests[i].asked
                /\ requests'[i].key = requests[i].key
                /\ requests[i].status \in Finished => requests'[i] = requests[i]
<1>1. /\ requests \in Seq(Requests) /\ Len(requests) \in Nat
      /\ DOMAIN requests = 1 .. Len(requests)
      /\ \A i \in DOMAIN requests : requests[i] \in Requests
  BY DEF IngressInv, TypeOK
<1> DEFINE row(i) == IF requests[i].status \in {"pending", "running"}
                     THEN [requests[i] EXCEPT !.status = "interrupted"]
                     ELSE requests[i]
<1>2. ASSUME NEW i \in DOMAIN requests
      PROVE  /\ row(i) \in Requests /\ row(i).asked = requests[i].asked
             /\ row(i).key = requests[i].key
             /\ requests[i].status \in Finished => row(i) = requests[i]
  BY <1>1 DEF Requests, Statuses, Finished
<1>3. requests' = [i \in DOMAIN requests |-> row(i)] BY DEF MarkInterrupted
<1> HIDE DEF row
<1>4. /\ requests' \in [1 .. Len(requests) -> Requests]
      /\ DOMAIN requests' = DOMAIN requests
      /\ \A i \in DOMAIN requests : requests'[i] = row(i)
  BY <1>1, <1>2, <1>3
<1>5. requests' \in Seq(Requests) /\ Len(requests') = Len(requests)
  BY <1>1, <1>4
<1> QED BY <1>2, <1>4, <1>5

\* The boot settles invocations, then claims, before anything is served.
LEMMA BootPreserves == IngressInv /\ Boot => IngressInv'
<1> SUFFICES ASSUME IngressInv, Boot PROVE IngressInv'
  OBVIOUS
<1>1. /\ host # "up" /\ UNCHANGED <<authority, carried, active, calls, deciders, switches, crashes>>
      /\ \A c \in Calls : calls'[c] = IdleCall
      /\ \A h \in Deciders : deciders'[h] = IdleDecider
  BY DEF Boot, MarkInterrupted, AbandonOpenIngress, IngressInv, HostOK
<1>2. CASE MarkInterrupted
  <2>1. /\ requests' \in Seq(Requests) /\ Len(requests') = Len(requests)
        /\ DOMAIN requests' = DOMAIN requests /\ receipts' = receipts /\ host' = "marked"
        /\ \A i \in DOMAIN requests :
              requests'[i].asked = requests[i].asked /\ requests'[i].key = requests[i].key
    BY <1>2, InterruptedRows DEF MarkInterrupted
  <2>2. TypeOK' BY <1>1, <2>1 DEF IngressInv, TypeOK
  <2>3. RequestIsBound' /\ ClaimHasOwner'
    BY <2>1 DEF IngressInv, RequestIsBound, ClaimHasOwner
  <2> QED BY <1>1, <2>1, <2>2, <2>3, QuietPreserves
<1>3. CASE AbandonOpenIngress
  <2> DEFINE after(r) == IF IsOpen(r) THEN [r EXCEPT !.abandoned = TRUE] ELSE r
  <2>1. ASSUME NEW r \in Receipts \cup {None}
        PROVE  /\ after(r) \in Receipts \cup {None} /\ ~ IsOpen(after(r))
               /\ r = None \/ IsOpen(r) \/ after(r) = r
               /\ ~ IsOpen(r) => after(r) = r
    BY <2>1, NoneIsNothing DEF IsOpen, Receipts
  <2>2. /\ \A p \in Projects, k \in Keys : receipts'[p][k] = after(receipts[p][k])
        /\ receipts' = [p \in Projects |-> [k \in Keys |-> after(receipts[p][k])]]
        /\ requests' = requests /\ host' = "up"
    BY <1>3 DEF AbandonOpenIngress
  <2> HIDE DEF after
  <2>3. \A p \in Projects, k \in Keys : receipts[p][k] \in Receipts \cup {None}
    BY DEF IngressInv, TypeOK
  <2>4. TypeOK' BY <1>1, <2>1, <2>2, <2>3 DEF IngressInv, TypeOK
  <2>5. ClaimHasOwner' BY <2>1, <2>2, <2>3 DEF ClaimHasOwner
  <2>6. RequestIsBound'
    <3>1. ASSUME NEW i \in DOMAIN requests
          PROVE  receipts'[requests[i].asked][requests[i].key]
                   = receipts[requests[i].asked][requests[i].key]
      <4>1. requests[i] \in Requests BY DEF IngressInv, TypeOK
      <4>2. requests[i].asked \in Projects /\ requests[i].key \in Keys
        BY <4>1 DEF Requests
      <4>3. ~ IsOpen(receipts[requests[i].asked][requests[i].key])
        <5>1. i # None BY NoneIsNothing DEF IngressInv, TypeOK
        <5> QED BY <5>1 DEF IngressInv, RequestIsBound, IsOpen
      <4> QED BY <2>1, <2>2, <2>3, <4>2, <4>3
    <3> QED BY <2>2, <3>1 DEF IngressInv, RequestIsBound
  <2> QED BY <1>1, <2>2, <2>4, <2>5, <2>6, QuietPreserves
<1> QED BY <1>2, <1>3 DEF Boot
-----------------------------------------------------------------------------
(* The theorems.                                                            *)

\* At first nothing was asked.
LEMMA InitEstablishes == Init => IngressInv
<1> SUFFICES ASSUME Init PROVE IngressInv
  OBVIOUS
<1> USE BoundsAssumption, NoneIsNothing DEF Init
<1>1. /\ IdleCall \in CallRecords /\ IdleCall.at = "idle"
      /\ IdleDecider \in DeciderRecords /\ IdleDecider.at = "idle"
  BY DEF IdleCall, CallRecords, IdleDecider, DeciderRecords
<1>2. Len(requests) = 0 /\ requests \in Seq(Requests) /\ DOMAIN requests = {}
  OBVIOUS
<1>3. TypeOK BY <1>1, <1>2 DEF TypeOK
<1>4. HostOK /\ CallsOK /\ ExclusiveOK
  BY <1>1 DEF HostOK, CallsOK, ExclusiveOK, Holds, Plans, Holding
<1>5. Undecided = {} BY <1>1 DEF Undecided
<1>6. RoomOK BY <1>2, <1>5, FS_EmptySet DEF RoomOK
<1>7. DecidersOK /\ ToldIsStored BY <1>1 DEF DecidersOK, ToldIsStored
<1>8. RequestIsBound /\ ClaimHasOwner
  BY <1>2 DEF RequestIsBound, ClaimHasOwner, IsOpen
<1> QED BY <1>3, <1>4, <1>6, <1>7, <1>8 DEF IngressInv

\* Every step.
LEMMA StepPreserves == IngressInv /\ [Next]_vars => IngressInv'
<1> SUFFICES ASSUME IngressInv, [Next]_vars PROVE IngressInv'
  OBVIOUS
<1>1. CASE \E c \in Calls, p \in Projects, k \in Keys, d \in Digests : Claim(c, p, k, d)
  BY <1>1, ClaimPreserves
<1>2. CASE \E c \in Calls, p \in Projects, k \in Keys, d \in Digests : Replay(c, p, k, d)
  BY <1>2, ReadsPreserve
<1>3. CASE \E c \in Calls : CallStep(c)
  BY <1>3, ReadsPreserve, ReleasePreserves, CreatePreserves, WritesPreserve
     DEF CallStep, Writes
<1>4. CASE \E h \in Deciders, i \in Ids, a \in {"answer", "approve", "reject"} :
              Look(h, i, a)
  BY <1>4, LookPreserves
<1>5. CASE \E h \in Deciders : Decide(h) BY <1>5, DecidePreserves
<1>6. CASE \/ \E i \in Ids, state \in {"working", "settled"} : Carry(i, state)
           \/ \E p \in Projects : SwitchWorkspace(p)
  BY <1>6, OutsidePreserves
<1>7. CASE Crash BY <1>7, CrashPreserves
<1>8. CASE Boot BY <1>8, BootPreserves
<1>9. CASE UNCHANGED vars
  <2> USE <1>9 DEF vars, IngressInv
  <2>1. TypeOK' /\ HostOK' BY DEF TypeOK, HostOK
  <2>2. CallsOK' /\ ExclusiveOK' BY DEF CallsOK, ExclusiveOK, Holds, Plans, Receipt, IsOpen
  <2>3. RoomOK' BY DEF RoomOK, Undecided
  <2>4. DecidersOK' /\ ToldIsStored' BY DEF DecidersOK, ToldIsStored
  <2>5. RequestIsBound' /\ ClaimHasOwner'
    BY DEF RequestIsBound, ClaimHasOwner, Holds, Receipt, IsOpen
  <2> QED BY <2>1, <2>2, <2>3, <2>4, <2>5
<1> QED BY <1>1, <1>2, <1>3, <1>4, <1>5, <1>6, <1>7, <1>8, <1>9 DEF Next

\* Receipts, rows, threads and decisions agree in every reachable state: a claim
\* is held by one thread until it is bound or given back, and a row is written by
\* the thread that plans it (claim_ingress, create_request, record_success).
THEOREM IngressInvariant == Spec => []IngressInv
<1> QED BY InitEstablishes, StepPreserves, PTL DEF Spec

\* A key plans once, however often it is sent, refused or cut short by a crash,
\* and no claim is left with nobody (claim_ingress, release_ingress, boot).
THEOREM ClaimsStaySound == Spec => []ClaimsAreSound
<1>1. IngressInv => ClaimsAreSound BY DEF IngressInv, ClaimsAreSound
<1> QED BY <1>1, IngressInvariant, PTL

\* No step rewrites an invocation that is finished.
LEMMA FinishedKept == IngressInv /\ [Next]_vars => FinishedStands
<1> SUFFICES ASSUME IngressInv, [Next]_vars, NEW n \in DOMAIN requests,
                    requests[n].status \in Finished
             PROVE  requests'[n] = requests[n]
  BY DEF FinishedStands
<1>1. requests \in Seq(Requests) BY DEF IngressInv, TypeOK
<1>2. CASE UNCHANGED requests BY <1>2
<1>3. ASSUME NEW c \in Calls, CreateRequest(c) PROVE requests'[n] = requests[n]
  <2>1. \/ UNCHANGED requests
        \/ \E row : requests' = Append(requests, row)
    BY <1>3 DEF CreateRequest
  <2> QED BY <1>1, <2>1
<1>4. ASSUME NEW c \in Calls, Writes(c) PROVE requests'[n] = requests[n]
  BY <1>1, <1>4, WritesFollow
<1>5. CASE MarkInterrupted BY <1>5, InterruptedRows
<1>6. \/ UNCHANGED requests \/ MarkInterrupted
      \/ \E c \in Calls : CreateRequest(c) \/ Writes(c)
  <2>1. CASE \E c \in Calls : CallStep(c)
    BY <2>1 DEF CallStep, CheckSettled, RefuseContext, Release, BuildContext, Answer, Writes
  <2>2. CASE \E c \in Calls, p \in Projects, k \in Keys, d \in Digests :
                Claim(c, p, k, d) \/ Replay(c, p, k, d)
    BY <2>2 DEF Claim, Replay
  <2>3. CASE \/ \E h \in Deciders, i \in Ids, a \in {"answer", "approve", "reject"} :
                   Look(h, i, a)
             \/ \E h \in Deciders : Decide(h)
    BY <2>3 DEF Look, Decide
  <2>4. CASE \/ \E i \in Ids, s \in {"working", "settled"} : Carry(i, s)
             \/ \E p \in Projects : SwitchWorkspace(p)
    BY <2>4 DEF Carry, SwitchWorkspace
  <2>5. CASE Crash \/ Boot BY <2>5 DEF Crash, Boot, AbandonOpenIngress
  <2>6. CASE UNCHANGED vars BY <2>6 DEF vars
  <2> QED BY <2>1, <2>2, <2>3, <2>4, <2>5, <2>6 DEF Next
<1> QED BY <1>2, <1>3, <1>4, <1>5, <1>6

\* Whoever decides is told what is stored, and neither a decision nor what an
\* invocation came to is rewritten (record_authority_event, record_success,
\* mark_interrupted).
THEOREM DecisionsAreKept == Spec => DecisionsStand
<1>1. IngressInv /\ [Next]_vars => ToldIsStored' /\ FinishedStands
  BY StepPreserves, FinishedKept DEF IngressInv
<1>2. IngressInv /\ [Next]_vars => [ToldIsStored' /\ FinishedStands]_vars
  BY <1>1
<1> QED BY <1>2, IngressInvariant, PTL DEF Spec, DecisionsStand
=============================================================================
