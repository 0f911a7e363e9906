-------------------------- MODULE EosioMsigProofs ---------------------------
(***************************************************************************)
(* Proofs about EosioMsig for any accounts, levels, transactions, quorums  *)
(* and lists of requested levels.  Inv is enough for what becomes of the   *)
(* proposals; that only standing approvals are counted also needs that no  *)
(* list of requested levels names a level twice, which propose does not    *)
(* check: the theorems that need it say so.                                *)
(***************************************************************************)
EXTENDS EosioMsig, SequenceTheorems, TLAPS

(* A proposal and its row of approvals come and go together. *)
RowsMatch ==
  \A k \in Keys : /\ (prop[k] = None <=> table[k] = None)
                  /\ (prop[k] = None => provided[k] = NoApprovals)

(* No approval is from the future. *)
ApprovalsInTime ==
  \A k \in Keys, l \in Levels : \A i \in DOMAIN provided[k][l] : provided[k][l][i].time <= now

(* The proposals in the table are numbered differently, and the next number is new. *)
IdsAreNew ==
  /\ \A k \in Keys : prop[k] # None => prop[k].id <= proposed
  /\ \A j, k \in Keys : prop[j] # None /\ prop[k] # None /\ prop[j].id = prop[k].id => j = k
  /\ \A i \in Ids : i > proposed => sent[i] = 0

Inv ==
  /\ TypeOK
  /\ RowsMatch
  /\ ApprovalsInTime
  /\ HashPinsTransaction
  /\ IdsAreNew
  /\ SentOnce

-----------------------------------------------------------------------------
(* The entries of a longer queue are the old ones and the new one. *)
LEMMA AppendedEntries ==
  ASSUME NEW s \in Seq(Approval), NEW e \in Approval
  PROVE  /\ Append(s, e) \in Seq(Approval) /\ Len(Append(s, e)) = Len(s) + 1
         /\ \A i \in DOMAIN Append(s, e) :
              Append(s, e)[i] = e \/ \E j \in DOMAIN s : Append(s, e)[i] = s[j]
OBVIOUS

(* The entries of a shorter queue are old ones. *)
LEMMA RemainingEntries ==
  ASSUME NEW s \in Seq(Approval), s # <<>>
  PROVE  /\ Tail(s) \in Seq(Approval) /\ Len(Tail(s)) = Len(s) - 1
         /\ \A i \in DOMAIN Tail(s) : \E j \in DOMAIN s : Tail(s)[i] = s[j]
<1>1. /\ Tail(s) \in Seq(Approval) /\ Len(Tail(s)) = Len(s) - 1
      /\ \A i \in 1 .. Len(Tail(s)) : Tail(s)[i] = s[i + 1]
  BY HeadTailProperties
<1>2. Len(s) \in Nat /\ DOMAIN s = 1 .. Len(s) /\ DOMAIN Tail(s) = 1 .. Len(Tail(s))
  BY <1>1, LenProperties
<1>3. ASSUME NEW i \in DOMAIN Tail(s)
      PROVE  \E j \in DOMAIN s : Tail(s)[i] = s[j]
  <2>1. i + 1 \in DOMAIN s /\ Tail(s)[i] = s[i + 1]
    BY <1>1, <1>2
  <2> QED BY <2>1
<1> QED BY <1>1, <1>3

(* An empty row has no entries. *)
LEMMA NoEntries ==
  ASSUME NEW l \in Levels
  PROVE  NoApprovals[l] = <<>> /\ DOMAIN NoApprovals[l] = {}
BY DEF NoApprovals

-----------------------------------------------------------------------------
(* There are no proposals, approvals or deferred transactions at first. *)
LEMMA InitInv == Init => Inv
<1> SUFFICES ASSUME Init PROVE Inv
  OBVIOUS
<1>1. PICK old \in {{}} \cup {{k} : k \in Keys}, t \in Trxs, r \in Requests :
        /\ Authorizes({l \in Levels : r[l] > 0}, t)
        /\ prop = [k \in Keys |-> IF k \in old THEN [trx |-> t, id |-> 0] ELSE None]
        /\ table = [k \in Keys |-> IF k \in old THEN "old_approvals" ELSE None]
        /\ requested = [k \in Keys |-> IF k \in old THEN r ELSE NoRequest]
  BY Zenon DEF Init
<1> USE AccountsAssumption, TrxAssumption, NoneAssumption, RequestsAssumption, BoundsAssumption
<1>2. /\ now = 0 /\ provided = [k \in Keys |-> NoApprovals] /\ invals = [a \in Accounts |-> -1]
      /\ deferred = [k \in Keys |-> None] /\ signer \in Accounts /\ proposed = 0
      /\ standing = [k \in Keys |-> {}] /\ sent = [i \in Ids |-> 0]
  BY DEF Init
<1>3. [trx |-> t, id |-> 0] \in Proposal
  BY DEF Proposal, Ids
<1>4. NoApprovals \in [Levels -> Seq(Approval)] /\ NoRequest \in [Levels -> Nat]
  BY DEF NoApprovals, NoRequest
<1>5. TypeOK
  BY <1>1, <1>2, <1>3, <1>4 DEF TypeOK, Times, Ids
<1>6. RowsMatch
  BY <1>1, <1>2, <1>3 DEF RowsMatch
<1>7. ApprovalsInTime /\ HashPinsTransaction
  BY <1>2, NoEntries DEF ApprovalsInTime, HashPinsTransaction
<1>8. IdsAreNew
  <2>1. \A j, k \in Keys : prop[j] # None /\ prop[k] # None => j = k
    BY <1>1
  <2>2. \A k \in Keys : prop[k] # None => prop[k].id = 0
    BY <1>1
  <2> QED BY <1>2, <2>1, <2>2 DEF IdsAreNew, Ids
<1>9. SentOnce
  <2>1. \A k \in Keys : prop[k] # None => prop[k].id \in Ids
    BY <1>5 DEF TypeOK, Proposal
  <2> QED BY <1>2, <2>1 DEF SentOnce
<1> QED BY <1>5, <1>6, <1>7, <1>8, <1>9 DEF Inv

(* propose takes a new number and starts with an empty row. *)
LEMMA ProposeInv ==
  ASSUME Inv, NEW k \in Keys, NEW r \in Requests, NEW t \in Trxs, propose(k, r, t)
  PROVE  Inv'
<1> DEFINE p == [trx |-> t, id |-> proposed + 1]
<1>1. /\ TypeOK /\ RowsMatch /\ ApprovalsInTime /\ HashPinsTransaction /\ IdsAreNew /\ SentOnce
      /\ proposed \in Nat /\ proposed < MaxProposals
  BY DEF Inv, TypeOK, Ids, propose
<1>2. p \in Proposal /\ p # None /\ p.id = proposed + 1 /\ p.id \in Ids
  BY <1>1, NoneAssumption, BoundsAssumption DEF Proposal, Ids
<1>3. /\ prop' = [prop EXCEPT ![k] = p] /\ table' = [table EXCEPT ![k] = "approvals2"]
      /\ requested' = [requested EXCEPT ![k] = r] /\ provided' = [provided EXCEPT ![k] = NoApprovals]
      /\ proposed' = proposed + 1 /\ standing' = [standing EXCEPT ![k] = {}]
      /\ signer' = Proposer(k) /\ UNCHANGED <<now, invals, deferred, sent>>
  BY DEF propose
<1> HIDE DEF p
<1>4. TypeOK'
  <2>1. NoApprovals \in [Levels -> Seq(Approval)] /\ r \in [Levels -> Nat]
    BY RequestsAssumption DEF NoApprovals
  <2>2. Proposer(k) \in Accounts
    BY AccountsAssumption DEF Proposer, Keys
  <2>3. proposed + 1 \in Ids
    BY <1>1, BoundsAssumption DEF Ids
  <2> QED BY <1>1, <1>2, <1>3, <2>1, <2>2, <2>3 DEF TypeOK
<1>5. /\ prop'[k] = p /\ table'[k] = "approvals2" /\ provided'[k] = NoApprovals
      /\ \A j \in Keys \ {k} : prop'[j] = prop[j] /\ table'[j] = table[j] /\ provided'[j] = provided[j]
  BY <1>1, <1>3 DEF TypeOK
<1>6. RowsMatch'
  BY <1>1, <1>2, <1>5, NoneAssumption DEF RowsMatch
<1>7. ApprovalsInTime' /\ HashPinsTransaction'
  <2> SUFFICES ASSUME NEW j \in Keys, NEW l \in Levels, NEW i \in DOMAIN provided'[j][l]
               PROVE  /\ provided'[j][l][i].time <= now'
                      /\ prop'[j] # None /\ provided'[j][l][i].hash \in {None, prop'[j].trx}
    BY DEF ApprovalsInTime, HashPinsTransaction
  <2>1. j # k
    BY <1>5, NoEntries
  <2> QED BY <1>1, <1>3, <1>5, <2>1 DEF ApprovalsInTime, HashPinsTransaction
<1>8. sent[proposed + 1] = 0
  BY <1>1, <1>2 DEF IdsAreNew
<1>9. IdsAreNew'
  <2>1. \A j \in Keys : prop[j] # None => prop[j].id <= proposed /\ prop[j].id \in Nat
    BY <1>1 DEF IdsAreNew, TypeOK, Proposal, Ids
  <2>2. \A j \in Keys : prop'[j] # None => prop'[j].id <= proposed'
    BY <1>1, <1>2, <1>3, <1>5, <2>1
  <2>3. ASSUME NEW i \in Keys, NEW j \in Keys, prop'[i] # None, prop'[j] # None,
               prop'[i].id = prop'[j].id
        PROVE  i = j
    <3>1. CASE i # k /\ j # k
      BY <1>1, <1>5, <2>3, <3>1 DEF IdsAreNew
    <3>2. CASE i = k /\ j # k
      BY <1>1, <1>2, <1>5, <2>1, <2>3, <3>2
    <3>3. CASE i # k /\ j = k
      BY <1>1, <1>2, <1>5, <2>1, <2>3, <3>3
    <3> QED BY <3>1, <3>2, <3>3
  <2>4. \A i \in Ids : i > proposed' => sent'[i] = 0
    BY <1>1, <1>3 DEF IdsAreNew, Ids
  <2> QED BY <2>2, <2>3, <2>4 DEF IdsAreNew
<1>10. SentOnce'
  BY <1>1, <1>2, <1>3, <1>5, <1>8 DEF SentOnce
<1> QED BY <1>4, <1>6, <1>7, <1>9, <1>10 DEF Inv

(* A new approval has the hash of this proposal's transaction, or none. *)
LEMMA ApproveInv ==
  ASSUME Inv, NEW k \in Keys, NEW l \in Levels, NEW h \in Trxs \cup {None}, approve(k, l, h)
  PROVE  Inv'
<1> DEFINE e == [time |-> now, hash |-> h]
           s == provided[k][l]
<1>1. /\ TypeOK /\ RowsMatch /\ ApprovalsInTime /\ HashPinsTransaction /\ IdsAreNew /\ SentOnce
      /\ now \in Nat /\ e \in Approval /\ s \in Seq(Approval)
  <2>1. now \in Times /\ s \in Seq(Approval)
    BY DEF Inv, TypeOK
  <2>2. now \in Nat
    BY <2>1, BoundsAssumption DEF Times
  <2>3. e \in Approval
    BY <2>1 DEF Approval
  <2> QED BY <2>1, <2>2, <2>3 DEF Inv
<1>2. prop[k] # None /\ h \in {None, prop[k].trx}
  BY <1>1 DEF approve, HashMatches, RowsMatch
<1>3. /\ provided' = [provided EXCEPT ![k][l] = Append(s, e)]
      /\ requested' = [requested EXCEPT ![k][l] = requested[k][l] - 1]
      /\ requested[k][l] > 0
      /\ standing' = [standing EXCEPT ![k] = standing[k] \cup {l}] /\ signer' = Actor[l]
      /\ UNCHANGED <<now, prop, table, invals, deferred, proposed, sent>>
  BY DEF approve, IsRequested
<1>4. /\ Append(s, e) \in Seq(Approval)
      /\ \A i \in DOMAIN Append(s, e) : Append(s, e)[i] = e \/ \E j \in DOMAIN s : Append(s, e)[i] = s[j]
  <2> HIDE DEF s, e
  <2> QED BY <1>1, AppendedEntries
<1>5. /\ provided'[k][l] = Append(s, e)
      /\ \A j \in Keys, m \in Levels : j # k \/ m # l => provided'[j][m] = provided[j][m]
  BY <1>1, <1>3 DEF TypeOK
<1>6. TypeOK'
  <2>1. provided' \in [Keys -> [Levels -> Seq(Approval)]]
    <3> HIDE DEF s, e
    <3> QED BY <1>1, <1>3, <1>4 DEF TypeOK
  <2>2. requested' \in [Keys -> [Levels -> Nat]]
    <3>1. requested \in [Keys -> [Levels -> Nat]] /\ requested[k][l] - 1 \in Nat
      BY <1>1, <1>3 DEF TypeOK
    <3> QED BY <1>3, <3>1
  <2>3. standing' \in [Keys -> SUBSET Levels] /\ signer' \in Accounts
    BY <1>1, <1>3, AccountsAssumption DEF TypeOK
  <2> QED BY <1>1, <1>3, <2>1, <2>2, <2>3 DEF TypeOK
<1>7. RowsMatch'
  <2>1. \A j \in Keys \ {k} : provided'[j] = provided[j]
    BY <1>1, <1>3 DEF TypeOK
  <2> QED BY <1>1, <1>2, <1>3, <2>1 DEF RowsMatch
<1>8. ApprovalsInTime' /\ HashPinsTransaction'
  <2> SUFFICES ASSUME NEW j \in Keys, NEW m \in Levels, NEW i \in DOMAIN provided'[j][m]
               PROVE  /\ provided'[j][m][i].time <= now'
                      /\ prop'[j] # None /\ provided'[j][m][i].hash \in {None, prop'[j].trx}
    BY DEF ApprovalsInTime, HashPinsTransaction
  <2>1. CASE j # k \/ m # l
    BY <1>1, <1>3, <1>5, <2>1 DEF ApprovalsInTime, HashPinsTransaction
  <2>2. CASE j = k /\ m = l
    <3>1. CASE provided'[j][m][i] = e
      BY <1>1, <1>2, <1>3, <2>2, <3>1
    <3>2. CASE \E x \in DOMAIN s : provided'[j][m][i] = s[x]
      BY <1>1, <1>3, <2>2, <3>2 DEF ApprovalsInTime, HashPinsTransaction
    <3> HIDE DEF s, e
    <3> QED BY <1>4, <1>5, <2>2, <3>1, <3>2
  <2> QED BY <2>1, <2>2
<1>9. IdsAreNew' /\ SentOnce'
  BY <1>1, <1>3 DEF IdsAreNew, SentOnce
<1> QED BY <1>6, <1>7, <1>8, <1>9 DEF Inv

(* unapprove takes the oldest approval of the level away. *)
LEMMA UnapproveInv ==
  ASSUME Inv, NEW k \in Keys, NEW l \in Levels, unapprove(k, l)
  PROVE  Inv'
<1> DEFINE s == provided[k][l]
<1>1. /\ TypeOK /\ RowsMatch /\ ApprovalsInTime /\ HashPinsTransaction /\ IdsAreNew /\ SentOnce
      /\ s \in Seq(Approval) /\ s # <<>>
  BY DEF Inv, TypeOK, unapprove
<1>2. prop[k] # None
  BY <1>1 DEF unapprove, RowsMatch
<1>3. /\ provided' = [provided EXCEPT ![k][l] = Tail(s)]
      /\ requested' = [requested EXCEPT ![k][l] = requested[k][l] + 1]
      /\ standing' = [standing EXCEPT ![k] = standing[k] \ {l}] /\ signer' = Actor[l]
      /\ UNCHANGED <<now, prop, table, invals, deferred, proposed, sent>>
  BY DEF unapprove
<1>4. /\ Tail(s) \in Seq(Approval)
      /\ \A i \in DOMAIN Tail(s) : \E j \in DOMAIN s : Tail(s)[i] = s[j]
  <2> HIDE DEF s
  <2> QED BY <1>1, RemainingEntries
<1>5. /\ provided'[k][l] = Tail(s)
      /\ \A j \in Keys, m \in Levels : j # k \/ m # l => provided'[j][m] = provided[j][m]
  BY <1>1, <1>3 DEF TypeOK
<1>6. TypeOK'
  <2>1. provided' \in [Keys -> [Levels -> Seq(Approval)]]
    <3> HIDE DEF s
    <3> QED BY <1>1, <1>3, <1>4 DEF TypeOK
  <2>2. requested' \in [Keys -> [Levels -> Nat]]
    BY <1>1, <1>3 DEF TypeOK
  <2>3. standing' \in [Keys -> SUBSET Levels] /\ signer' \in Accounts
    BY <1>1, <1>3, AccountsAssumption DEF TypeOK
  <2> QED BY <1>1, <1>3, <2>1, <2>2, <2>3 DEF TypeOK
<1>7. RowsMatch'
  <2>1. \A j \in Keys \ {k} : provided'[j] = provided[j]
    BY <1>1, <1>3 DEF TypeOK
  <2> QED BY <1>1, <1>2, <1>3, <2>1 DEF RowsMatch
<1>8. ApprovalsInTime' /\ HashPinsTransaction'
  <2> SUFFICES ASSUME NEW j \in Keys, NEW m \in Levels, NEW i \in DOMAIN provided'[j][m]
               PROVE  /\ provided'[j][m][i].time <= now'
                      /\ prop'[j] # None /\ provided'[j][m][i].hash \in {None, prop'[j].trx}
    BY DEF ApprovalsInTime, HashPinsTransaction
  <2>1. CASE j # k \/ m # l
    BY <1>1, <1>3, <1>5, <2>1 DEF ApprovalsInTime, HashPinsTransaction
  <2>2. CASE j = k /\ m = l
    <3>1. \E x \in DOMAIN s : provided'[j][m][i] = s[x]
      <4> HIDE DEF s
      <4> QED BY <1>4, <1>5, <2>2
    <3> QED BY <1>1, <1>3, <2>2, <3>1 DEF ApprovalsInTime, HashPinsTransaction
  <2> QED BY <2>1, <2>2
<1>9. IdsAreNew' /\ SentOnce'
  BY <1>1, <1>3 DEF IdsAreNew, SentOnce
<1> QED BY <1>6, <1>7, <1>8, <1>9 DEF Inv

(* A proposal that is removed takes its row along; if it is sent, its number is
   that of no other proposal and was not sent before. *)
LEMMA RemoveInv ==
  ASSUME Inv, NEW k \in Keys, prop[k] # None, EraseProposal(k), EraseApprovals(k),
         signer' \in Accounts, deferred' \in [Keys -> Proposal \cup {None}],
         UNCHANGED <<now, invals, proposed>>,
         sent' = sent \/ sent' = [sent EXCEPT ![prop[k].id] = @ + 1]
  PROVE  Inv'
<1>1. /\ TypeOK /\ RowsMatch /\ ApprovalsInTime /\ HashPinsTransaction /\ IdsAreNew /\ SentOnce
      /\ prop[k] \in Proposal /\ prop[k].id \in Ids
  BY DEF Inv, TypeOK, Proposal
<1>2. /\ prop' = [prop EXCEPT ![k] = None] /\ table' = [table EXCEPT ![k] = None]
      /\ requested' = [requested EXCEPT ![k] = NoRequest]
      /\ provided' = [provided EXCEPT ![k] = NoApprovals]
      /\ standing' = [standing EXCEPT ![k] = {}]
  BY DEF EraseProposal, EraseApprovals
<1>3. /\ prop'[k] = None /\ table'[k] = None /\ provided'[k] = NoApprovals
      /\ \A j \in Keys \ {k} : prop'[j] = prop[j] /\ table'[j] = table[j] /\ provided'[j] = provided[j]
  BY <1>1, <1>2 DEF TypeOK
<1>4. /\ sent' \in [Ids -> Nat] /\ sent'[prop[k].id] <= 1
      /\ \A i \in Ids \ {prop[k].id} : sent'[i] = sent[i]
  <2>1. sent \in [Ids -> Nat] /\ sent[prop[k].id] = 0
    BY <1>1 DEF TypeOK, SentOnce
  <2> QED BY <1>1, <2>1
<1>5. TypeOK'
  <2>1. NoApprovals \in [Levels -> Seq(Approval)] /\ NoRequest \in [Levels -> Nat]
    BY DEF NoApprovals, NoRequest
  <2>2. prop' \in [Keys -> Proposal \cup {None}]
    BY <1>1, <1>2 DEF TypeOK
  <2> QED BY <1>1, <1>2, <1>4, <2>1, <2>2 DEF TypeOK
<1>6. RowsMatch'
  BY <1>1, <1>3 DEF RowsMatch
<1>7. ApprovalsInTime' /\ HashPinsTransaction'
  <2> SUFFICES ASSUME NEW j \in Keys, NEW l \in Levels, NEW i \in DOMAIN provided'[j][l]
               PROVE  /\ provided'[j][l][i].time <= now'
                      /\ prop'[j] # None /\ provided'[j][l][i].hash \in {None, prop'[j].trx}
    BY DEF ApprovalsInTime, HashPinsTransaction
  <2>1. j # k
    BY <1>3, NoEntries
  <2> QED BY <1>1, <1>3, <2>1 DEF ApprovalsInTime, HashPinsTransaction
<1>8. \A j \in Keys : prop'[j] # None => j # k /\ prop'[j].id \in Ids /\ prop'[j].id # prop[k].id
  BY <1>1, <1>3 DEF IdsAreNew, TypeOK, Proposal
<1>9. IdsAreNew'
  <2>1. \A i \in Ids : i > proposed' => sent'[i] = 0
    <3>1. prop[k].id <= proposed
      BY <1>1 DEF IdsAreNew
    <3>2. proposed \in Nat /\ Ids \subseteq Nat
      BY <1>1 DEF TypeOK, Ids
    <3> QED BY <1>1, <1>4, <3>1, <3>2 DEF IdsAreNew
  <2> QED BY <1>1, <1>3, <1>8, <2>1 DEF IdsAreNew
<1>10. SentOnce'
  <2>1. \A i \in Ids : sent'[i] <= 1
    BY <1>1, <1>4 DEF SentOnce
  <2>2. \A j \in Keys : prop'[j] # None => sent'[prop'[j].id] = 0
    BY <1>1, <1>3, <1>4, <1>8 DEF SentOnce
  <2> QED BY <2>1, <2>2 DEF SentOnce
<1> QED BY <1>5, <1>6, <1>7, <1>9, <1>10 DEF Inv

(* cancel removes without sending. *)
LEMMA CancelInv ==
  ASSUME Inv, NEW k \in Keys, NEW a \in Accounts, cancel(k, a)
  PROVE  Inv'
<1>1. deferred \in [Keys -> Proposal \cup {None}]
  BY DEF Inv, TypeOK
<1>2. /\ prop[k] # None /\ EraseProposal(k) /\ EraseApprovals(k) /\ signer' = a
      /\ UNCHANGED <<now, invals, deferred, proposed, sent>>
  BY DEF cancel
<1> QED BY <1>1, <1>2, RemoveInv

(* exec sends and removes. *)
LEMMA ExecInv ==
  ASSUME Inv, NEW k \in Keys, NEW a \in Accounts, exec(k, a)
  PROVE  Inv'
<1>1. deferred' \in [Keys -> Proposal \cup {None}]
  BY DEF Inv, TypeOK, exec
<1>2. /\ prop[k] # None /\ EraseProposal(k) /\ EraseApprovals(k) /\ signer' = a
      /\ sent' = [sent EXCEPT ![prop[k].id] = @ + 1] /\ UNCHANGED <<now, invals, proposed>>
  BY DEF exec
<1> QED BY <1>1, <1>2, RemoveInv

(* The steps that change no proposal and no approval. *)
LEMMA ElseInv ==
  ASSUME Inv, \/ Tick
              \/ \E a \in Accounts : invalidate(a)
              \/ \E k \in Keys : RunDeferred(k)
              \/ UNCHANGED vars
  PROVE  Inv'
<1>1. TypeOK /\ RowsMatch /\ ApprovalsInTime /\ HashPinsTransaction /\ IdsAreNew /\ SentOnce
  BY DEF Inv
<1>2. UNCHANGED <<prop, table, requested, provided, proposed, sent>>
  BY DEF Tick, invalidate, RunDeferred, vars
<1>3. now \in Nat /\ now' \in Times /\ now <= now' /\ now' \in Nat
  BY <1>1, BoundsAssumption DEF Tick, invalidate, RunDeferred, vars, TypeOK, Times
<1>4. TypeOK'
  <2>1. invals' \in [Accounts -> Times \cup {-1}] /\ signer' \in Accounts
    BY <1>1 DEF Tick, invalidate, RunDeferred, vars, TypeOK
  <2>2. deferred' \in [Keys -> Proposal \cup {None}]
    BY <1>1 DEF Tick, invalidate, RunDeferred, vars, TypeOK
  <2>3. standing' \in [Keys -> SUBSET Levels]
    BY <1>1 DEF Tick, invalidate, RunDeferred, vars, TypeOK
  <2> QED BY <1>1, <1>2, <1>3, <2>1, <2>2, <2>3 DEF TypeOK
<1>5. RowsMatch' /\ HashPinsTransaction' /\ IdsAreNew' /\ SentOnce'
  BY <1>1, <1>2 DEF RowsMatch, HashPinsTransaction, IdsAreNew, SentOnce
<1>6. ApprovalsInTime'
  <2> SUFFICES ASSUME NEW k \in Keys, NEW l \in Levels, NEW i \in DOMAIN provided[k][l]
               PROVE  provided[k][l][i].time <= now'
    BY <1>2 DEF ApprovalsInTime
  <2>1. provided[k][l] \in Seq(Approval)
    BY <1>1 DEF TypeOK
  <2>2. provided[k][l][i] \in Approval
    BY <2>1, LenProperties, ElementOfSeq
  <2>3. provided[k][l][i].time \in Nat /\ provided[k][l][i].time <= now
    BY <1>1, <2>2 DEF ApprovalsInTime, Approval, Times
  <2> QED BY <1>3, <2>3
<1> QED BY <1>4, <1>5, <1>6 DEF Inv

(* Every handler of eosio.msig.cpp, and the chain running a deferred
   transaction, keep the invariant. *)
LEMMA NextInv == Inv /\ [Next]_vars => Inv'
BY ProposeInv, ApproveInv, UnapproveInv, CancelInv, ExecInv, ElseInv DEF Next

(* The invariant is one of the specification. *)
THEOREM MsigInvariant == Spec => []Inv
BY InitInv, NextInv, PTL DEF Spec

(* No proposal is sent twice, and what is in the table was not sent. *)
THEOREM NeverSentTwice == Spec => []SentOnce
<1>1. Inv => SentOnce
  BY DEF Inv
<1> QED BY <1>1, MsigInvariant, PTL

(* Approvals given with a hash stay with the transaction of that hash. *)
THEOREM HashPins == Spec => []HashPinsTransaction
<1>1. Inv => HashPinsTransaction
  BY DEF Inv
<1> QED BY <1>1, MsigInvariant, PTL

(* The step that ends a proposal sends it, or is its proposer's cancel, or comes
   after its expiration and then does not send it. *)
THEOREM ProposalsEndProperly == Spec => EndsProperly
<1> DEFINE Step == \A k \in Keys : Ends(k) =>
              IF Expired(prop[k].trx) THEN ~Sends(k) ELSE Sends(k) \/ signer' = Proposer(k)
<1>1. Inv /\ [Next]_vars => [Step]_vars
  <2> SUFFICES ASSUME Inv, Next, NEW k \in Keys, Ends(k)
               PROVE  IF Expired(prop[k].trx) THEN ~Sends(k) ELSE Sends(k) \/ signer' = Proposer(k)
    OBVIOUS
  <2>1. /\ prop[k] # None /\ prop'[k] # prop[k] /\ prop \in [Keys -> Proposal \cup {None}]
        /\ prop[k].id \in Ids /\ sent \in [Ids -> Nat] /\ sent[prop[k].id] = 0
    BY DEF Ends, Inv, TypeOK, SentOnce, Proposal
  <2>2. PICK a \in Accounts : cancel(k, a) \/ exec(k, a)
    <3>1. UNCHANGED prop \/ \E j \in Keys : \/ \E r \in Requests, t \in Trxs : propose(j, r, t)
                                           \/ \E a \in Accounts : cancel(j, a) \/ exec(j, a)
      BY DEF Next, Tick, invalidate, RunDeferred, approve, unapprove
    <3>2. PICK j \in Keys : \/ \E r \in Requests, t \in Trxs : propose(j, r, t)
                            \/ \E a \in Accounts : cancel(j, a) \/ exec(j, a)
      BY <2>1, <3>1
    <3>3. j = k
      <4>1. \E p : prop' = [prop EXCEPT ![j] = p]
        BY <3>2 DEF propose, cancel, exec, EraseProposal
      <4> QED BY <2>1, <4>1
    <3> QED BY <2>1, <3>2, <3>3 DEF propose
  <2>3. CASE cancel(k, a)
    BY <2>3 DEF cancel, MayCancel, Sends
  <2>4. CASE exec(k, a)
    <3>1. ~Expired(prop[k].trx) /\ sent' = [sent EXCEPT ![prop[k].id] = @ + 1]
      BY <2>4 DEF exec
    <3>2. sent'[prop[k].id] = 1
      BY <2>1, <3>1
    <3> QED BY <2>1, <3>1, <3>2 DEF Sends
  <2> QED BY <2>2, <2>3, <2>4
<1>2. EndsProperly <=> [][Step]_vars
  BY DEF EndsProperly
<1> HIDE DEF Step
<1> QED BY <1>1, <1>2, MsigInvariant, PTL DEF Spec

-----------------------------------------------------------------------------
(* No list of requested levels names a level twice. *)
RequestedOnce == Requests \subseteq [Levels -> {0, 1}]

(* A level is then asked for its approval or has given it once, never both. *)
OneApproval == \A k \in Keys, l \in Levels : requested[k][l] + Len(provided[k][l]) <= 1

OnceInv == OneApproval /\ UnapproveRevokes

(* With requested lists free of repetition, no level approves twice at first. *)
LEMMA OnceInit == Init /\ RequestedOnce => OnceInv
<1> SUFFICES ASSUME Init, RequestedOnce PROVE OnceInv
  OBVIOUS
<1>1. PICK old \in {{}} \cup {{k} : k \in Keys}, t \in Trxs, r \in Requests :
        /\ Authorizes({l \in Levels : r[l] > 0}, t)
        /\ prop = [k \in Keys |-> IF k \in old THEN [trx |-> t, id |-> 0] ELSE None]
        /\ table = [k \in Keys |-> IF k \in old THEN "old_approvals" ELSE None]
        /\ requested = [k \in Keys |-> IF k \in old THEN r ELSE NoRequest]
  BY Zenon DEF Init
<1>2. \A k \in Keys, l \in Levels : provided[k][l] = <<>> /\ DOMAIN provided[k][l] = {}
  BY NoEntries DEF Init
<1>3. \A k \in Keys, l \in Levels : requested[k][l] \in {0, 1}
  BY <1>1 DEF RequestedOnce, NoRequest
<1>4. OneApproval
  <2>1. Len(<<>>) = 0
    OBVIOUS
  <2> QED BY <1>2, <1>3, <2>1 DEF OneApproval
<1>5. UnapproveRevokes
  BY <1>2 DEF UnapproveRevokes, Counted
<1> QED BY <1>4, <1>5 DEF OnceInv

(* What a step does to one level decides whether it still counts rightly. *)
LEMMA OnceNext ==
  ASSUME Inv, OnceInv, RequestedOnce, [Next]_vars
  PROVE  OnceInv'
<1>1. /\ OneApproval /\ UnapproveRevokes /\ ApprovalsInTime
      /\ requested \in [Keys -> [Levels -> Nat]] /\ provided \in [Keys -> [Levels -> Seq(Approval)]]
      /\ standing \in [Keys -> SUBSET Levels] /\ invals \in [Accounts -> Times \cup {-1}]
      /\ table \in [Keys -> {"approvals2", "old_approvals", None}]
  BY DEF Inv, OnceInv, TypeOK
<1>2. ASSUME NEW k \in Keys, requested' = [requested EXCEPT ![k] = requested'[k]],
             provided' = [provided EXCEPT ![k] = NoApprovals],
             \A l \in Levels : requested'[k][l] \in {0, 1},
             \A j \in Keys \ {k} : table'[j] = table[j] /\ standing'[j] = standing[j],
             UNCHANGED invals
      PROVE  OnceInv'
  <2>1. /\ provided'[k] = NoApprovals
        /\ \A j \in Keys \ {k} : requested'[j] = requested[j] /\ provided'[j] = provided[j]
    BY <1>1, <1>2
  <2>2. OneApproval'
    <3> SUFFICES ASSUME NEW j \in Keys, NEW l \in Levels
                 PROVE  requested'[j][l] + Len(provided'[j][l]) <= 1
      BY DEF OneApproval
    <3>1. CASE j = k
      <4>1. provided'[j][l] = <<>> /\ Len(<<>>) = 0 /\ requested'[j][l] \in {0, 1}
        BY <1>2, <2>1, <3>1, NoEntries
      <4> QED BY <4>1
    <3>2. CASE j # k
      BY <1>1, <2>1, <3>2 DEF OneApproval
    <3> QED BY <3>1, <3>2
  <2>3. UnapproveRevokes'
    <3> SUFFICES ASSUME NEW j \in Keys, NEW l \in Levels, NEW i \in DOMAIN provided'[j][l],
                        StillValid(j, l, provided[j][l][i].time)'
                 PROVE  l \in standing'[j]
      BY DEF UnapproveRevokes, Counted
    <3>1. j # k
      BY <2>1, NoEntries
    <3>2. StillValid(j, l, provided[j][l][i].time) /\ i \in DOMAIN provided[j][l]
      BY <1>2, <2>1, <3>1 DEF StillValid
    <3>3. l \in Counted(j)
      BY <3>2 DEF Counted
    <3> QED BY <1>1, <1>2, <3>1, <3>3 DEF UnapproveRevokes
  <2> QED BY <2>2, <2>3 DEF OnceInv
<1>3. ASSUME NEW k \in Keys, NEW r \in Requests, NEW t \in Trxs, propose(k, r, t)
      PROVE  OnceInv'
  <2>1. /\ requested' = [requested EXCEPT ![k] = r] /\ r \in [Levels -> {0, 1}]
        /\ provided' = [provided EXCEPT ![k] = NoApprovals] /\ UNCHANGED invals
        /\ table' = [table EXCEPT ![k] = "approvals2"] /\ standing' = [standing EXCEPT ![k] = {}]
    BY <1>3 DEF propose, RequestedOnce
  <2>2. requested'[k] = r
    BY <1>1, <2>1
  <2>3. \A j \in Keys \ {k} : table'[j] = table[j] /\ standing'[j] = standing[j]
    BY <1>1, <2>1
  <2>4. \A l \in Levels : requested'[k][l] \in {0, 1}
    BY <2>1, <2>2
  <2> QED BY <1>2, <2>1, <2>2, <2>3, <2>4
<1>4. ASSUME NEW k \in Keys, EraseApprovals(k), UNCHANGED invals
      PROVE  OnceInv'
  <2>1. /\ requested' = [requested EXCEPT ![k] = NoRequest]
        /\ provided' = [provided EXCEPT ![k] = NoApprovals]
        /\ table' = [table EXCEPT ![k] = None] /\ standing' = [standing EXCEPT ![k] = {}]
    BY <1>4 DEF EraseApprovals
  <2>2. requested'[k] = NoRequest
    BY <1>1, <2>1
  <2>3. \A j \in Keys \ {k} : table'[j] = table[j] /\ standing'[j] = standing[j]
    BY <1>1, <2>1
  <2>4. \A l \in Levels : requested'[k][l] \in {0, 1}
    BY <2>2 DEF NoRequest
  <2> QED BY <1>2, <1>4, <2>1, <2>2, <2>3, <2>4
<1>5. ASSUME NEW k \in Keys, NEW l \in Levels, NEW h \in Trxs \cup {None}, approve(k, l, h)
      PROVE  OnceInv'
  <2> DEFINE e == [time |-> now, hash |-> h]
             s == provided[k][l]
  <2>1. /\ provided' = [provided EXCEPT ![k][l] = Append(s, e)] /\ requested[k][l] > 0
        /\ requested' = [requested EXCEPT ![k][l] = requested[k][l] - 1]
        /\ standing' = [standing EXCEPT ![k] = standing[k] \cup {l}] /\ UNCHANGED <<table, invals>>
    BY <1>5 DEF approve, IsRequested
  <2>2. s \in Seq(Approval) /\ e \in Approval /\ Len(s) \in Nat
    <3>1. now \in Times
      BY DEF Inv, TypeOK
    <3>2. s \in Seq(Approval) /\ e \in Approval
      BY <1>1, <3>1 DEF Approval
    <3> QED BY <3>2, LenProperties
  <2>3. Len(Append(s, e)) = Len(s) + 1
    <3> HIDE DEF s, e
    <3> QED BY <2>2, AppendedEntries
  <2>4. /\ provided'[k][l] = Append(s, e) /\ requested'[k][l] = requested[k][l] - 1
        /\ \A j \in Keys, m \in Levels : j # k \/ m # l =>
             provided'[j][m] = provided[j][m] /\ requested'[j][m] = requested[j][m]
    BY <1>1, <2>1
  <2>5. l \in standing'[k] /\ \A j \in Keys : standing[j] \subseteq standing'[j]
    BY <1>1, <2>1
  <2>6. OneApproval'
    <3> SUFFICES ASSUME NEW j \in Keys, NEW m \in Levels
                 PROVE  requested'[j][m] + Len(provided'[j][m]) <= 1
      BY DEF OneApproval
    <3>1. CASE j = k /\ m = l
      <4>1. requested[k][l] + Len(s) <= 1 /\ requested[k][l] \in Nat
        BY <1>1 DEF OneApproval
      <4> HIDE DEF s, e
      <4> QED BY <2>2, <2>3, <2>4, <3>1, <4>1
    <3>2. CASE j # k \/ m # l
      BY <1>1, <2>4, <3>2 DEF OneApproval
    <3> QED BY <3>1, <3>2
  <2>7. UnapproveRevokes'
    <3> SUFFICES ASSUME NEW j \in Keys, NEW m \in Levels, NEW i \in DOMAIN provided'[j][m],
                        StillValid(j, m, provided[j][m][i].time)'
                 PROVE  m \in standing'[j]
      BY DEF UnapproveRevokes, Counted
    <3>1. CASE j = k /\ m = l
      BY <2>5, <3>1
    <3>2. CASE j # k \/ m # l
      <4>1. StillValid(j, m, provided[j][m][i].time) /\ i \in DOMAIN provided[j][m]
        BY <2>1, <2>4, <3>2 DEF StillValid
      <4>2. m \in Counted(j)
        BY <4>1 DEF Counted
      <4> QED BY <1>1, <2>5, <4>2 DEF UnapproveRevokes
    <3> QED BY <3>1, <3>2
  <2> QED BY <2>6, <2>7 DEF OnceInv
<1>6. ASSUME NEW k \in Keys, NEW l \in Levels, unapprove(k, l)
      PROVE  OnceInv'
  <2> DEFINE s == provided[k][l]
  <2>1. /\ provided' = [provided EXCEPT ![k][l] = Tail(s)] /\ s # <<>>
        /\ requested' = [requested EXCEPT ![k][l] = requested[k][l] + 1]
        /\ standing' = [standing EXCEPT ![k] = standing[k] \ {l}] /\ UNCHANGED <<table, invals>>
    BY <1>6 DEF unapprove
  <2>2. s \in Seq(Approval) /\ Len(s) \in Nat \ {0} /\ requested[k][l] + Len(s) <= 1 /\ requested[k][l] \in Nat
    <3>1. s \in Seq(Approval) /\ requested[k][l] \in Nat /\ requested[k][l] + Len(s) <= 1
      BY <1>1 DEF OneApproval
    <3> HIDE DEF s
    <3> QED BY <2>1, <3>1, EmptySeq
  <2>3. Len(Tail(s)) = 0 /\ DOMAIN Tail(s) = {} /\ requested[k][l] = 0
    <3> HIDE DEF s
    <3>1. Tail(s) \in Seq(Approval) /\ Len(Tail(s)) = Len(s) - 1
      BY <2>1, <2>2, RemainingEntries
    <3>2. Len(Tail(s)) = 0 /\ requested[k][l] = 0
      BY <2>2, <3>1
    <3>3. DOMAIN Tail(s) = 1 .. Len(Tail(s))
      BY <3>1, LenProperties
    <3>4. 1 .. 0 = {}
      OBVIOUS
    <3> QED BY <3>2, <3>3, <3>4
  <2>4. /\ provided'[k][l] = Tail(s) /\ requested'[k][l] = requested[k][l] + 1
        /\ \A j \in Keys, m \in Levels : j # k \/ m # l =>
             provided'[j][m] = provided[j][m] /\ requested'[j][m] = requested[j][m]
    BY <1>1, <2>1
  <2>5. \A j \in Keys, m \in Levels : (j # k \/ m # l) /\ m \in standing[j] => m \in standing'[j]
    BY <1>1, <2>1
  <2>6. OneApproval'
    <3> SUFFICES ASSUME NEW j \in Keys, NEW m \in Levels
                 PROVE  requested'[j][m] + Len(provided'[j][m]) <= 1
      BY DEF OneApproval
    <3>1. CASE j = k /\ m = l
      <4> HIDE DEF s
      <4> QED BY <2>2, <2>3, <2>4, <3>1
    <3>2. CASE j # k \/ m # l
      BY <1>1, <2>4, <3>2 DEF OneApproval
    <3> QED BY <3>1, <3>2
  <2>7. UnapproveRevokes'
    <3> SUFFICES ASSUME NEW j \in Keys, NEW m \in Levels, NEW i \in DOMAIN provided'[j][m],
                        StillValid(j, m, provided[j][m][i].time)'
                 PROVE  m \in standing'[j]
      BY DEF UnapproveRevokes, Counted
    <3>1. j # k \/ m # l
      <4> HIDE DEF s
      <4> QED BY <2>3, <2>4
    <3>2. StillValid(j, m, provided[j][m][i].time) /\ i \in DOMAIN provided[j][m]
      BY <2>1, <2>4, <3>1 DEF StillValid
    <3>3. m \in Counted(j)
      BY <3>2 DEF Counted
    <3> QED BY <1>1, <2>5, <3>1, <3>3 DEF UnapproveRevokes
  <2> QED BY <2>6, <2>7 DEF OnceInv
<1>7. ASSUME NEW a \in Accounts, invalidate(a)
      PROVE  OnceInv'
  <2>1. /\ invals' = [invals EXCEPT ![a] = now] /\ UNCHANGED <<requested, provided, table>>
        /\ standing' = [k \in Keys |-> {l \in standing[k] : Actor[l] # a}]
    BY <1>7 DEF invalidate
  <2>2. UnapproveRevokes'
    <3> SUFFICES ASSUME NEW j \in Keys, NEW m \in Levels, NEW i \in DOMAIN provided[j][m],
                        StillValid(j, m, provided[j][m][i].time)'
                 PROVE  m \in standing'[j]
      BY <2>1 DEF UnapproveRevokes, Counted
    <3>1. /\ now \in Nat /\ Actor[m] \in Accounts /\ provided[j][m][i].time \in Nat
          /\ provided[j][m][i].time <= now
      <4>1. provided[j][m][i] \in Approval
        BY <1>1, LenProperties, ElementOfSeq
      <4> QED BY <1>1, <4>1, AccountsAssumption DEF Inv, TypeOK, Times, Approval, ApprovalsInTime
    <3>2. Actor[m] # a
      <4> SUFFICES ASSUME Actor[m] = a PROVE FALSE
        OBVIOUS
      <4>1. invals'[Actor[m]] = now
        BY <1>1, <2>1
      <4> QED BY <2>1, <3>1, <4>1 DEF StillValid
    <3>3. invals'[Actor[m]] = invals[Actor[m]]
      BY <1>1, <2>1, <3>1, <3>2
    <3>4. StillValid(j, m, provided[j][m][i].time)
      BY <2>1, <3>3 DEF StillValid
    <3>5. m \in Counted(j)
      BY <3>4 DEF Counted
    <3> QED BY <1>1, <2>1, <3>2, <3>5 DEF UnapproveRevokes
  <2> QED BY <1>1, <2>1, <2>2 DEF OneApproval, OnceInv
<1>8. CASE UNCHANGED <<requested, provided, table, standing, invals>>
  BY <1>1, <1>8 DEF OnceInv, OneApproval, UnapproveRevokes, Counted, StillValid
<1> QED
  <2>1. ASSUME NEW k \in Keys, NEW a \in Accounts, cancel(k, a) \/ exec(k, a)
        PROVE  OnceInv'
    BY <1>4, <2>1 DEF cancel, exec
  <2>2. CASE Tick \/ (\E k \in Keys : RunDeferred(k)) \/ UNCHANGED vars
    BY <1>8, <2>2 DEF Tick, RunDeferred, vars
  <2> QED BY <1>3, <1>5, <1>6, <1>7, <2>1, <2>2 DEF Next

(* When no level is requested twice, the levels counted for execution are those
   whose last word is approval: unapprove and invalidate take effect. *)
THEOREM LastWordCounts ==
  ASSUME RequestedOnce
  PROVE  Spec => []UnapproveRevokes
<1>1. Init => OnceInv
  BY OnceInit
<1>2. Inv /\ OnceInv /\ [Next]_vars => OnceInv'
  BY OnceNext
<1>3. OnceInv => UnapproveRevokes
  BY DEF OnceInv
<1> QED BY <1>1, <1>2, <1>3, MsigInvariant, PTL DEF Spec

(* When no level is requested twice, a transaction is only ever sent with the
   authority of levels whose last word on this proposal is approval. *)
THEOREM ExecAuthorized ==
  ASSUME RequestedOnce
  PROVE  Spec => ExecIsAuthorized
<1> DEFINE Step == \A k \in Keys : Sends(k) => Authorizes(standing[k], prop[k].trx)
<1>1. Inv /\ UnapproveRevokes /\ [Next]_vars => [Step]_vars
  <2> SUFFICES ASSUME Inv, UnapproveRevokes, Next, NEW k \in Keys, Sends(k)
               PROVE  Authorizes(standing[k], prop[k].trx)
    OBVIOUS
  <2>1. /\ prop[k] # None /\ sent'[prop[k].id] # sent[prop[k].id]
        /\ prop[k].id \in Ids /\ sent \in [Ids -> Nat]
    BY DEF Sends, Inv, TypeOK, Proposal
  <2>2. PICK j \in Keys, a \in Accounts : exec(j, a)
    BY <2>1 DEF Next, Tick, invalidate, RunDeferred, propose, approve, unapprove, cancel
  <2>3. /\ prop[j] # None /\ sent' = [sent EXCEPT ![prop[j].id] = @ + 1]
        /\ Authorizes(Counted(j), prop[j].trx)
    BY <2>2 DEF exec
  <2>4. prop[j].id = prop[k].id
    BY <2>1, <2>3
  <2>5. j = k
    BY <2>1, <2>3, <2>4 DEF Inv, IdsAreNew
  <2>6. Counted(k) \subseteq standing[k]
    BY DEF UnapproveRevokes
  <2> QED BY <2>3, <2>5, <2>6 DEF Authorizes
<1>2. ExecIsAuthorized <=> [][Step]_vars
  BY DEF ExecIsAuthorized
<1> HIDE DEF Step
<1> QED BY <1>1, <1>2, MsigInvariant, LastWordCounts, PTL DEF Spec
=============================================================================
