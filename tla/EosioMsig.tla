----------------------------- MODULE EosioMsig -----------------------------
(***************************************************************************)
(* contracts/eosio.msig: proposals of transactions, the approvals they     *)
(* collect, the invalidations accounts declare, and the deferred           *)
(* transaction that exec sends.  Every action is one atomic transaction of *)
(* the chain.                                                              *)
(*                                                                         *)
(* An approvals row holds two vectors of permission levels.  The handlers  *)
(* only ever look for the first entry of one level and append at the end,  *)
(* so a row is kept here as how often each level is requested and the      *)
(* queue of the approvals of each level.  The row of a proposal made       *)
(* before approvals carried a time is in the table old_approvals.          *)
(*                                                                         *)
(* External, modelled from its use here: check_transaction_authorization,  *)
(* by the sets of levels that suffice for a transaction, and the chain's   *)
(* deferred transactions, which run at most once, later or never.          *)
(***************************************************************************)
EXTENDS Integers, Sequences

CONSTANTS
  Accounts,      \* the accounts of the chain
  Proposers,     \* the accounts that make proposals
  Names,         \* proposal names
  Levels,        \* permission levels, account@permission
  Actor,         \* Actor[l]: the account of level l
  Trxs,          \* the transactions that may be proposed
  Quorums,       \* Quorums[t]: the sets of levels that suffice to authorize t
  Expiration,    \* Expiration[t]: the last time at which t may be executed
  Requests,      \* the lists of requested levels: how often each level is on it
  MaxTime,       \* bound on the clock
  MaxProposals,  \* bound on the number of proposals made
  None

ASSUME AccountsAssumption == Proposers \subseteq Accounts /\ Actor \in [Levels -> Accounts]
ASSUME TrxAssumption ==
  Expiration \in [Trxs -> Nat] /\ Quorums \in [Trxs -> SUBSET SUBSET Levels]
ASSUME RequestsAssumption == Requests \subseteq [Levels -> Nat]
ASSUME BoundsAssumption == MaxTime \in Nat /\ MaxProposals \in Nat

VARIABLES
  now,        \* current_time_point()
  prop,       \* prop[k]: the proposals row of k = <<proposer, name>>, or None
  table,      \* table[k]: the table that holds the approvals of k, or None
  requested,  \* requested[k][l]: entries of level l in requested_approvals
  provided,   \* provided[k][l]: the approvals of l in provided_approvals, oldest first
  invals,     \* invals[a]: last_invalidation_time of account a, or -1
  deferred,   \* deferred[k]: the proposal sent under sender id k and not run yet, or None
  signer,     \* the account that authorized the last transaction
  proposed,   \* how many proposals were made
  standing,   \* history: the levels whose last word on the proposal at k is approval
  sent        \* history: sent[i], how often proposal number i was sent for execution

vars == <<now, prop, table, requested, provided, invals, deferred, signer, proposed,
          standing, sent>>

Keys == Proposers \X Names
Ids == 0 .. MaxProposals
Times == 0 .. MaxTime

(* An approval carries the time it was given, the transaction whose hash the
   approver passed (None without one), which the code checks but does not store. *)
Approval == [time : Times, hash : Trxs \cup {None}]
Proposal == [trx : Trxs, id : Ids]

ASSUME NoneAssumption == None \notin Trxs \cup Proposal \cup {"approvals2", "old_approvals"}

Proposer(k) == k[1]
NoRequest == [l \in Levels |-> 0]
NoApprovals == [l \in Levels |-> <<>>]

(* check_transaction_authorization( trx, levels ) > 0 *)
Authorizes(levels, t) == \E q \in Quorums[t] : q \subseteq levels

Expired(t) == Expiration[t] < now

(* A chain whose contract was upgraded may hold proposals in the old table. *)
Init ==
  /\ now = 0
  /\ \E old \in {{}} \cup {{k} : k \in Keys}, t \in Trxs, r \in Requests :
       /\ Authorizes({l \in Levels : r[l] > 0}, t)
       /\ prop = [k \in Keys |-> IF k \in old THEN [trx |-> t, id |-> 0] ELSE None]
       /\ table = [k \in Keys |-> IF k \in old THEN "old_approvals" ELSE None]
       /\ requested = [k \in Keys |-> IF k \in old THEN r ELSE NoRequest]
  /\ provided = [k \in Keys |-> NoApprovals]
  /\ invals = [a \in Accounts |-> -1]
  /\ deferred = [k \in Keys |-> None]
  /\ \E a \in Accounts : signer = a
  /\ proposed = 0
  /\ standing = [k \in Keys |-> {}]
  /\ sent = [i \in Ids |-> 0]

-----------------------------------------------------------------------------
(* emplace into approvals2 aborts when the row is there already. *)
propose(k, r, t) ==
  /\ proposed < MaxProposals
  /\ ~Expired(t)
  /\ prop[k] = None
  /\ Authorizes({l \in Levels : r[l] > 0}, t)
  /\ table[k] # "approvals2"
  /\ prop' = [prop EXCEPT ![k] = [trx |-> t, id |-> proposed + 1]]
  /\ table' = [table EXCEPT ![k] = "approvals2"]
  /\ requested' = [requested EXCEPT ![k] = r]
  /\ provided' = [provided EXCEPT ![k] = NoApprovals]
  /\ proposed' = proposed + 1
  /\ standing' = [standing EXCEPT ![k] = {}]
  /\ signer' = Proposer(k)
  /\ UNCHANGED <<now, invals, deferred, sent>>

(* Mutant: the hash is not compared. *)
AnyHash(k, h) == TRUE

(* assert_sha256 of the stored transaction, when the approver passes a hash *)
HashMatches(k, h) == h # None => prop[k] # None /\ prop[k].trx = h

(* level is on the list of requested approvals *)
IsRequested(k, l) == requested[k][l] > 0

approve(k, l, h) ==
  /\ HashMatches(k, h)
  /\ table[k] # None
  /\ IsRequested(k, l)
  /\ requested' = [requested EXCEPT ![k][l] = @ - 1]
  /\ provided' = [provided EXCEPT ![k][l] = Append(@, [time |-> now, hash |-> h])]
  /\ standing' = [standing EXCEPT ![k] = @ \cup {l}]
  /\ signer' = Actor[l]
  /\ UNCHANGED <<now, prop, table, invals, deferred, proposed, sent>>

unapprove(k, l) ==
  /\ table[k] # None
  /\ provided[k][l] # <<>>
  /\ requested' = [requested EXCEPT ![k][l] = @ + 1]
  /\ provided' = [provided EXCEPT ![k][l] = Tail(@)]
  /\ standing' = [standing EXCEPT ![k] = @ \ {l}]
  /\ signer' = Actor[l]
  /\ UNCHANGED <<now, prop, table, invals, deferred, proposed, sent>>

(* Mutant: the proposal stays in its table. *)
KeepProposal(k) == UNCHANGED prop

EraseProposal(k) == prop' = [prop EXCEPT ![k] = None]

(* Both tables are looked at; the row is in exactly one of them. *)
EraseApprovals(k) ==
  /\ table[k] # None
  /\ table' = [table EXCEPT ![k] = None]
  /\ requested' = [requested EXCEPT ![k] = NoRequest]
  /\ provided' = [provided EXCEPT ![k] = NoApprovals]
  /\ standing' = [standing EXCEPT ![k] = {}]

(* Mutant: others may cancel in the last moment of an executable proposal. *)
MayCancelEarly(k, canceler) == canceler # Proposer(k) => Expiration[prop[k].trx] <= now

(* The proposer may cancel at any time, anyone once the transaction expired. *)
MayCancel(k, canceler) == canceler # Proposer(k) => Expired(prop[k].trx)

cancel(k, canceler) ==
  /\ prop[k] # None
  /\ MayCancel(k, canceler)
  /\ EraseProposal(k)
  /\ EraseApprovals(k)
  /\ signer' = canceler
  /\ UNCHANGED <<now, invals, deferred, proposed, sent>>

(* Mutant: an invalidation does not void an approval of the same moment. *)
StillValidAtOnce(k, l, time) ==
  \/ invals[Actor[l]] = -1
  \/ table[k] = "approvals2" /\ invals[Actor[l]] <= time

(* An approval with a time counts when it is later than its account's last
   invalidation; one without a time only if its account never invalidated. *)
StillValid(k, l, time) ==
  \/ invals[Actor[l]] = -1
  \/ table[k] = "approvals2" /\ invals[Actor[l]] < time

(* Mutant: invalidations are not looked up. *)
CountedAnyway(k) == {l \in Levels : provided[k][l] # <<>>}

Counted(k) == {l \in Levels : \E i \in DOMAIN provided[k][l] : StillValid(k, l, provided[k][l][i].time)}

(* send_deferred does not replace a transaction still pending under its id. *)
exec(k, executer) ==
  /\ prop[k] # None
  /\ ~Expired(prop[k].trx)
  /\ Authorizes(Counted(k), prop[k].trx)
  /\ deferred[k] = None
  /\ EraseApprovals(k)
  /\ deferred' = [deferred EXCEPT ![k] = prop[k]]
  /\ sent' = [sent EXCEPT ![prop[k].id] = @ + 1]
  /\ EraseProposal(k)
  /\ signer' = executer
  /\ UNCHANGED <<now, invals, proposed>>

invalidate(a) ==
  /\ invals' = [invals EXCEPT ![a] = now]
  /\ standing' = [k \in Keys |-> {l \in standing[k] : Actor[l] # a}]
  /\ signer' = a
  /\ UNCHANGED <<now, prop, table, requested, provided, deferred, proposed, sent>>

(* The chain runs a deferred transaction once, or drops it when it fails or expires. *)
RunDeferred(k) ==
  /\ deferred[k] # None
  /\ deferred' = [deferred EXCEPT ![k] = None]
  /\ UNCHANGED <<now, prop, table, requested, provided, invals, signer, proposed, standing, sent>>

Tick ==
  /\ now < MaxTime
  /\ now' = now + 1
  /\ UNCHANGED <<prop, table, requested, provided, invals, deferred, signer, proposed,
                 standing, sent>>

Next ==
  \/ Tick
  \/ \E a \in Accounts : invalidate(a)
  \/ \E k \in Keys :
       \/ RunDeferred(k)
       \/ \E r \in Requests, t \in Trxs : propose(k, r, t)
       \/ \E l \in Levels, h \in Trxs \cup {None} : approve(k, l, h)
       \/ \E l \in Levels : unapprove(k, l)
       \/ \E a \in Accounts : cancel(k, a) \/ exec(k, a)

Spec == Init /\ [][Next]_vars

-----------------------------------------------------------------------------
TypeOK ==
  /\ now \in Times
  /\ prop \in [Keys -> Proposal \cup {None}]
  /\ table \in [Keys -> {"approvals2", "old_approvals", None}]
  /\ requested \in [Keys -> [Levels -> Nat]]
  /\ provided \in [Keys -> [Levels -> Seq(Approval)]]
  /\ invals \in [Accounts -> Times \cup {-1}]
  /\ deferred \in [Keys -> Proposal \cup {None}]
  /\ signer \in Accounts
  /\ proposed \in Ids
  /\ standing \in [Keys -> SUBSET Levels]
  /\ sent \in [Ids -> Nat]

(* The step sends the proposal at k for execution. *)
Sends(k) == prop[k] # None /\ sent'[prop[k].id] # sent[prop[k].id]

(* The step removes the proposal at k. *)
Ends(k) == prop[k] # None /\ prop'[k] # prop[k]

(* exec sends a transaction only when it is authorized by levels whose last
   word on this very proposal is an approval: approvals withdrawn with
   unapprove, voided by a later invalidate of the account or given to an
   earlier proposal of the same name do not count. *)
ExecIsAuthorized == [][\A k \in Keys : Sends(k) => Authorizes(standing[k], prop[k].trx)]_vars

(* A proposal is sent at most once, and it is gone from the table by then, even
   when its name is used again while the deferred transaction is pending. *)
SentOnce ==
  /\ \A i \in Ids : sent[i] <= 1
  /\ \A k \in Keys : prop[k] # None => sent[prop[k].id] = 0

(* Before its transaction expires a proposal ends only by being sent or by its
   own proposer's cancel; afterwards it can no longer be sent. *)
EndsProperly ==
  [][\A k \in Keys : Ends(k) =>
       IF Expired(prop[k].trx) THEN ~Sends(k) ELSE Sends(k) \/ signer' = Proposer(k)]_vars

(* An approval given with the hash of a transaction is only ever kept beside
   that transaction: cancelling and proposing another one under the same name
   between the approver's look and its approval does not redirect it. *)
HashPinsTransaction ==
  \A k \in Keys, l \in Levels : \A i \in DOMAIN provided[k][l] :
    /\ prop[k] # None
    /\ provided[k][l][i].hash \in {None, prop[k].trx}

(* unapprove withdraws the level's approval: the levels counted for execution
   are among those whose last word is approval. *)
UnapproveRevokes == \A k \in Keys : Counted(k) \subseteq standing[k]
=============================================================================
