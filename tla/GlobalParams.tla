----------------------------- MODULE GlobalParams -----------------------------
(***************************************************************************)
(* The param updater's handlers of src/unnamed/part_002, UpdateGlobalParams *)
(* and SwapIdentity, and the life of the transactions they build in the    *)
(* one mempool they share.  UpdateGlobalParams reads the augmented         *)
(* view and puts into the transaction only the fields whose requested      *)
(* value differs from the view; every other field is -1, which the ledger  *)
(* treats as "leave as is".  It returns the unsigned transaction; the      *)
(* admin's wallet signs and submits it later, or never.  The five fields   *)
(* are handled by identical code, so one field, USDCentsPerBitcoin,        *)
(* stands for them.  SwapIdentity resolves each of its two names, a        *)
(* username or a public key, through its own augmented view, and builds a  *)
(* transaction naming the two keys.                                        *)
(***************************************************************************)
EXTENDS Integers, Sequences, SequencesExt

CONSTANTS
    Admins,         \* the param updater's concurrent sessions
    Values,         \* values a field can hold (uint64, small)
    MaxRequests,    \* handler calls per admin
    Usernames,      \* profile usernames
    PubKeys         \* public keys

ASSUME Values \subseteq Nat /\ MaxRequests \in Nat

\* What a SwapIdentity request names: a username or a public key.
Names == Usernames \cup PubKeys

\* A request field is an int64; a negative one means "do not touch".
Requests == Values \cup {-1}

VARIABLES
    params,     \* the confirmed GlobalParamsEntry field
    mempool,    \* submitted, not yet mined update transactions (their field)
    proc,       \* per admin: idle, or holding a built transaction
    served,     \* handler calls per admin
    intended,   \* history: the value of the last submitted request that asked for one
    lastSub,    \* history: that request's field, and the view it was built and submitted against
    owner,      \* the confirmed profile of each username: the key it belongs to
    swaps       \* history: swap transactions submitted so far

vars == <<params, mempool, proc, served, intended, lastSub, owner, swaps>>

Idle == [pc |-> "idle", field |-> -1, req |-> -1, view |-> 0]

\* A plausible bug: the -1 sentinel taken as a value.
ApplyFieldRaw(v, f) == f

\* The ledger's reading of a field of the transaction: values below 0 are
\* excluded and leave the entry unchanged.
ApplyField(v, f) == IF f >= 0 THEN f ELSE v

\* A mempool transaction's effect on the param field.
ApplyParams(v, t) == IF t.kind = "params" THEN ApplyField(v, t.field) ELSE v

\* The ledger's swap identity: the profiles of the two keys trade places.
ApplySwap(o, t) ==
    IF t.kind = "swap"
    THEN [u \in Usernames |-> IF o[u] = t.from THEN t.to
                              ELSE IF o[u] = t.to THEN t.from ELSE o[u]]
    ELSE o

\* GetAugmentedUniversalView: the confirmed state with the mempool applied.
AugmentedView == FoldLeft(ApplyParams, params, mempool)
AugmentedOwner == FoldLeft(ApplySwap, owner, mempool)

\* A plausible bug: a username looked up in the confirmed state, not the
\* mempool's augmented view.
GetPublicKeyConfirmed(n) == IF n \in PubKeys THEN n ELSE owner[n]

\* getPublicKeyFromUsernameOrPublicKeyString: a public key is decoded as
\* is; a username is looked up in a fresh augmented view.
GetPublicKey(n) == IF n \in PubKeys THEN n ELSE AugmentedOwner[n]

TypeOK ==
    /\ params \in Values
    /\ mempool \in Seq([kind : {"params"}, field : Requests]
                      \cup [kind : {"swap"}, from : PubKeys, to : PubKeys,
                             names : Names \X Names, raced : BOOLEAN])
    /\ proc \in [Admins -> [pc : {"idle", "built"}, field : Requests, req : Requests, view : Values]
                         \cup [pc : {"swap_to", "built_swap"}, names : Names \X Names,
                               from : PubKeys, to : PubKeys, seen : Nat]]
    /\ served \in [Admins -> 0..MaxRequests]
    /\ intended \in Values
    /\ lastSub \in [field : Requests, built : Values, submitted : Values]
    /\ owner \in Injection(Usernames, PubKeys)
    /\ swaps \in Nat

Init ==
    /\ params \in Values
    /\ mempool = <<>>
    /\ proc = [a \in Admins |-> Idle]
    /\ served = [a \in Admins |-> 0]
    /\ intended = params
    /\ lastSub = [field |-> params, built |-> params, submitted |-> params]
    /\ owner \in Injection(Usernames, PubKeys)
    /\ swaps = 0

\* A plausible bug: the comparison with the view inverted.
UpdateGlobalParamsInverted(a, req) ==
    /\ proc[a].pc = "idle"
    /\ served[a] < MaxRequests
    /\ served' = [served EXCEPT ![a] = @ + 1]
    /\ \/ UNCHANGED <<proc>>
       \/ LET field == IF req >= 0 /\ req = AugmentedView THEN req ELSE -1
          IN  proc' = [proc EXCEPT ![a] = [pc |-> "built", field |-> field, req |-> req,
                                           view |-> AugmentedView]]
    /\ UNCHANGED <<params, mempool, intended, lastSub, owner, swaps>>

\* The whole handler.  A parse, key, fee, txn-creation or encoding error
\* returns with nothing built; otherwise the field is the request if it is
\* non-negative and differs from the augmented view, else -1.
UpdateGlobalParams(a, req) ==
    /\ proc[a].pc = "idle"
    /\ served[a] < MaxRequests
    /\ served' = [served EXCEPT ![a] = @ + 1]
    /\ \/ UNCHANGED <<proc>>
       \/ LET field == IF req >= 0 /\ req # AugmentedView THEN req ELSE -1
          IN  proc' = [proc EXCEPT ![a] = [pc |-> "built", field |-> field, req |-> req,
                                           view |-> AugmentedView]]
    /\ UNCHANGED <<params, mempool, intended, lastSub, owner, swaps>>

\* SwapIdentity up to its first lookup.  A body, updater-key or fee error
\* returns with nothing built; otherwise the from name is resolved.
SwapIdentity(a, fromName, toName) ==
    /\ proc[a].pc = "idle"
    /\ served[a] < MaxRequests
    /\ served' = [served EXCEPT ![a] = @ + 1]
    /\ \/ UNCHANGED <<proc>>
       \/ proc' = [proc EXCEPT ![a] = [pc |-> "swap_to", names |-> <<fromName, toName>>,
                                       from |-> GetPublicKey(fromName), to |-> GetPublicKey(fromName),
                                       seen |-> swaps]]
    /\ UNCHANGED <<params, mempool, intended, lastSub, owner, swaps>>

\* The to name is resolved through a second augmented view, then
\* CreateSwapIdentityTxn builds the transaction; either may fail.
SwapResolveTo(a) ==
    /\ proc[a].pc = "swap_to"
    /\ \/ proc' = [proc EXCEPT ![a] = Idle]
       \/ proc' = [proc EXCEPT ![a].pc = "built_swap", ![a].to = GetPublicKey(proc[a].names[2])]
    /\ UNCHANGED <<params, mempool, served, intended, lastSub, owner, swaps>>

\* The wallet signs and submits the returned transaction: it joins the
\* mempool behind every transaction already there.  A swap records, for
\* the property, whether another swap was submitted since its first lookup.
SubmitTxn(a) ==
    /\ proc[a].pc \in {"built", "built_swap"}
    /\ IF proc[a].pc = "built"
       THEN /\ mempool' = Append(mempool, [kind |-> "params", field |-> proc[a].field])
            /\ intended' = ApplyField(intended, proc[a].req)
            /\ lastSub' = IF proc[a].req >= 0
                          THEN [field |-> proc[a].field, built |-> proc[a].view,
                                submitted |-> AugmentedView]
                          ELSE lastSub
            /\ UNCHANGED swaps
       ELSE /\ mempool' = Append(mempool, [kind |-> "swap", from |-> proc[a].from,
                                           to |-> proc[a].to, names |-> proc[a].names,
                                           raced |-> swaps # proc[a].seen])
            /\ swaps' = swaps + 1
            /\ UNCHANGED <<intended, lastSub>>
    /\ proc' = [proc EXCEPT ![a] = Idle]
    /\ UNCHANGED <<params, served, owner>>

\* The transaction was only a preview (fees), or the wallet never sends it.
DropTxn(a) ==
    /\ proc[a].pc \in {"built", "built_swap"}
    /\ proc' = [proc EXCEPT ![a] = Idle]
    /\ UNCHANGED <<params, mempool, served, intended, lastSub, owner, swaps>>

\* A block connects the oldest mempool transaction.
Mine ==
    /\ mempool # <<>>
    /\ params' = ApplyParams(params, Head(mempool))
    /\ owner' = ApplySwap(owner, Head(mempool))
    /\ mempool' = Tail(mempool)
    /\ UNCHANGED <<proc, served, intended, lastSub, swaps>>

Next ==
    \/ \E a \in Admins, req \in Requests : UpdateGlobalParams(a, req)
    \/ \E a \in Admins, n1, n2 \in Names : SwapIdentity(a, n1, n2)
    \/ \E a \in Admins : SwapResolveTo(a) \/ SubmitTxn(a) \/ DropTxn(a)
    \/ Mine

Spec == Init /\ [][Next]_vars

(***************************************************************************)
(* Properties.                                                             *)
(***************************************************************************)

\* Once every submitted update is mined, the field holds what the last
\* submitted request asked for, unless that request was sent as -1
\* ("unchanged", it equalled the view when built) and another admin's
\* transaction changed the view before it was submitted: the handler's
\* comparison with the augmented view loses a request only to a stale view.
RequestLostOnlyToStaleView ==
    (/\ mempool = <<>>
     /\ \A a \in Admins : proc[a].pc = "idle"
     /\ params # intended)
        => lastSub.field = -1 /\ lastSub.built # lastSub.submitted

\* A swap that no other swap raced, from its first lookup to its
\* submission, trades the profiles of the usernames it named: the two
\* lookups through the augmented view name the keys those usernames will
\* belong to when the transaction is mined behind everything before it.
SwapTradesNamedProfiles ==
    [][Mine /\ Head(mempool).kind = "swap" /\ ~Head(mempool).raced =>
         LET n == Head(mempool).names
             Key(x, o) == IF x \in PubKeys THEN x ELSE o[x]
         IN  \A u \in Usernames :
               /\ owner[u] = Key(n[1], owner) => owner'[u] = Key(n[2], owner)
               /\ owner[u] = Key(n[2], owner) => owner'[u] = Key(n[1], owner)
      ]_vars
=============================================================================
