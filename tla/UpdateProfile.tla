---------------------------- MODULE UpdateProfile ----------------------------
(***************************************************************************)
(* toolslib.UpdateProfile (src/scripts/tools/toolslib/update_profile.go):  *)
(* ask a node for an unsigned UpdateProfile transaction over HTTP, sign    *)
(* it, and submit it back.  The node is an environment: it answers a POST  *)
(* with a status and a body, or the POST fails; it accepts a submitted     *)
(* transaction only if it is signed and its inputs are still unspent,      *)
(* which another transaction of the same key (Other) may have changed.    *)
(* Every call the code makes can fail; each failure is a disjunct.         *)
(***************************************************************************)
EXTENDS Naturals

CONSTANTS
    Statuses,        \* HTTP status codes the node may answer with
    MaxOtherTxns     \* other transactions of the updater the node may see

ASSUME 200 \in Statuses /\ MaxOtherTxns \in Nat

VARIABLES
    pc,        \* where the client is
    result,    \* what UpdateProfile returned: "none" until it returns
    body,      \* the response body of the POST: "none", "open", "drained" (read to EOF), "closed"
    txn,       \* the transaction the client holds, or None
    utxo,      \* the version of the updater's spendable inputs at the node
    profile    \* whether the node has applied the profile update

vars == <<pc, result, body, txn, utxo, profile>>

None == [none |-> TRUE]

Return(r) == /\ result' = r /\ pc' = "done"

Init ==
    /\ pc = "post"
    /\ result = "none"
    /\ body = "none"
    /\ txn = None
    /\ utxo = 0
    /\ profile = "old"

\* _generateUnsignedUpdateProfile: marshal the request (an error returns)
\* and send it with http.Post, which then waits for the node.
Post ==
    /\ pc = "post"
    /\ \/ Return("error")                         \* json.Marshal fails
       \/ pc' = "await" /\ UNCHANGED result
    /\ UNCHANGED <<body, txn, utxo, profile>>

\* The node's answer, built from the inputs it sees now, or a failed
\* connection.  The default http client has no timeout: nothing makes the
\* answer come.
Answer ==
    /\ pc = "await"
    /\ \/ /\ Return("error")                      \* http.Post fails
          /\ UNCHANGED <<body, txn>>
       \/ \E s \in Statuses :
            /\ body' = "open"
            /\ txn' = [inputs |-> utxo, signed |-> FALSE, status |-> s]
            /\ pc' = "status"
            /\ UNCHANGED result
    /\ UNCHANGED <<utxo, profile>>

\* A status other than 200: read the body to EOF into the error and return,
\* without closing it.
CheckStatus ==
    /\ pc = "status"
    /\ IF txn.status # 200
       THEN Return("error") /\ txn' = None /\ body' = "drained"
       ELSE pc' = "decode" /\ UNCHANGED <<result, txn, body>>
    /\ UNCHANGED <<utxo, profile>>

\* json.NewDecoder(resp.Body).Decode: fails on a malformed body.
DecodeBody ==
    /\ pc = "decode"
    /\ \/ Return("error") /\ txn' = None
       \/ pc' = "close" /\ UNCHANGED <<result, txn>>
    /\ UNCHANGED <<body, utxo, profile>>

\* resp.Body.Close; its error is returned too.
CloseBody ==
    /\ pc = "close"
    /\ body' = "closed"
    /\ \/ Return("error") /\ txn' = None
       \/ pc' = "sign" /\ UNCHANGED <<result, txn>>
    /\ UNCHANGED <<utxo, profile>>

\* UpdateProfile: txn.Sign(updaterPrivKey); txn.Signature = signature.
Sign ==
    /\ pc = "sign"
    /\ \/ Return("error") /\ UNCHANGED txn
       \/ pc' = "submit" /\ txn' = [txn EXCEPT !.signed = TRUE] /\ UNCHANGED result
    /\ UNCHANGED <<body, utxo, profile>>

\* The node's verdict on a submitted transaction.
Accepted(t) == t.signed /\ t.inputs = utxo

\* Mutant: the error of SubmitTransactionToNode not checked.
SubmitIgnoringError ==
    /\ pc = "submit"
    /\ \/ /\ Accepted(txn)
          /\ profile' = "new"
          /\ utxo' = utxo + 1
       \/ UNCHANGED <<profile, utxo>>
    /\ Return("ok")
    /\ UNCHANGED <<body, txn>>

\* SubmitTransactionToNode: the request may not reach the node; the node
\* applies the transaction if it accepts it; its answer may be lost.
Submit ==
    /\ pc = "submit"
    /\ \/ /\ Accepted(txn)
          /\ profile' = "new"
          /\ utxo' = utxo + 1
          /\ \/ Return("ok")
             \/ Return("error")                     \* the answer is lost
       \/ /\ Return("error")                        \* rejected, or never arrived
          /\ UNCHANGED <<profile, utxo>>
    /\ UNCHANGED <<body, txn>>

\* Another transaction of the updater reaches the node and spends the
\* inputs an unsigned transaction was built from.
Other ==
    /\ utxo < MaxOtherTxns
    /\ utxo' = utxo + 1
    /\ UNCHANGED <<pc, result, body, txn, profile>>

Next == Post \/ Answer \/ CheckStatus \/ DecodeBody \/ CloseBody \/ Sign \/ Submit \/ Other

\* The client's own steps wait on nothing; the node's answers to the POST
\* and to the submission are not assumed to come.
Spec == Init /\ [][Next]_vars
        /\ WF_vars(Post \/ CheckStatus \/ DecodeBody \/ CloseBody \/ Sign)

(***************************************************************************)
(* Properties.                                                             *)
(***************************************************************************)
\* UpdateProfile implements its promise: nil means the node applied the
\* update, and the update is applied at most once, whatever the node answers,
\* loses or spends in between.
Abstract == INSTANCE UpdateProfileSpec WITH profile <- profile, result <- result
UpdateProfileRefinesSpec == Abstract!Spec

\* net/http: the caller must close every response body it gets; one that
\* is neither closed nor read to EOF keeps its connection, which leaks.
\* Every return of _generateUnsignedUpdateProfile after a response has
\* arrived leaves the body closed or drained.
BodyClosedOnReturn == pc = "done" => body # "open"
=============================================================================
