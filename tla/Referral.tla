------------------------------- MODULE Referral -------------------------------
(***************************************************************************)
(* The referral-link admin endpoints of src/unnamed/part_001 over the      *)
(* global-state key/value store.  A link is stored under two keys:         *)
(*   ReferralHash -> ReferralInfo        (putReferralHashWithInfo)         *)
(*   (PKID, ReferralHash) -> IsActive    (setReferralHashStatusForPKID)    *)
(* Every handler reads and writes these keys with separate Get and Put     *)
(* calls, and the HTTP server runs requests concurrently, so each admin    *)
(* request is a process whose store accesses are separate steps.  Every    *)
(* Put may fail.                                                           *)
(*                                                                         *)
(* The amounts, MaxReferrals and RequiresJumio of a ReferralInfo are one   *)
(* value `terms`; the stats fields, written by the referral flow outside   *)
(* these files, are left out.                                              *)
(***************************************************************************)
EXTENDS Naturals, Sequences, FiniteSets

CONSTANTS
    Admins,          \* concurrent admin requests
    Hashes,          \* the 8-character referral hashes
    PKIDs,           \* referrers
    Terms,           \* amounts, MaxReferrals, RequiresJumio
    Nil,             \* no value under a key
    BadBool,         \* a boolean column that strconv.ParseBool rejects
    HashCollisions,  \* whether generateNewReferralHash may return a hash in use
    MaxRequests,     \* requests each admin sends
    MaxRows          \* data rows of an uploaded CSV

ASSUME HashCollisions \in BOOLEAN /\ MaxRequests \in Nat /\ MaxRows \in Nat \ {0}

Absent == Nil   \* no status key
Infos == [referrer : PKIDs, terms : Terms]
\* A CSV data row: hash "" asks for a new link; `valid` is whether its PKID,
\* amounts, RequiresJumio and timestamp parse; `active` is its IsActive
\* column, "" read as true, or one that does not parse.
NewHash == "new"
Rows == [hash : Hashes \cup {NewHash}, pkid : PKIDs, terms : Terms,
         active : BOOLEAN \cup {BadBool}, valid : BOOLEAN]
Idle == [pc |-> "idle"]
\* A ReferralInfo{} with no fields set: what a read shows for a missing info.
ZeroInfo == [referrer |-> Nil, terms |-> Nil]

VARIABLES
    info,      \* ReferralHash -> ReferralInfo
    status,    \* <<PKID, ReferralHash>> -> IsActive
    proc,      \* each admin request: its pc and locals
    served,    \* requests each admin has sent
    owner      \* history: the referrer the last Create or CSV row wrote per hash

vars == <<info, status, proc, served, owner>>

(***************************************************************************)
(* Store helpers.                                                          *)
(***************************************************************************)
\* generateNewReferralHash: 8 random Base58 characters, never checked
\* against the hashes in use.
GenerateNewReferralHash ==
    IF HashCollisions THEN Hashes ELSE {h \in Hashes : info[h] = Nil}

\* putReferralHashWithInfo, when the Put succeeds.
PutReferralHashWithInfo(h, i) == info' = [info EXCEPT ![h] = i]

\* setReferralHashStatusForPKID, when the Put succeeds.
SetReferralHashStatusForPKID(p, h, active) == status' = [status EXCEPT ![<<p, h>>] = active]

Return(a) == proc' = [proc EXCEPT ![a] = Idle]

(***************************************************************************)
(* AdminCreateReferralHash.  Decoding, the amount limit and the PKID       *)
(* lookup come first and touch no key; p = Nil is a user with no PKID.     *)
(***************************************************************************)
AdminCreateReferralHash(a, p, t) ==
    /\ proc[a] = Idle
    /\ served[a] < MaxRequests
    /\ served' = [served EXCEPT ![a] = @ + 1]
    /\ IF p = Nil
       THEN UNCHANGED <<info, proc, owner>>
       ELSE \E h \in GenerateNewReferralHash :
              \/ /\ PutReferralHashWithInfo(h, [referrer |-> p, terms |-> t])
                 /\ owner' = [owner EXCEPT ![h] = p]
                 /\ proc' = [proc EXCEPT ![a] = [pc |-> "create_status", hash |-> h, pkid |-> p]]
              \/ UNCHANGED <<info, proc, owner>>   \* the Put fails
    /\ UNCHANGED status

\* Set this as a new active referral hash for the user.
CreateSetStatus(a) ==
    /\ proc[a].pc = "create_status"
    /\ \/ SetReferralHashStatusForPKID(proc[a].pkid, proc[a].hash, TRUE)
       \/ UNCHANGED status                          \* the Put fails
    /\ Return(a)
    /\ UNCHANGED <<info, served, owner>>

(***************************************************************************)
(* AdminUpdateReferralHash: get the info, copy it, overwrite the terms,    *)
(* put the copy, then set the status under the copy's referrer.           *)
(***************************************************************************)
\* Mutant: a missing info read as an empty ReferralInfo instead of an error.
AdminUpdateReferralHashZeroInfo(a, h, t, active) ==
    /\ proc[a] = Idle
    /\ served[a] < MaxRequests
    /\ served' = [served EXCEPT ![a] = @ + 1]
    /\ proc' = [proc EXCEPT ![a] = [pc |-> "update_info", hash |-> h, active |-> active,
                                      copy |-> [IF info[h] = Nil THEN ZeroInfo ELSE info[h]
                                                EXCEPT !.terms = t]]]
    /\ UNCHANGED <<info, status, owner>>

AdminUpdateReferralHash(a, h, t, active) ==
    /\ proc[a] = Idle
    /\ served[a] < MaxRequests
    /\ served' = [served EXCEPT ![a] = @ + 1]
    /\ IF info[h] = Nil                             \* getInfoForReferralHashBase58 fails
       THEN UNCHANGED proc
       ELSE proc' = [proc EXCEPT ![a] = [pc |-> "update_info", hash |-> h, active |-> active,
                                          copy |-> [info[h] EXCEPT !.terms = t]]]
    /\ UNCHANGED <<info, status, owner>>

UpdatePutInfo(a) ==
    /\ proc[a].pc = "update_info"
    /\ \/ /\ PutReferralHashWithInfo(proc[a].hash, proc[a].copy)
          /\ proc' = [proc EXCEPT ![a].pc = "update_status"]
       \/ /\ Return(a)                              \* the Put fails
          /\ UNCHANGED info
    /\ UNCHANGED <<status, served, owner>>

UpdateSetStatus(a) ==
    /\ proc[a].pc = "update_status"
    /\ \/ SetReferralHashStatusForPKID(proc[a].copy.referrer, proc[a].hash, proc[a].active)
       \/ UNCHANGED status                          \* the Put fails
    /\ Return(a)
    /\ UNCHANGED <<info, served, owner>>

(***************************************************************************)
(* AdminUploadReferralCSV: after the JWT, super-admin, file and header     *)
(* checks, updateOrCreateReferralInfoFromCSVRow runs on each data row in   *)
(* order; the first row that fails ends the request, leaving the rows      *)
(* before it written.                                                      *)
(***************************************************************************)
AdminUploadReferralCSV(a, rows) ==
    /\ proc[a] = Idle
    /\ served[a] < MaxRequests
    /\ served' = [served EXCEPT ![a] = @ + 1]
    /\ \/ proc' = [proc EXCEPT ![a] = [pc |-> "row", rows |-> rows]]
       \/ UNCHANGED proc                            \* a check before the rows fails
    /\ UNCHANGED <<info, status, owner>>

\* updateOrCreateReferralInfoFromCSVRow up to its first Put: a fresh hash for
\* a new link, or a Get of the existing one; then the fields are parsed.
RowStart(a) ==
    LET r == Head(proc[a].rows)
        Continue(h) == proc' = [proc EXCEPT ![a] = [pc |-> "row_info", hash |-> h, rows |-> @.rows]]
    IN  /\ proc[a].pc = "row"
        /\ IF r.hash = NewHash
           THEN \E h \in GenerateNewReferralHash :
                  IF r.valid THEN Continue(h) ELSE Return(a)
           ELSE IF info[r.hash] # Nil /\ r.valid THEN Continue(r.hash) ELSE Return(a)
        /\ UNCHANGED <<info, status, served, owner>>

\* Mutant: an error of the info Put ignored, as that of the status Put is.
RowPutInfoIgnoringError(a) ==
    LET r == Head(proc[a].rows)
        h == proc[a].hash
    IN  /\ proc[a].pc = "row_info"
        /\ \/ /\ PutReferralHashWithInfo(h, [referrer |-> r.pkid, terms |-> r.terms])
              /\ owner' = [owner EXCEPT ![h] = r.pkid]
           \/ UNCHANGED <<info, owner>>
        /\ proc' = [proc EXCEPT ![a].pc = "row_status"]
        /\ UNCHANGED <<status, served>>

\* The info written takes the row's PKID and terms.  IsActive is parsed only
\* after this Put: a row whose IsActive does not parse ends the upload with
\* its info written and no status set.
RowPutInfo(a) ==
    LET r == Head(proc[a].rows)
        h == proc[a].hash
    IN  /\ proc[a].pc = "row_info"
        /\ \/ /\ PutReferralHashWithInfo(h, [referrer |-> r.pkid, terms |-> r.terms])
              /\ owner' = [owner EXCEPT ![h] = r.pkid]
              /\ IF r.active = BadBool
                 THEN Return(a)
                 ELSE proc' = [proc EXCEPT ![a].pc = "row_status"]
           \/ /\ Return(a)                          \* the Put fails
              /\ UNCHANGED <<info, owner>>
        /\ UNCHANGED <<status, served>>

\* The status is set under the row's PKID; an error of this Put is ignored,
\* and the upload goes on to the next row.
RowSetStatus(a) ==
    LET r == Head(proc[a].rows)
        rest == Tail(proc[a].rows)
    IN  /\ proc[a].pc = "row_status"
        /\ \/ SetReferralHashStatusForPKID(r.pkid, proc[a].hash, r.active)
           \/ UNCHANGED status                      \* the Put fails
        /\ IF rest = <<>> THEN Return(a)
           ELSE proc' = [proc EXCEPT ![a] = [pc |-> "row", rows |-> rest]]
        /\ UNCHANGED <<info, served, owner>>

Uploads == UNION {[1..n -> Rows] : n \in 1..MaxRows}

Init ==
    /\ info = [h \in Hashes |-> Nil]
    /\ status = [k \in PKIDs \X Hashes |-> Absent]
    /\ proc = [a \in Admins |-> Idle]
    /\ served = [a \in Admins |-> 0]
    /\ owner = [h \in Hashes |-> Nil]

Next ==
    \E a \in Admins :
        \/ \E p \in PKIDs \cup {Nil}, t \in Terms : AdminCreateReferralHash(a, p, t)
        \/ CreateSetStatus(a)
        \/ \E h \in Hashes, t \in Terms, active \in BOOLEAN : AdminUpdateReferralHash(a, h, t, active)
        \/ UpdatePutInfo(a)
        \/ UpdateSetStatus(a)
        \/ \E rows \in Uploads : AdminUploadReferralCSV(a, rows)
        \/ RowStart(a)
        \/ RowPutInfo(a)
        \/ RowSetStatus(a)

Spec == Init /\ [][Next]_vars

(***************************************************************************)
(* The two reads an admin sees a link through.                             *)
(***************************************************************************)
InfoOrZero(h) == IF info[h] = Nil THEN ZeroInfo ELSE info[h]

\* getReferralInfoResponsesForPubKey (AdminGetAllReferralInfoForUser): a seek
\* of the user's status keys, and a Get of the info of each hash found.
ListingFor(p) ==
    {[hash |-> h, isActive |-> status[<<p, h>>], info |-> InfoOrZero(h)] :
        h \in {x \in Hashes : status[<<p, x>>] # Absent}}

\* AdminDownloadReferralCSV: a seek of every info, and a BatchGet of the
\* status key under the referrer each info names; a missing key reads as
\* false (ReadBoolByte of no bytes).
DownloadRows ==
    {[hash |-> h, info |-> info[h], isActive |-> status[<<info[h].referrer, h>>] = TRUE] :
        h \in {x \in Hashes : info[x] # Nil}}

(***************************************************************************)
(* Properties.                                                             *)
(***************************************************************************)
Procs == {Idle}
    \cup [pc : {"create_status"}, hash : Hashes, pkid : PKIDs]
    \cup [pc : {"update_info", "update_status"}, hash : Hashes, active : BOOLEAN, copy : Infos]
    \cup [pc : {"row"}, rows : Uploads]
    \cup [pc : {"row_info", "row_status"}, hash : Hashes, rows : Uploads]

TypeOK ==
    /\ info \in [Hashes -> Infos \cup {Nil}]
    /\ status \in [PKIDs \X Hashes -> BOOLEAN \cup {Absent}]
    /\ proc \in [Admins -> Procs]
    /\ served \in [Admins -> 0..MaxRequests]
    /\ owner \in [Hashes -> PKIDs \cup {Nil}]

\* Every link a user's listing shows has its ReferralInfo: each handler puts
\* the info before it sets a status key, so no order of requests, failed
\* Puts included, makes AdminGetAllReferralInfoForUser decode a missing info
\* into an empty ReferralInfo.
ListingNeverShowsMissingInfo ==
    \A p \in PKIDs : \A e \in ListingFor(p) : e.info # ZeroInfo

\* The links a user's listing shows are links whose info names that user as
\* referrer, and the listing and the CSV download agree on whether each is
\* active.
ListingAgreesWithDownload ==
    \A p \in PKIDs : \A e \in ListingFor(p) :
        /\ e.info.referrer = p
        /\ \A d \in DownloadRows : d.hash = e.hash => d.isActive = (e.isActive = TRUE)

\* AdminUpdateReferralHash changes only the amounts, MaxReferrals,
\* RequiresJumio and status of a link: the referrer of every link is the one
\* the last AdminCreateReferralHash or CSV row for it wrote.
UpdateKeepsReferrer ==
    \A h \in Hashes : info[h] # Nil => info[h].referrer = owner[h]

\* AdminUploadReferralCSV counts a row in LinksCreated or LinksUpdated once
\* updateOrCreateReferralInfoFromCSVRow returns nil: a row's step that moves
\* the upload past it leaves the link's status key at the row's IsActive
\* under the row's PKID.
RowCountedIsApplied ==
    [][\A a \in Admins :
         (proc[a].pc = "row_status" /\ proc'[a] # proc[a])
            => status'[<<Head(proc[a].rows).pkid, proc[a].hash>>] = Head(proc[a].rows).active
      ]_vars

=============================================================================
