----------------------------- MODULE TrustedKeys -----------------------------
(***************************************************************************)
(* Which keys a token may be signed with (api/auth.py and the trusted      *)
(* clients of storage/repository.py): the bootstrap key, a file that is    *)
(* replaced while the Backend runs, and the keys of clients, rows that     *)
(* superusers write and revoke in concurrent transactions.                 *)
(*                                                                         *)
(* The key file is replaced by renaming a complete file over it.           *)
(***************************************************************************)
EXTENDS Naturals

CONSTANTS
    FileKeys,       \* keys the bootstrap file may hold
    ClientKeys,     \* keys a client may have
    Admins,         \* superusers, each with one transaction at a time
    None,           \* no key, no time limit
    Bad,            \* a file that is not a key
    Grace,          \* previous_key_grace_seconds
    Interval,       \* reload_interval_seconds
    MaxTime,        \* bound on the clock
    MaxWrites       \* bound on replacements of the file, and on transactions

VARIABLES
    now,
    file,           \* what the file holds, and its signature
    active,         \* _active: key and signature
    previous,       \* _previous and _previous_expires_at
    nextCheck,      \* _next_reload_check
    noticed,        \* when each key was last replaced, and by which file
    user,           \* the row of the client: absent, enabled, disabled
    row,            \* the rows of its keys
    transaction,    \* what each superuser's transaction has read
    lastWrite,      \* the last committed transaction: its kind, key and time
    writes

fileVars == <<file, active, previous, nextCheck, noticed>>
clientVars == <<user, row, transaction, lastWrite>>
vars == <<now, fileVars, clientVars, writes>>

NoKey == [key |-> None, until |-> 0]
NotReplaced == [at |-> 0, by |-> 0]
Absent == [enabled |-> FALSE, until |-> None, there |-> FALSE]
NoTransaction == [kind |-> "none"]

Init ==
    /\ now = 0
    /\ file = [key |-> CHOOSE k \in FileKeys : TRUE, signature |-> 0]
    /\ active = file
    /\ previous = NoKey
    /\ nextCheck = 0
    /\ noticed = [k \in FileKeys |-> NotReplaced]
    /\ user = "absent"
    /\ row = [k \in ClientKeys |-> Absent]
    /\ transaction = [a \in Admins |-> NoTransaction]
    /\ lastWrite = [kind |-> "none", key |-> None, at |-> 0]
    /\ writes = 0

Tick ==
    /\ now < MaxTime
    /\ now' = now + 1
    /\ UNCHANGED <<fileVars, clientVars, writes>>

-----------------------------------------------------------------------------
(* The bootstrap key.                                                      *)

\* The operator puts another file in its place.
ReplaceFile ==
    /\ writes < MaxWrites
    /\ \E k \in FileKeys \cup {Bad} :
        file' = [key |-> k, signature |-> file.signature + 1]
    /\ writes' = writes + 1
    /\ UNCHANGED <<now, active, previous, nextCheck, noticed, clientVars>>

\* _expire_previous.
ExpirePrevious(p) == IF now >= p.until THEN NoKey ELSE p

\* refresh: every Interval the file is looked at.  A file that is not a key leaves
\* the active one, and another key makes it the previous one for a Grace.
Refreshed ==
    LET same == file.signature = active.signature
        rotated == ~same /\ file.key \notin {Bad, active.key}
    IN IF now < nextCheck
       THEN [active |-> active, previous |-> previous,
             nextCheck |-> nextCheck, noticed |-> noticed]
       ELSE [active |-> IF file.key = Bad THEN active ELSE file,
             previous |-> IF rotated THEN [key |-> active.key, until |-> now + Grace]
                          ELSE IF same \/ file.key # Bad THEN ExpirePrevious(previous) ELSE previous,
             nextCheck |-> now + Interval,
             noticed |-> IF rotated
                         THEN [noticed EXCEPT ![active.key] = [at |-> now, by |-> file.signature]]
                         ELSE noticed]

\* Variant: only a look at the file drops a key that has expired.
KeepPrevious == Refreshed.previous

\* verify_token drops it too, whether the file was looked at or not.
PreviousAtVerify == ExpirePrevious(Refreshed.previous)

\* _verify_any_trusted_key and verify_token: what a token with a key ID meets.
Verify ==
    /\ active' = Refreshed.active
    /\ previous' = PreviousAtVerify
    /\ nextCheck' = Refreshed.nextCheck
    /\ noticed' = Refreshed.noticed
    /\ UNCHANGED <<now, file, clientVars, writes>>

\* The bootstrap keys a token is verified with, if it comes now.
BootstrapKeys ==
    {Refreshed.active.key, PreviousAtVerify.key} \ {None}

-----------------------------------------------------------------------------
(* The keys of a client.  A transaction reads the rows it may change before *)
(* it holds the row of the user: what it then writes of them is what        *)
(* differs from what it read.                                               *)

\* get_trusted_client_by_key_id.
Trusted(k) ==
    /\ user = "enabled"
    /\ row[k].enabled
    /\ row[k].until = None \/ row[k].until > now

Begin(a, t) ==
    /\ transaction[a] = NoTransaction
    /\ writes < MaxWrites
    /\ writes' = writes + 1
    /\ transaction' = [transaction EXCEPT ![a] = t]
    /\ UNCHANGED <<now, fileVars, user, row, lastWrite>>

BeginUpsert(a) ==
    \E k \in ClientKeys :
        Begin(a, [kind |-> "upsert", key |-> k, user |-> user, row |-> row[k], at |-> now])

BeginRevoke(a) ==
    Begin(a, [kind |-> "revoke", key |-> None, user |-> user, row |-> Absent, at |-> now])

\* The user that was not there is inserted; another transaction may have been first.
InsertFails(t) == t.user = "absent" /\ user # "absent"

\* The other keys of the client that are still good.
CurrentKeys(t) ==
    {k \in ClientKeys \ {t.key} :
        row[k].enabled /\ (row[k].until = None \/ row[k].until > t.at)}

\* The row of the key: only the columns that differ from what was read.  One that was
\* not there is read again now: it is inserted, or, when another transaction
\* committed it meanwhile, overwritten.
WrittenRow(t) ==
    IF ~t.row.there THEN [enabled |-> TRUE, until |-> None, there |-> TRUE]
    ELSE [enabled |-> IF t.row.enabled THEN row[t.key].enabled ELSE TRUE,
          until |-> IF t.row.until = None THEN row[t.key].until ELSE None,
          there |-> TRUE]

\* upsert_trusted_client, from the lock of the user to the commit.
Upsert(a) ==
    LET t == transaction[a] IN
    /\ t.kind = "upsert" /\ ~InsertFails(t)
    /\ user' = IF t.user = "enabled" THEN user ELSE "enabled"
    /\ row' = [k \in ClientKeys |->
                  IF k = t.key THEN WrittenRow(t)
                  ELSE IF k \in CurrentKeys(t) THEN [row[k] EXCEPT !.until = t.at + Grace]
                  ELSE row[k]]
    /\ lastWrite' = [kind |-> "upsert", key |-> t.key, at |-> t.at]
    /\ transaction' = [transaction EXCEPT ![a] = NoTransaction]
    /\ UNCHANGED <<now, fileVars, writes>>

\* revoke_trusted_client.
Revoke(a) ==
    LET t == transaction[a] IN
    /\ t.kind = "revoke" /\ t.user # "absent"
    /\ user' = IF t.user = "enabled" THEN "disabled" ELSE user
    /\ row' = [k \in ClientKeys |-> [row[k] EXCEPT !.enabled = FALSE]]
    /\ lastWrite' = [kind |-> "revoke", key |-> None, at |-> t.at]
    /\ transaction' = [transaction EXCEPT ![a] = NoTransaction]
    /\ UNCHANGED <<now, fileVars, writes>>

\* Not found, a conflict, or a lost connection: nothing is written.
Abort(a) ==
    /\ transaction[a] # NoTransaction
    /\ transaction' = [transaction EXCEPT ![a] = NoTransaction]
    /\ UNCHANGED <<now, fileVars, user, row, lastWrite, writes>>

-----------------------------------------------------------------------------
Next ==
    \/ Tick \/ ReplaceFile \/ Verify
    \/ \E a \in Admins :
        BeginUpsert(a) \/ BeginRevoke(a) \/ Upsert(a) \/ Revoke(a) \/ Abort(a)

Spec == Init /\ [][Next]_vars

-----------------------------------------------------------------------------
\* Of the bootstrap keys that were replaced, the one whose replacement was noticed
\* last is accepted until its grace ends, to the second and whether or not the
\* file has been looked at since, and no other is.
BootstrapGraceIsExact ==
    LET seen == Refreshed.noticed
        gone == {k \in FileKeys : seen[k].by > 0}
        last == {k \in gone : \A j \in gone : seen[j].by <= seen[k].by}
    IN BootstrapKeys = {Refreshed.active.key} \cup {k \in last : now < seen[k].at + Grace}

\* Whatever transactions overlap, a client whose revocation was committed last has
\* no trusted key, and a key other than the one written last is trusted for no
\* longer than the grace of that write.
ClientKeysFollowTheLastWrite ==
    \A k \in ClientKeys : Trusted(k) =>
        /\ lastWrite.kind = "upsert"
        /\ k # lastWrite.key => now < lastWrite.at + Grace

-----------------------------------------------------------------------------
(* What the two rest on.                                                   *)

\* The previous key is the one that was replaced last, and its limit is that of
\* its replacement; without one, every grace is over.
GraceKept(p, seen) ==
    \/ p = NoKey /\ \A k \in FileKeys : seen[k].by > 0 => now >= seen[k].at + Grace
    \/ /\ p = [key |-> p.key, until |-> seen[p.key].at + Grace]
       /\ p.key \in FileKeys /\ seen[p.key].by > 0
       /\ \A k \in FileKeys \ {p.key} :
            seen[k].by < seen[p.key].by /\ seen[k].at <= seen[p.key].at

\* Replacements are noticed in the order of the files, none of them ahead of the
\* active one or of the clock.
FileInvariant ==
    /\ now \in Nat /\ nextCheck \in Nat
    /\ file \in [key : FileKeys \cup {Bad}, signature : Nat]
    /\ active \in [key : FileKeys, signature : 0..file.signature]
    /\ noticed \in [FileKeys -> [at : 0..now, by : 0..active.signature]]
    /\ GraceKept(previous, noticed)

KeyRows == [enabled : BOOLEAN, until : Nat \cup {None}, there : BOOLEAN]
Transactions ==
    {NoTransaction}
    \cup [kind : {"upsert"}, key : ClientKeys, user : {"absent", "enabled", "disabled"},
           row : KeyRows, at : Nat]
    \cup [kind : {"revoke"}, key : {None}, user : {"absent", "enabled", "disabled"},
           row : {Absent}, at : Nat]

\* A key that the last write did not name is off, or ends with that write's grace.
ClientInvariant ==
    /\ now \in Nat
    /\ user \in {"absent", "enabled", "disabled"}
    /\ row \in [ClientKeys -> KeyRows]
    /\ transaction \in [Admins -> Transactions]
    /\ lastWrite \in [kind : {"none", "upsert", "revoke"}, key : ClientKeys \cup {None}, at : Nat]
    /\ \A k \in ClientKeys : row[k].enabled =>
        /\ lastWrite.kind = "upsert"
        /\ k # lastWrite.key => row[k].until \in Nat /\ row[k].until <= lastWrite.at + Grace

=============================================================================
