--------------------------- MODULE NamespaceLock ---------------------------
(***************************************************************************)
(* Acquiring and giving up the namespace lock.  PostgreSQL polls           *)
(* pg_try_advisory_lock, SQLite polls flock on a lock file beside the      *)
(* database, Oracle waits inside DBMS_LOCK.REQUEST; each waits until it is *)
(* granted or a deadline has passed.  A grant may be lost with its reply,  *)
(* a release may fail, and a runner may die at any point: then the lock    *)
(* stays with the server session, or the process, until that ends.         *)
(*                                                                         *)
(* A lock object is an advisory lock or an inode of the lock file.  Only   *)
(* SQLite's can change: a runner that finds no file creates a new one.     *)
(***************************************************************************)
EXTENDS Naturals, AdapterChoice

CONSTANTS
    Runners,        \* processes that run migrate, again and again
    NoRunner,       \* nobody holds the lock
    MaxWait,        \* bound: the timeout, in poll intervals; any up to it is tried
    MaxObjects      \* bound: inodes of the lock file

ASSUME NoRunnerAssumption == NoRunner \notin Runners
ASSUME BoundsAssumption == MaxWait \in Nat /\ MaxObjects \in Nat \ {0}

Objects == 1 .. MaxObjects

VARIABLES
    file,           \* the object the lock's name means, 0 while there is none
    owner,          \* object -> the runner whose session or descriptor holds it
    state,          \* runner -> see TypeOK
    opened,         \* runner -> the object it asks for
    left,           \* runner -> intervals to its deadline
    session         \* runner -> "none", "live" or, with the client gone, "ending"

vars == <<adapter, file, owner, state, opened, left, session>>

Init ==
    /\ adapter \in Adapters
    /\ file = (IF adapter = "sqlite" THEN 0 ELSE 1)
    /\ owner = [o \in Objects |-> NoRunner]
    /\ state = [r \in Runners |-> "idle"]
    /\ opened = [r \in Runners |-> 1] /\ left = [r \in Runners |-> 0]
    /\ session = [r \in Runners |-> "none"]

-----------------------------------------------------------------------------
(* acquire_lock *)

\* connect, then open the lock file (O_CREAT) and take the deadline.
Ask(r) ==
    /\ state[r] = "idle" /\ session[r] = "none"
    /\ \/ file # 0 /\ opened' = [opened EXCEPT ![r] = file] /\ UNCHANGED file
       \/ /\ file = 0
          /\ \E o \in Objects :
                /\ owner[o] = NoRunner
                /\ \A s \in Runners : session[s] # "none" => opened[s] # o
                /\ file' = o /\ opened' = [opened EXCEPT ![r] = o]
    /\ \E wait \in 0 .. MaxWait : left' = [left EXCEPT ![r] = wait]
    /\ state' = [state EXCEPT ![r] = "waiting"]
    /\ session' = [session EXCEPT ![r] = "live"]
    /\ UNCHANGED <<adapter, owner>>

Free(r) == owner[opened[r]] = NoRunner

\* One try is granted.
Granted(r) ==
    /\ state[r] = "waiting" /\ Free(r)
    /\ owner' = [owner EXCEPT ![opened[r]] = r]
    /\ state' = [state EXCEPT ![r] = "held"]
    /\ UNCHANGED <<adapter, file, opened, left, session>>

\* It is granted, and the connection is lost before the reply (setup_error,
\* exit 1) or the process is interrupted before it noted the grant.
GrantLost(r) ==
    /\ state[r] = "waiting" /\ Free(r)
    /\ owner' = [owner EXCEPT ![opened[r]] = r]
    /\ state' = [state EXCEPT ![r] = "failed"]
    /\ session' = [session EXCEPT ![r] = "ending"]
    /\ UNCHANGED <<adapter, file, opened, left>>

\* Mutant: every interval starts the wait again.
Elapse_Restarted(r) == left' = [left EXCEPT ![r] = @]

\* Sleeping takes an interval, or more when the process is slow.
Elapse(r) == \E n \in 0 .. left[r] - 1 : left' = [left EXCEPT ![r] = n]

\* The lock is taken and the deadline has not passed: sleep, or go on waiting.
Sleep(r) ==
    /\ state[r] = "waiting" /\ ~Free(r) /\ left[r] > 0
    /\ Elapse(r)
    /\ UNCHANGED <<adapter, file, owner, state, opened, session>>

\* Mutant: the deadline is looked at before the lock is tried.
GivesUp_Untried(r) == left[r] = 0

\* The lock is taken and the deadline has passed: LockNotAcquiredError, exit 5.
GivesUp(r) == ~Free(r) /\ left[r] = 0

GiveUp(r) ==
    /\ state[r] = "waiting" /\ GivesUp(r)
    /\ state' = [state EXCEPT ![r] = "gave_up"]
    /\ session' = [session EXCEPT ![r] = "ending"]
    /\ UNCHANGED <<adapter, file, owner, opened, left>>

\* Any other error of a try: setup_error, DBMS_LOCK's return codes 3 to 5.
TryFails(r) ==
    /\ state[r] = "waiting"
    /\ state' = [state EXCEPT ![r] = "failed"]
    /\ session' = [session EXCEPT ![r] = "ending"]
    /\ UNCHANGED <<adapter, file, owner, opened, left>>

-----------------------------------------------------------------------------
(* release_lock and close *)

\* Mutant: the lock file is removed once it is no longer needed.
FileAfterRelease_Unlinked == IF adapter = "sqlite" THEN 0 ELSE file

\* The lock file is created once and never unlinked.
FileAfterRelease == file

\* Mutant: the connection is closed only after a release that worked.
AfterRelease_Kept(released) == IF released THEN "ending" ELSE "live"

\* close ends the session in a finally clause, whatever release_lock did.
AfterRelease(released) == "ending"

\* A failing release is logged.
Release(r) ==
    /\ state[r] = "held"
    /\ \E released \in BOOLEAN :
          /\ owner' = IF released THEN [owner EXCEPT ![opened[r]] = NoRunner] ELSE owner
          /\ session' = [session EXCEPT ![r] = AfterRelease(released)]
    /\ file' = FileAfterRelease
    /\ state' = [state EXCEPT ![r] = "done"]
    /\ UNCHANGED <<adapter, opened, left>>

\* discard, or the process dies: no release is sent.
Vanish(r) ==
    /\ state[r] \in {"waiting", "held"}
    /\ state' = [state EXCEPT ![r] = "failed"]
    /\ session' = [session EXCEPT ![r] = "ending"]
    /\ UNCHANGED <<adapter, file, owner, opened, left>>

\* The server notices that the client is gone, or the process's descriptors are
\* closed: what the session holds is free.
EndSession(r) ==
    /\ session[r] = "ending"
    /\ session' = [session EXCEPT ![r] = "none"]
    /\ owner' = [o \in Objects |-> IF owner[o] = r THEN NoRunner ELSE owner[o]]
    /\ UNCHANGED <<adapter, file, state, opened, left>>

\* Another invocation of migrate.
Rerun(r) ==
    /\ state[r] \in {"gave_up", "failed", "done"} /\ session[r] = "none"
    /\ state' = [state EXCEPT ![r] = "idle"]
    /\ UNCHANGED <<adapter, file, owner, opened, left, session>>

Try(r) == Granted(r) \/ Sleep(r) \/ GiveUp(r)

Next ==
    \E r \in Runners :
        Ask(r) \/ Try(r) \/ GrantLost(r) \/ TryFails(r) \/ Release(r) \/ Vanish(r)
        \/ EndSession(r) \/ Rerun(r)

\* A waiting process keeps polling, and a session without a client comes to an
\* end.  Nothing is assumed of how long a holder works.
Fairness == \A r \in Runners : WF_vars(Try(r)) /\ WF_vars(EndSession(r))

Spec == Init /\ [][Next]_vars /\ Fairness

-----------------------------------------------------------------------------
(* Properties *)

TypeOK ==
    /\ adapter \in Adapters /\ file \in Objects \union {0}
    /\ owner \in [Objects -> Runners \union {NoRunner}]
    /\ state \in [Runners -> {"idle", "waiting", "held", "gave_up", "failed", "done"}]
    /\ opened \in [Runners -> Objects] /\ left \in [Runners -> 0 .. MaxWait]
    /\ session \in [Runners -> {"none", "live", "ending"}]
    /\ \A r \in Runners : state[r] \in {"waiting", "held"} => session[r] = "live"

\* Two runners never hold the namespace at once, and a lock whose release failed
\* or whose grant was never noticed still keeps everybody else out: whoever
\* holds a lock object is alone on it, and all that wait wait for that object
\* (SqliteAdapter.acquire_lock never unlinks its file).
HoldersExclude ==
    \A r \in Runners : state[r] = "held" =>
        /\ owner[opened[r]] = r
        /\ \A s \in Runners \ {r} : state[s] # "held"
        /\ \A s \in Runners : state[s] = "waiting" => opened[s] = opened[r]

\* Exit 5 is given only when somebody else really holds the lock at that moment,
\* with a timeout of zero too (the try comes before the deadline test).
ContentionIsReal ==
    [][\A r \in Runners : state[r] = "waiting" /\ state'[r] = "gave_up"
           => owner[opened[r]] \notin {NoRunner, r}]_vars

\* No wait goes on for ever, however long the holder works: every runner that
\* asks is granted the lock or told that it is taken.
WaitsEnd == \A r \in Runners : state[r] = "waiting" ~> state[r] # "waiting"

\* A run that is over gives the lock back in the end, although its release
\* failed, its reply was lost or it died.
LockComesFree ==
    \A r \in Runners : state[r] \in {"gave_up", "failed", "done"} ~>
                       (state[r] \in {"waiting", "held"} \/ \A o \in Objects : owner[o] # r)

\* An object belongs to a session that opened it.
OwnersHaveSession ==
    \A r \in Runners, o \in Objects : owner[o] = r => session[r] # "none" /\ opened[r] = o

\* Every session opened the object the lock's name means now.
SessionsShareFile == \A r \in Runners : session[r] # "none" => opened[r] = file

\* Holding is owning, and nobody waits for what it owns.
OwnershipKnown ==
    \A r \in Runners :
        /\ state[r] = "held" => owner[opened[r]] = r
        /\ state[r] = "waiting" => owner[opened[r]] # r

\* What every step of acquire_lock, release_lock and close keeps.
IInv == TypeOK /\ OwnersHaveSession /\ SessionsShareFile /\ OwnershipKnown

\* At most one runner holds the namespace (acquire_lock, release_lock).
LockSafety == IInv /\ HoldersExclude

\* And the lock serves: it is refused only while somebody has it, every wait ends,
\* and a run that is over does not keep it.
LockService == ContentionIsReal /\ WaitsEnd /\ LockComesFree

=============================================================================
