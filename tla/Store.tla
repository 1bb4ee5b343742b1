------------------------------- MODULE Store --------------------------------
(***************************************************************************)
(* The phone's memory of its desks: src/internal/store/store.go, a cache   *)
(* written through to a key/value file, and the operations that run over   *)
(* it: a pairing (src/app/pair.go), and forgetting a device and switching  *)
(* desk (src/app/more.go).  The pin that the reconnect loop may write is in *)
(* module Connection, with the race of it and a forget.                    *)
(*                                                                         *)
(* The mutex covers one get, put or del.  An operation is several of them, *)
(* so operations of different threads interleave, and the process can be   *)
(* killed anywhere, also inside a put, between its DELETE and its INSERT.  *)
(* A row is present or absent; an empty list and no active desk stand for  *)
(* the absence of those two rows.                                          *)
(***************************************************************************)
EXTENDS Naturals, Sequences, SequencesExt

CONSTANTS
    Endpoint,     \* the desks, by id
    NoEndpoint

ASSUME EndpointAssumption == NoEndpoint \notin Endpoint

Rows == [list : Seq(Endpoint), active : Endpoint \cup {NoEndpoint},
         tokens : SUBSET Endpoint, pins : SUBSET Endpoint]

\* The UI executor and the goroutine of a pairing.
Thread == {"ui", "pair"}
Nobody == "nobody"

VARIABLES
    mem,          \* s.mem, the cache
    file,         \* the rows of the file
    task,         \* [Thread -> the operation it is in]
    lock,         \* the thread between the DELETE and the INSERT of a put
    \* history: a write failed or was cut in two; an operation overlapped
    \* another of its desk or wrote a list that was not the latest; the desks
    \* whose last operation was a pairing that succeeded, or a forget
    torn, raced, saved, forgot

histVars == <<torn, raced, saved, forgot>>
vars == <<mem, file, task, lock, histVars>>

Blank == [list |-> <<>>, active |-> NoEndpoint, tokens |-> {}, pins |-> {}]

\* The accesses of an operation, in the order of the code: "read" decodes the
\* list, the others write the row.  TokenLast, a mutant, stores the credential
\* after the desk is active.
TokenLast(op) ==
    CASE op = "pair"   -> <<"pin", "read", "list", "active", "token">>
      [] op = "forget" -> <<"read", "list", "token", "pin", "active">>
      [] op = "switch" -> <<"read", "active">>
      [] op = "none"   -> <<>>

Steps(op) ==
    CASE op = "pair"   -> <<"pin", "token", "read", "list", "active">>
      [] op = "forget" -> <<"read", "list", "token", "pin", "active">>
      [] op = "switch" -> <<"read", "active">>
      [] op = "none"   -> <<>>

Task == [op : {"none", "pair", "forget", "switch"}, n : 1..5,
         e : Endpoint \cup {NoEndpoint}, list : Seq(Endpoint)]

Idle == [op |-> "none", n |-> 1, e |-> NoEndpoint, list |-> <<>>]

TypeOK ==
    /\ mem \in Rows /\ file \in Rows
    /\ \A r \in {mem, file} : IsInjective(r.list)    \* one entry a desk
    /\ task \in [Thread -> Task]
    /\ \A t \in Thread : task[t].n \in 1..Len(Steps(task[t].op)) \/ task[t] = Idle
    /\ lock \in Thread \cup {Nobody}
    /\ torn \in BOOLEAN /\ raced \in BOOLEAN
    /\ saved \in SUBSET Endpoint /\ forgot \in SUBSET Endpoint

Init ==
    /\ mem = Blank /\ file = Blank
    /\ task = [t \in Thread |-> Idle] /\ lock = Nobody
    /\ torn = FALSE /\ raced = FALSE /\ saved = {} /\ forgot = {}

-----------------------------------------------------------------------------
(* Rows.                                                                   *)

Without(r, k, e) ==
    CASE k = "list"   -> [r EXCEPT !.list = <<>>]
      [] k = "active" -> [r EXCEPT !.active = NoEndpoint]
      [] k = "token"  -> [r EXCEPT !.tokens = @ \ {e}]
      [] k = "pin"    -> [r EXCEPT !.pins = @ \ {e}]

With(r, k, e, list) ==
    CASE k = "list"   -> [r EXCEPT !.list = list]
      [] k = "active" -> [r EXCEPT !.active = e]
      [] k = "token"  -> [r EXCEPT !.tokens = @ \cup {e}]
      [] k = "pin"    -> [r EXCEPT !.pins = @ \cup {e}]

\* AddEndpoint replaces the desk's entry or appends one; RemoveEndpoint drops
\* it, the only one (TypeOK).  AppendsAgain, a mutant, does not look for it.
AppendsAgain(list, e) == Append(list, e)
Added(list, e)        == IF Contains(list, e) THEN list ELSE Append(list, e)
Kept(list, e)         == IF Contains(list, e) THEN RemoveAt(list, CHOOSE i \in 1..Len(list) : list[i] = e) ELSE list

Row(t) == Steps(task[t].op)[task[t].n]
At(t, rows) == task[t].op # "none" /\ Row(t) \in rows

\* The list an operation makes of the one it read, and the desk that a put of
\* the active row names.
NextList(t)   == CASE task[t].op = "pair"   -> Added(mem.list, task[t].e)
                   [] task[t].op = "forget" -> Kept(mem.list, task[t].e)
                   [] task[t].op = "switch" -> <<>>
NextActive(t) == IF task[t].op = "forget" THEN Head(task[t].list) ELSE task[t].e
Subject(t)    == IF Row(t) = "active" THEN NextActive(t) ELSE task[t].e

\* RemoveEndpoint deletes the rows of the desk, and the two others with the
\* last desk; every other access is a put.
KeepsThePin(t) ==
    task[t].op = "forget" /\ (Row(t) = "token" \/ task[t].list = <<>>)
Deletes(t) ==
    task[t].op = "forget" /\ (Row(t) \in {"token", "pin"} \/ task[t].list = <<>>)

\* Of a desk nothing is recalled after a torn write or a race.
Recalled(desks) == IF torn' \/ raced' THEN {} ELSE desks
Remembers == saved' = Recalled(saved) /\ forgot' = Recalled(forgot)

-----------------------------------------------------------------------------
(* The operations start.                                                   *)

Start(t, op, e) ==
    /\ task[t] = Idle
    /\ task' = [task EXCEPT ![t] = [op |-> op, n |-> 1, e |-> e, list |-> <<>>]]
    /\ raced' = (raced \/ \E u \in Thread : task[u].op # "none" /\ task[u].e = e)
    /\ UNCHANGED <<mem, file, lock, torn>>

\* A pairing whose login succeeded.
Pair(e) == Start("pair", "pair", e) /\ saved' = Recalled(saved \ {e}) /\ forgot' = Recalled(forgot \ {e})

\* "Forget this device" and a tap on another desk's row.
Forget(e) == mem.active = e /\ Start("ui", "forget", e) /\ saved' = Recalled(saved \ {e}) /\ forgot' = Recalled(forgot)
Switch(e) == Contains(mem.list, e) /\ mem.active # e /\ Start("ui", "switch", e) /\ Remembers

-----------------------------------------------------------------------------
(* Their accesses.                                                         *)

\* On to the next access, or out of the operation; a pairing is done with the
\* list once it has written it.
Goes(t) == task' = [task EXCEPT ![t] =
    IF task[t].n = Len(Steps(task[t].op)) THEN Idle
    ELSE [task[t] EXCEPT !.n = task[t].n + 1, !.list = IF task[t].op = "pair" THEN <<>> ELSE task[t].list]]
Stops(t) == task' = [task EXCEPT ![t] = Idle]
IsLastOf(t, op) == task[t].op = op /\ task[t].n = Len(Steps(op))

Succeeds(t) ==
    /\ Goes(t)
    /\ saved'  = Recalled(IF IsLastOf(t, "pair") THEN saved \cup {task[t].e} ELSE saved)
    /\ forgot' = Recalled(IF IsLastOf(t, "forget") THEN forgot \cup {task[t].e} ELSE forgot)

\* Endpoints(): decoded from the cache.  SetActive ignores a desk it lacks.
ReadsList(t) ==
    /\ At(t, {"read"}) /\ lock = Nobody
    /\ task' = IF task[t].op = "switch" /\ ~Contains(mem.list, task[t].e)
                 THEN [task EXCEPT ![t] = Idle]
                 ELSE [task EXCEPT ![t].n = @ + 1, ![t].list = NextList(t)]
    /\ UNCHANGED <<mem, file, lock, histVars>>

\* A list is written while another operation is about to write its own.
Overtakes(t) == Row(t) = "list" /\ \E u \in Thread \ {t} : At(u, {"list"})

\* RemoveEndpoint looks at the active desk last, and may leave it alone.
LeavesActive(t) ==
    /\ At(t, {"active"}) /\ lock = Nobody
    /\ task[t].op = "forget" /\ mem.active # task[t].e
    /\ UNCHANGED <<mem, file, lock, torn, raced>>
    /\ Succeeds(t)

Writes(t) ==
    /\ At(t, {"pin", "token", "list", "active"}) /\ lock = Nobody
    /\ Row(t) = "active" /\ task[t].op = "forget" => mem.active = task[t].e

\* del: a file that fails is logged, and that is all.
Dels(t, works) ==
    /\ Writes(t) /\ Deletes(t)
    /\ mem' = Without(mem, Row(t), task[t].e)
    /\ file' = IF works THEN Without(file, Row(t), task[t].e) ELSE file
    /\ torn' = (torn \/ ~works)
    /\ raced' = (raced \/ Overtakes(t))
    /\ Succeeds(t)
    /\ UNCHANGED lock

\* put: the cache, then the DELETE ...
CachedOnly(t)  == With(mem, Row(t), Subject(t), task[t].list)
PutStarts(t) ==
    /\ Writes(t) /\ ~Deletes(t)
    /\ mem' = CachedOnly(t)
    /\ file' = Without(file, Row(t), Subject(t))
    /\ lock' = t
    /\ raced' = (raced \/ Overtakes(t))
    /\ UNCHANGED <<task, torn>>
    /\ Remembers

\* ... then the INSERT of what the cache holds.
InsertNothing(t) == file
Inserted(t) == With(file, Row(t), Subject(t), task[t].list)
PutEnds(t) ==
    /\ lock = t
    /\ file' = Inserted(t)
    /\ lock' = Nobody
    /\ UNCHANGED <<mem, torn, raced>>
    /\ Succeeds(t)

\* The DELETE or the INSERT fails: the cache has the new row, the file the old
\* one or none.  The operation stops with the error.
PutFails(t) ==
    /\ \/ Writes(t) /\ ~Deletes(t) /\ mem' = CachedOnly(t)
       \/ lock = t /\ UNCHANGED mem
    /\ lock' = Nobody /\ torn' = TRUE
    /\ Stops(t)
    /\ UNCHANGED <<file, raced>>
    /\ Remembers

\* The process is killed, and launched again: openFile loads every row.
Killed ==
    /\ mem' = file
    /\ task' = [t \in Thread |-> Idle] /\ lock' = Nobody
    /\ torn' = (torn \/ lock # Nobody)
    /\ UNCHANGED <<file, raced>>
    /\ Remembers

-----------------------------------------------------------------------------

Accesses(t) ==
    \/ ReadsList(t) \/ LeavesActive(t)
    \/ PutStarts(t) \/ PutEnds(t) \/ PutFails(t)
    \/ \E works \in BOOLEAN : Dels(t, works)

Next ==
    \/ \E e \in Endpoint : Pair(e) \/ Forget(e) \/ Switch(e)
    \/ \E t \in Thread : Accesses(t)
    \/ Killed

Spec == Init /\ [][Next]_vars

-----------------------------------------------------------------------------
(* Properties.                                                             *)

\* The cache is the file: what is read back in this launch is what the next
\* one will find, as long as no write has failed, whichever operations
\* interleave.
WriteThrough == lock = Nobody /\ ~torn => mem = file

\* "Persist before activating": a desk is in the file's list only with its
\* credential, so a kill in the middle of a pairing or a forget leaves no desk
\* the app would dial without one.  Only a torn write or a race for one desk
\* can.
ListedHasToken ==
    ~torn /\ ~raced /\ lock = Nobody => \A e \in ToSet(file.list) : e \in file.tokens

\* A pairing that reported success is there in every later launch until the
\* desk is forgotten, whatever else is paired, switched or forgotten.
SavedSurvives ==
    ~torn /\ ~raced /\ lock = Nobody =>
        \A e \in saved : Contains(file.list, e) /\ e \in file.tokens /\ e \in file.pins

\* A pairing is in the file whole and for good, or not at all.
PairingIsDurable == ListedHasToken /\ SavedSurvives

\* "Forgets an endpoint and everything stored under its id": once a forget
\* has returned nothing of the desk is left, in the cache or in the file.
ForgetIsComplete ==
    ~torn /\ ~raced =>
        \A e \in forgot, r \in {mem, file} :
            ~Contains(r.list, e) /\ e \notin r.tokens /\ e \notin r.pins /\ r.active # e
=============================================================================
