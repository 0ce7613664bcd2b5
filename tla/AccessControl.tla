----------------------------- MODULE AccessControl -----------------------------
(***************************************************************************)
(* Which modules a member of an access group may open.  The Budget Officer  *)
(* edits the matrix of groups and modules and the memberships               *)
(* (routes/admin.ts); Node keeps the matrix for ten seconds                 *)
(* (lib/accessControl.ts) and works out the map of a user on every request  *)
(* (middleware/auth.ts); the Python backend asks Node for that map over     *)
(* HTTP and keeps it for ten seconds per token (backend-py/app/auth.py).    *)
(* One user, one token and one module are kept; the others are alike.       *)
(* Requests overlap at every await, either process may restart, and Node    *)
(* may be out of Python's reach.  A tick is five seconds: Python's timeout. *)
(***************************************************************************)
EXTENDS Integers

CONSTANTS
  Columns,   \* the matrix's groups: ACCESS_GROUPS without "BCA"
  Defaults,  \* the groups the workbook grants the module
  Lifetime,  \* ticks a cached value is used for
  MaxActs,   \* bound: edits, restarts and failures
  Calls,     \* bound: requests under way at once
  NoCall,
  NoEntry

ASSUME AccessControlAssumption ==
  Defaults \subseteq Columns /\ "BCA" \notin Columns /\ Lifetime \in Nat \ {0} /\ MaxActs \in Nat

Groups == Columns \cup {"BCA"}
Answers == {"none", "yes", "no"}

\* Bound: ages are counted up to this.
Oldest == 2 * Lifetime + 4

VARIABLES
  allowed,    \* the matrix in force: groups that may open the module
  member,     \* the user's groups
  nodeCache,  \* cached
  pyCache,    \* _ACCESS_CACHE[token]
  call,       \* requests under way
  acts,       \* counts towards MaxActs
  slow        \* history: a request to Node has taken more than a tick

vars == <<allowed, member, nodeCache, pyCache, call, acts, slow>>

Steps == {"sent", "matrix", "cells", "answered", "invalidate"}

\* at: how far the request is.  groups, rows: what it has read.  answer: the
\* map for the module.  since: ticks since the matrix it has was read.
\* age: ticks since it began.
Call ==
  [by : {"browser", "python", "officer"}, at : Steps, groups : SUBSET Groups,
   rows : SUBSET Columns, answer : Answers, since : 0 .. Oldest, age : 0 .. 1]
NodeEntry == [rows : SUBSET Columns, age : 0 .. Lifetime, since : 0 .. Oldest]
PyEntry == [answer : Answers, age : 0 .. Lifetime, since : 0 .. Oldest]

TypeOK ==
  /\ allowed \subseteq Columns /\ member \subseteq Groups
  /\ nodeCache \in NodeEntry \cup {NoEntry}
  /\ pyCache \in PyEntry \cup {NoEntry}
  /\ call \in [Calls -> Call \cup {NoCall}]
  /\ acts \in 0 .. MaxActs /\ slow \in BOOLEAN

Init ==
  /\ allowed = Defaults
  /\ member \in SUBSET Groups
  /\ nodeCache = NoEntry /\ pyCache = NoEntry
  /\ call = [c \in Calls |-> NoCall]
  /\ acts = 0 /\ slow = FALSE

Running(c) == call[c] # NoCall
At(c, step) == Running(c) /\ call[c].at = step
Act == acts < MaxActs /\ acts' = acts + 1

Begin(c, who, step, groups) ==
  /\ ~Running(c)
  /\ call' = [call EXCEPT ![c] =
       [by |-> who, at |-> step, groups |-> groups, rows |-> {}, answer |-> "none",
        since |-> 0, age |-> 0]]

-----------------------------------------------------------------------------
(* The Budget Officer.                                                      *)

\* PUT and DELETE /access-control/matrix: the row is written, ...
SetCell(c, group, permitted) ==
  /\ Act /\ Begin(c, "officer", "invalidate", {})
  /\ allowed' = IF permitted THEN allowed \cup {group} ELSE allowed \ {group}
  /\ UNCHANGED <<member, nodeCache, pyCache, slow>>
ResetMatrix(c) ==
  /\ Act /\ Begin(c, "officer", "invalidate", {})
  /\ allowed' = Defaults
  /\ UNCHANGED <<member, nodeCache, pyCache, slow>>

\* ... then invalidateAccessMatrix.
Invalidate(c) ==
  /\ At(c, "invalidate")
  /\ nodeCache' = NoEntry
  /\ call' = [call EXCEPT ![c] = NoCall]
  /\ UNCHANGED <<allowed, member, pyCache, acts, slow>>

\* POST and DELETE /access-control/members
SetMember(group, joined) ==
  /\ Act
  /\ member' = IF joined THEN member \cup {group} ELSE member \ {group}
  /\ UNCHANGED <<allowed, nodeCache, pyCache, call, slow>>

-----------------------------------------------------------------------------
(* Node.                                                                    *)

\* resolveUser reads the user's memberships, of the browser's request ...
Open(c) ==
  /\ Begin(c, "browser", "matrix", member)
  /\ UNCHANGED <<allowed, member, nodeCache, pyCache, acts, slow>>
\* ... and of Python's.
Resolve(c) ==
  /\ At(c, "sent")
  /\ call' = [call EXCEPT ![c].at = "matrix", ![c].groups = member]
  /\ UNCHANGED <<allowed, member, nodeCache, pyCache, acts, slow>>

\* computeAccess; null without a membership.
Access(groups, rows) ==
  IF groups = {} THEN "none"
  ELSE IF "BCA" \in groups \/ groups \cap rows # {} THEN "yes" ELSE "no"

Answered(c, rows, since) ==
  call' = [call EXCEPT ![c].at = "answered", ![c].groups = {}, ![c].rows = {},
             ![c].answer = Access(call[c].groups, rows),
             ![c].since = IF call[c].groups = {} THEN 0 ELSE since]

\* A mutant: a hit makes the entry young again.
UseMatrixTouched(c) ==
  /\ At(c, "matrix")
  /\ \/ call[c].groups = {} /\ Answered(c, {}, 0) /\ UNCHANGED nodeCache
     \/ /\ call[c].groups # {} /\ nodeCache # NoEntry
        /\ Answered(c, nodeCache.rows, nodeCache.since)
        /\ nodeCache' = [nodeCache EXCEPT !.age = 0]
  /\ UNCHANGED <<allowed, member, pyCache, acts, slow>>

\* getEffectiveMatrix: the cached matrix, if there is one, ...
UseMatrix(c) ==
  /\ At(c, "matrix")
  /\ \/ call[c].groups = {} /\ Answered(c, {}, 0)
     \/ call[c].groups # {} /\ nodeCache # NoEntry /\ Answered(c, nodeCache.rows, nodeCache.since)
  /\ UNCHANGED <<allowed, member, nodeCache, pyCache, acts, slow>>

\* ... or that of the database, ...
ReadCells(c) ==
  /\ At(c, "matrix") /\ call[c].groups # {} /\ nodeCache = NoEntry
  /\ call' = [call EXCEPT ![c].at = "cells", ![c].rows = allowed, ![c].since = 0]
  /\ UNCHANGED <<allowed, member, nodeCache, pyCache, acts, slow>>

\* ... cached when it has arrived, whatever was invalidated in between.
StoreMatrix(c) ==
  /\ At(c, "cells")
  /\ nodeCache' = [rows |-> call[c].rows, age |-> 0, since |-> call[c].since]
  /\ Answered(c, call[c].rows, call[c].since)
  /\ UNCHANGED <<allowed, member, pyCache, acts, slow>>

\* The browser, or nobody any longer, has the answer.
Answer(c) ==
  /\ At(c, "answered") /\ call[c].by = "browser"
  /\ call' = [call EXCEPT ![c] = NoCall]
  /\ UNCHANGED <<allowed, member, nodeCache, pyCache, acts, slow>>

-----------------------------------------------------------------------------
(* Python.                                                                  *)

\* get_current_user, for a member whose map is not cached.
Ask(c) ==
  /\ member # {} /\ pyCache = NoEntry
  /\ Begin(c, "python", "sent", {})
  /\ UNCHANGED <<allowed, member, nodeCache, pyCache, acts, slow>>

\* _fetch_access has its answer.
Keep(c) ==
  /\ At(c, "answered") /\ call[c].by = "python"
  /\ pyCache' = [answer |-> call[c].answer, age |-> 0, since |-> call[c].since]
  /\ call' = [call EXCEPT ![c] = NoCall]
  /\ UNCHANGED <<allowed, member, nodeCache, acts, slow>>

\* What stands for a failure.
KeepNone == [answer |-> "none", age |-> 0, since |-> 0]

\* No answer in time: the map is None, and Node works on what it has received.
Unanswered(c) ==
  /\ Act
  /\ Running(c) /\ call[c].by = "python"
  /\ pyCache' = KeepNone
  /\ call' = [call EXCEPT ![c] = IF @.at = "sent" THEN NoCall ELSE [@ EXCEPT !.by = "browser"]]
  /\ UNCHANGED <<allowed, member, nodeCache, slow>>

-----------------------------------------------------------------------------
(* Time and restarts.                                                       *)

Slow == slow \/ \E c \in Calls : Running(c) /\ call[c].by # "officer" /\ call[c].age = 1

\* The ages of what has been read matter until a request is slow.
Older(age) == IF Slow THEN 0 ELSE IF age < Oldest THEN age + 1 ELSE age
\* A mutant: an entry is used for a tick more.
AgedLate(entry) ==
  IF entry = NoEntry \/ entry.age > Lifetime THEN NoEntry
  ELSE [entry EXCEPT !.age = @ + 1, !.since = Older(@)]

\* Ten seconds after it was stored, which is between two ticks, an entry is
\* not used any more.
Aged(entry) ==
  IF entry = NoEntry \/ entry.age = Lifetime THEN NoEntry
  ELSE [entry EXCEPT !.age = @ + 1, !.since = Older(@)]
NodeExpires ==
  /\ nodeCache # NoEntry /\ nodeCache.age = Lifetime
  /\ nodeCache' = NoEntry
  /\ UNCHANGED <<allowed, member, pyCache, call, acts, slow>>
PythonExpires ==
  /\ pyCache # NoEntry /\ pyCache.age = Lifetime
  /\ pyCache' = NoEntry
  /\ UNCHANGED <<allowed, member, nodeCache, call, acts, slow>>
AgedCall(c) ==
  IF ~Running(c) \/ call[c].by = "officer" THEN call[c]
  ELSE [call[c] EXCEPT !.age = IF Slow THEN 0 ELSE 1,
                       !.since = IF call[c].at \in {"cells", "answered"} THEN Older(@) ELSE 0]

\* Five seconds pass.
Tick ==
  /\ nodeCache' = Aged(nodeCache) /\ pyCache' = Aged(pyCache)
  /\ call' = [c \in Calls |-> AgedCall(c)]
  /\ slow' = Slow
  /\ UNCHANGED <<allowed, member, acts>>

\* Python sees the connection close, and keeps None.
RestartNode ==
  /\ Act
  /\ nodeCache' = NoEntry
  /\ pyCache' = IF \E c \in Calls : Running(c) /\ call[c].by = "python" THEN KeepNone ELSE pyCache
  /\ call' = [c \in Calls |-> NoCall]
  /\ UNCHANGED <<allowed, member, slow>>

RestartPython ==
  /\ Act
  /\ pyCache' = NoEntry
  /\ call' = [c \in Calls |->
       IF Running(c) /\ call[c].by = "python"
       THEN IF call[c].at = "sent" THEN NoCall ELSE [call[c] EXCEPT !.by = "browser"]
       ELSE call[c]]
  /\ UNCHANGED <<allowed, member, nodeCache, slow>>

Step(c) ==
  \/ Invalidate(c) \/ Resolve(c) \/ UseMatrix(c) \/ ReadCells(c) \/ StoreMatrix(c)
  \/ Answer(c) \/ Keep(c)

Next ==
  \/ \E c \in Calls :
       \/ \E group \in Columns, permitted \in BOOLEAN : SetCell(c, group, permitted)
       \/ ResetMatrix(c) \/ Open(c) \/ Ask(c) \/ Unanswered(c) \/ Step(c)
  \/ \E group \in Groups, joined \in BOOLEAN : SetMember(group, joined)
  \/ Tick \/ NodeExpires \/ PythonExpires \/ RestartNode \/ RestartPython

\* Time passes, and what has begun goes on.
Fairness == WF_vars(Tick) /\ \A c \in Calls : WF_vars(Step(c))

Spec == Init /\ [][Next]_vars /\ Fairness

-----------------------------------------------------------------------------
(* Properties.                                                              *)

\* Once nobody edits, and restarts and failures stop, both backends come to
\* decide by the matrix and the memberships as they are, however busy they
\* are: a matrix read before an edit and cached after it, an answer worked out
\* from it, a None kept while Node was down, all fade.
AccessCatchesUp ==
  <>[](/\ nodeCache # NoEntry => nodeCache.rows = allowed
       /\ pyCache # NoEntry /\ member # {} => pyCache.answer = Access(member, allowed))

\* Unless a request has taken more than five seconds, Node decides by a matrix
\* read at most a tick longer ago than its cache lives, and Python by one read at
\* most twice that: with ten seconds in each, fifteen and thirty, not ten and
\* ten. An entry may start its life with an answer that comes from the last
\* moment of another's.
DecisionsAreRecent ==
  ~slow => /\ nodeCache # NoEntry => nodeCache.since <= Lifetime + 1
           /\ pyCache # NoEntry => pyCache.since <= 2 * Lifetime + 2

\* A statement of the code that does not hold: the cached matrix is
\* "invalidated on edit".
EditTakesEffect ==
  nodeCache # NoEntry /\ (\A c \in Calls : Running(c) => call[c].by # "officer")
    => nodeCache.rows = allowed

=============================================================================
