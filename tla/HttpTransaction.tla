--------------------------- MODULE HttpTransaction ---------------------------
(***************************************************************************)
(* One HTTP request of romm_http_client.c, from http_runtime_init to       *)
(* http_runtime_term.  Every request brings the console's network stack up *)
(* from nothing, creates a template, a connection and a request in it,     *)
(* and takes everything down again; each of these calls may fail, and a    *)
(* system module may have been loaded by somebody else before.             *)
(*                                                                         *)
(* What a caller asks for is req; what it is told is result: "network", or *)
(* the status the server answered with.  The console's side is up, the     *)
(* program's own book-keeping (the flags of HttpRuntimeState and the ids   *)
(* that are not negative) is held.                                         *)
(***************************************************************************)
EXTENDS Integers, Sequences

CONSTANTS
  ForeignSets,   \* the sets of modules others may have loaded before
  Stubborn       \* what the console may refuse to release

Modules == {"NET", "HTTP", "SSL", "HTTPS"}

ASSUME ForeignAssumption == ForeignSets \subseteq SUBSET Modules

VARIABLES
  req,       \* the request: [https, verify, toFile]
  phase,     \* where http_send_request is
  at,        \* the line of SetUp or TearDown it has come to
  held,      \* what this request knows it has to release
  up,        \* what is up on the console
  stuck,     \* what is up although its release was called
  foreign,   \* modules loaded by others
  file,      \* the file at the download's destination
  result     \* what the request returns

httpVars == <<req, phase, at, held, up, stuck, foreign, file, result>>

\* The calls of http_runtime_init and http_send_request in their order; the
\* entry "unverified" is sceHttpsDisableOption.
SetUp ==
  <<"NET", "pool", "net", "netctl", "HTTP", "http", "SSL", "HTTPS", "ssl",
    "template", "unverified", "connection", "request">>

\* The mutated form frees the pool before sceNetTerm.
TearDownPoolFirst ==
  <<"request", "connection", "template", "unverified", "ssl", "http",
    "netctl", "pool", "net", "HTTPS", "SSL", "HTTP", "NET">>

\* The clean-up of http_send_request, then http_runtime_term.
TearDown ==
  <<"request", "connection", "template", "unverified", "ssl", "http",
    "netctl", "net", "pool", "HTTPS", "SSL", "HTTP", "NET">>

Resources == Modules \cup {"pool", "net", "netctl", "http", "ssl", "template",
                           "unverified", "connection", "request"}
Last == 13

\* On the console: what must be up for s to be.
Needs(s) ==
  CASE s = "net" -> {"NET", "pool"}
    [] s = "netctl" -> {"net"}
    [] s = "http" -> {"HTTP", "net"}
    [] s = "HTTPS" -> {"HTTP", "SSL"}
    [] s = "ssl" -> {"SSL"}
    [] s = "template" -> {"http"}
    [] s = "unverified" -> {"HTTPS", "http"}
    [] s = "connection" -> {"template"}
    [] s = "request" -> {"connection"}
    [] OTHER -> {}

\* Releases whose failure the code logs and ignores.
Fallible == Modules \cup {"unverified", "ssl", "http", "net"}
ASSUME StubbornAssumption == Stubborn \subseteq Fallible

Answers == {"ok", "missing", "other"}
Requests == [https : BOOLEAN, verify : BOOLEAN, toFile : BOOLEAN]
NoRequest == [https |-> FALSE, verify |-> TRUE, toFile |-> FALSE]
Phases == {"rest", "setup", "open", "stream", "teardown", "returned"}

HttpInit ==
  /\ req = NoRequest
  /\ phase = "rest"
  /\ at = 1
  /\ held = {}
  /\ foreign \in ForeignSets
  /\ up = foreign
  /\ stuck = {}
  /\ file = "none"
  /\ result = "network"

\* Until the server has answered, ROMM_CLIENT_ERR_NETWORK is the result.
Begin(r) ==
  /\ phase = "rest"
  /\ req' = r
  /\ phase' = "setup"
  /\ UNCHANGED <<at, held, up, stuck, foreign, file, result>>

-----------------------------------------------------------------------------
(***************************************************************************)
(* Setting up: line by line of SetUp, passing over those that do not apply *)
(* to the request.                                                         *)
(***************************************************************************)
Lines == 1..Last

Wanted(s) ==
  /\ s \in {"SSL", "HTTPS", "ssl", "unverified"} => req.https
  /\ s = "unverified" => ~req.verify

SettingUp(l) ==
  /\ phase = "setup"
  /\ at <= l
  /\ Wanted(SetUp[l])
  /\ \A k \in at..(l - 1) : ~Wanted(SetUp[k])

GoOn(l) ==
  /\ at' = l + 1
  /\ UNCHANGED phase

\* A failure returns at once, without the clean-up (mutated form).
UnwindNothing ==
  /\ phase' = "returned"
  /\ at' = 1

\* goto fail, goto cleanup.
Unwind ==
  /\ phase' = "teardown"
  /\ at' = 1

Acquire(l) ==
  /\ SettingUp(l)
  /\ LET s == SetUp[l] IN
       /\ s \in Modules => s \notin up
       /\ held' = held \cup {s}
       /\ up' = up \cup {s}
       /\ stuck' = stuck \ {s}
  /\ GoOn(l)
  /\ UNCHANGED <<req, foreign, file, result>>

\* load_user_module: a module that is there already is not this request's.
AlreadyLoaded(l) ==
  /\ SettingUp(l)
  /\ SetUp[l] \in Modules \cap up
  /\ GoOn(l)
  /\ UNCHANGED <<req, held, up, stuck, foreign, file, result>>

\* A call of the set-up fails; only a refusal to switch the verification of
\* certificates off is no reason to stop.
AcquireFails(l) ==
  /\ SettingUp(l)
  /\ IF SetUp[l] = "unverified" THEN GoOn(l) ELSE Unwind
  /\ UNCHANGED <<req, held, up, stuck, foreign, file, result>>

-----------------------------------------------------------------------------
(***************************************************************************)
(* The exchange.  (That the credentials do not fit the header cannot be:   *)
(* the callers check that there are some, and the buffers hold the         *)
(* longest.)                                                               *)
(***************************************************************************)
Ready ==
  /\ phase = "setup"
  /\ \A k \in at..Last : ~Wanted(SetUp[k])

\* The time limits end a call that gets no answer.
SendFails ==
  /\ Ready
  /\ Unwind
  /\ UNCHANGED <<req, held, up, stuck, foreign, file, result>>

\* The status arrives.  A text body is read as far as it comes.
Answer ==
  /\ Ready
  /\ \E status \in Answers :
       IF status = "ok" /\ req.toFile
       THEN phase' = "open" /\ at' = 1 /\ UNCHANGED result
       ELSE result' = status /\ Unwind
  /\ UNCHANGED <<req, held, up, stuck, foreign, file>>

\* Removing the file; the mutated form forgets to.
KeepFile == UNCHANGED file
RemoveFile == file' = "none"

FileOpens ==
  /\ phase = "open"
  /\ file' = "part"
  /\ phase' = "stream"
  /\ UNCHANGED <<req, at, held, up, stuck, foreign, result>>

FileRefused ==
  /\ phase = "open"
  /\ Unwind
  /\ UNCHANGED <<req, held, up, stuck, foreign, file, result>>

\* fclose is not checked: the last block may be missing.
StreamEnds ==
  /\ phase = "stream"
  /\ file' \in {"whole", "short"}
  /\ result' = "ok"
  /\ Unwind
  /\ UNCHANGED <<req, held, up, stuck, foreign>>

\* The server or the memory card fails while the body is written.
StreamFails ==
  /\ phase = "stream"
  /\ RemoveFile
  /\ Unwind
  /\ UNCHANGED <<req, held, up, stuck, foreign, result>>

-----------------------------------------------------------------------------
(***************************************************************************)
(* Taking down: line by line of TearDown, passing over what is not held.   *)
(***************************************************************************)
TakingDown(l) ==
  /\ phase = "teardown"
  /\ at <= l
  /\ TearDown[l] \in held
  /\ \A k \in at..(l - 1) : TearDown[k] \notin held

Release(l) ==
  /\ TakingDown(l)
  /\ held' = held \ {TearDown[l]}
  /\ up' = up \ {TearDown[l]}
  /\ GoOn(l)
  /\ UNCHANGED <<req, stuck, foreign, file, result>>

\* A warning in the log; the rest is taken down all the same.
ReleaseFails(l) ==
  /\ TakingDown(l)
  /\ TearDown[l] \in Stubborn
  /\ held' = held \ {TearDown[l]}
  /\ stuck' = stuck \cup {TearDown[l]}
  /\ GoOn(l)
  /\ UNCHANGED <<req, up, foreign, file, result>>

Return ==
  /\ phase = "teardown"
  /\ \A k \in at..Last : TearDown[k] \notin held
  /\ phase' = "returned"
  /\ at' = 1
  /\ UNCHANGED <<req, held, up, stuck, foreign, file, result>>

\* The caller has read the result and done with the file.
Collected ==
  /\ phase = "returned"
  /\ phase' = "rest"
  /\ req' = NoRequest
  /\ result' = "network"
  /\ RemoveFile
  /\ UNCHANGED <<at, held, up, stuck, foreign>>

HttpStep ==
  \/ \E l \in Lines :
       \/ Acquire(l) \/ AlreadyLoaded(l) \/ AcquireFails(l)
       \/ Release(l) \/ ReleaseFails(l)
  \/ SendFails \/ Answer \/ FileOpens \/ FileRefused \/ StreamEnds
  \/ StreamFails \/ Return

\* The process ends, and the console takes down what it had up.
ProcessEnds ==
  /\ phase = "rest"
  /\ up' = foreign
  /\ stuck' = {}
  /\ UNCHANGED <<req, phase, at, held, foreign, file, result>>

\* Any caller.
HttpNext ==
  \/ \E r \in Requests : Begin(r)
  \/ HttpStep
  \/ Collected
  \/ ProcessEnds

HttpSpec == HttpInit /\ [][HttpNext]_httpVars

-----------------------------------------------------------------------------
HttpTypeOK ==
  /\ req \in Requests
  /\ phase \in Phases
  /\ at \in 1..(Last + 1)
  /\ held \subseteq Resources
  /\ up \subseteq Resources
  /\ stuck \subseteq Stubborn
  /\ foreign \subseteq Modules
  /\ file \in {"none", "part", "whole", "short"}
  /\ result \in {"network"} \cup Answers

(***************************************************************************)
(* Whichever call of the set-up fails, and in whatever order things are    *)
(* taken down, nothing is up whose foundation is not: no subsystem runs on *)
(* a freed pool or an unloaded module.  (Except what the console itself    *)
(* would not release.)                                                     *)
(***************************************************************************)
Layered ==
  \A s \in up \ (stuck \cup foreign) : Needs(s) \subseteq up

(***************************************************************************)
(* When a request has returned, on any path, all it brought up is down     *)
(* again and certificates are verified, and modules that were there before *)
(* still are.                                                              *)
(***************************************************************************)
NothingLeaks ==
  /\ foreign \subseteq up
  /\ phase \in {"rest", "returned"} => held = {} /\ up = foreign \cup stuck

(***************************************************************************)
(* There is a file at the destination exactly when the download is said to *)
(* have succeeded: whatever fails on the way, nothing is left behind which *)
(* the conversion could take for the save.                                 *)
(***************************************************************************)
FileMeansSuccess ==
  phase = "returned" =>
    (file # "none" <=> req.toFile /\ result = "ok")

=============================================================================
