---- MODULE MCStores ----
(* What outlives a call: sessions in Redis, with their recovery, a
   sandbox's files, and the templates on disk.  They have nothing in
   common: each behaviour is that of one, and Focus names those the run is
   about.  One server and the recovery service with two sessions of one
   user; two writers of contents of different size; two editors of two
   templates. *)
EXTENDS SessionRecovery, SandboxFiles, TemplateStore, TLC

CONSTANT Focus  \* of {"sessions", "files", "templates"}

VARIABLE focus

FocusInit ==
  /\ focus \in Focus
  /\ RecoveryInit /\ SbInit
  /\ IF focus = "templates" THEN TemplateInit ELSE TemplateRest

Only(f) ==
  /\ focus = f /\ UNCHANGED focus
  /\ f # "sessions" => UNCHANGED recoveryVars
  /\ f # "files" => UNCHANGED fileVars
  /\ f # "templates" => UNCHANGED templateVars

FocusNext ==
  \/ Only("sessions") /\ RecoveryNext
  \/ Only("files") /\ SbNext
  \/ Only("templates") /\ TemplateNext

FocusSpec == FocusInit /\ [][FocusNext]_<<focus, recoveryVars, fileVars, templateVars>>

(* What is stored stays what its callers were promised: the files read back
   what was written, and what is stale of a template was raced for. *)
StoredInv == FilesInv /\ TemplatesInv

----
CONSTANTS w1, svc, s1, s2, u1, c1, c2, a1, a2, e1, e2, x1, x2

OneServer == {w1, svc}
TwoSessions == {s1, s2}
OneUser == {u1}
SameOwner == [s \in TwoSessions |-> u1]
TwoConts == {c1, c2}
NoExtension == {0}

(* A standard directory and a place in it, a place outside it, and a name that
   climbs above the sandbox's directory and is resolved to that place. *)
TwoCallers == {a1, a2}
Sizes == [c \in TwoCallers |-> IF c = a1 THEN 1 ELSE 2]
FourPaths == {<<"w">>, <<"w", "f">>, <<"d">>, <<"..", "..", "d">>}
OneStandard == {<<"w">>}
BaseBox == <<"base", "box">>

TwoEditors == {e1, e2}
TwoTemplates == {x1, x2}

(* One swap serves two parts, since no behaviour moves both. *)
Swaps(S, T) ==
  {p \in Permutations(S \cup T) :
     (\A x \in S \cup T : p[x] = x) \/ \A x \in S \cup T : p[x] # x /\ (p[x] \in S <=> x \in S)}
Symmetric == Swaps(Sessions, Editors) \cup Swaps(Conts, TemplateIds)
====
