----------------------------- MODULE StepsCache -----------------------------
(***************************************************************************)
(* The cache of converted upload steps (NodeInterpreter.steps_kore_text).   *)
(* Node processes on one machine share a directory of KORE texts, one file  *)
(* per build of the semantics and list of uploaded modules, and fill it     *)
(* without locks: each writes a temporary file that has its pid in the name *)
(* and renames it.  Files outlive the processes, which may die at any step; *)
(* a process is its pid, so one that starts again is one that got the pid   *)
(* of a dead one.                                                           *)
(***************************************************************************)
EXTENDS Naturals

CONSTANTS
  Pids,
  Builds,           \* 1 .. how often the semantics are built
  StepLists,        \* the lists of kasmer steps a run may be given
  KoreText(_, _),   \* the KORE text of a build and a step list, or NoText
  CacheKey(_),      \* upload_steps_cache_key: None unless all steps are uploads
  None,
  NoText,           \* the conversion raised
  Torn,             \* no text: part of one
  MaxAsks           \* bound: how many texts are asked for

\* The declared hash of a module determines its bytes, so the key determines
\* the steps, and thereby their text.
ASSUME KeyDeterminesText ==
  \A s, t \in StepLists, b \in Builds :
    CacheKey(s) # None /\ CacheKey(s) = CacheKey(t) => KoreText(b, s) = KoreText(b, t)

ASSUME StepsCacheAssumption ==
  /\ Builds \subseteq Nat /\ 1 \in Builds
  /\ MaxAsks \in Nat
  /\ None \notin StepLists
  /\ \A s \in StepLists, b \in Builds : KoreText(b, s) \notin {None, Torn}

VARIABLES
  build,     \* the build of the semantics that is installed
  entries,   \* <stamp>-<key>.kore
  tmps,      \* <stamp>-<key>.kore.<pid>.tmp
  pc, steps, text,   \* of each process: its next step, its argument, its result
  asks       \* counts the calls, for the bound

cacheVars == <<build, entries, tmps, pc, steps, text, asks>>

Caching == {"open", "write", "rename"}
Steps   == {"down", "idle", "lookup", "convert"} \cup Caching

Write(files, name, content) ==
  [n \in DOMAIN files \cup {name} |-> IF n = name THEN content ELSE files[n]]

Keys  == {CacheKey(s) : s \in StepLists}

\* A mutant: the build is not part of the name.
EntryNameOfKey(s) == <<1, CacheKey(s)>>

\* _definition_stamp tells builds apart by the time and the size of a file.
EntryName(s) == <<build, CacheKey(s)>>

\* A mutant: every process writes to the same temporary file.
TmpNameShared(p) == <<EntryName(steps[p]), None>>

TmpName(p) == <<EntryName(steps[p]), p>>

StepsTypeOK ==
  /\ build \in Builds
  /\ DOMAIN entries \subseteq Builds \X Keys
  /\ DOMAIN tmps \subseteq (Builds \X Keys) \X Pids
  /\ pc \in [Pids -> Steps]
  /\ steps \in [Pids -> StepLists \cup {None}]
  /\ DOMAIN text = Pids
  /\ asks \in Nat

StepsInit ==
  /\ build = 1
  /\ entries = << >> /\ tmps = << >>
  /\ pc = [p \in Pids |-> "down"]
  /\ steps = [p \in Pids |-> None]
  /\ text = [p \in Pids |-> None]
  /\ asks = 0

At(p, here) == pc[p] = here
Goto(p, there) == pc' = [pc EXCEPT ![p] = there]

-----------------------------------------------------------------------------
(* Processes and builds.                                                    *)

Start(p) ==
  /\ At(p, "down") /\ Goto(p, "idle")
  /\ UNCHANGED <<build, entries, tmps, steps, text, asks>>

\* A process dies, or is stopped.
Die(p) ==
  /\ ~At(p, "down") /\ Goto(p, "down")
  /\ steps' = [steps EXCEPT ![p] = None]
  /\ text' = [text EXCEPT ![p] = None]
  /\ UNCHANGED <<build, entries, tmps, asks>>

\* The semantics are built anew, while no process uses them.
Rebuild ==
  /\ \A p \in Pids : At(p, "down")
  /\ build + 1 \in Builds
  /\ build' = build + 1
  /\ UNCHANGED <<entries, tmps, pc, steps, text, asks>>

-----------------------------------------------------------------------------
(* steps_kore_text.                                                         *)

Ask(p, s) ==
  /\ At(p, "idle") /\ Goto(p, "lookup")
  /\ asks < MaxAsks
  /\ asks' = asks + 1
  /\ steps' = [steps EXCEPT ![p] = s]
  /\ text' = [text EXCEPT ![p] = None]
  /\ UNCHANGED <<build, entries, tmps>>

Hit(p) ==
  /\ At(p, "lookup") /\ Goto(p, "idle")
  /\ CacheKey(steps[p]) # None
  /\ EntryName(steps[p]) \in DOMAIN entries
  /\ text' = [text EXCEPT ![p] = entries[EntryName(steps[p])]]
  /\ UNCHANGED <<build, entries, tmps, steps, asks>>

\* A mutant: a process waits for one that is writing the entry.
MissWaits(p) ==
  /\ At(p, "lookup") /\ Goto(p, "convert")
  /\ \A q \in Pids : <<EntryName(steps[p]), q>> \notin DOMAIN tmps
  /\ UNCHANGED <<build, entries, tmps, steps, text, asks>>

\* No entry, no key, or a file that cannot be read.
Miss(p) ==
  /\ At(p, "lookup") /\ Goto(p, "convert")
  /\ UNCHANGED <<build, entries, tmps, steps, text, asks>>

\* _convert_steps.  What raises, or has no key, is not cached.
Converted(p, kore) ==
  /\ At(p, "convert")
  /\ Goto(p, IF kore = NoText \/ CacheKey(steps[p]) = None THEN "idle" ELSE "open")
  /\ text' = [text EXCEPT ![p] = kore]
  /\ UNCHANGED <<build, entries, tmps, steps, asks>>

Convert(p) == Converted(p, KoreText(build, steps[p]))

\* _write_cache_entry: write_text creates or truncates the file, ...
OpenTmp(p) ==
  /\ At(p, "open") /\ Goto(p, "write")
  /\ tmps' = Write(tmps, TmpName(p), Torn)
  /\ UNCHANGED <<build, entries, steps, text, asks>>

\* ... fills it, ...
WriteTmp(p) ==
  /\ At(p, "write") /\ Goto(p, "rename")
  /\ tmps' = Write(tmps, TmpName(p), text[p])
  /\ UNCHANGED <<build, entries, steps, text, asks>>

\* ... and replace renames it over the entry.
Rename(p) ==
  /\ At(p, "rename") /\ Goto(p, "idle")
  /\ TmpName(p) \in DOMAIN tmps
  /\ entries' = Write(entries, EntryName(steps[p]), tmps[TmpName(p)])
  /\ tmps' = [n \in DOMAIN tmps \ {TmpName(p)} |-> tmps[n]]
  /\ UNCHANGED <<build, steps, text, asks>>

\* An OSError at any of these steps: the text is used uncached, and a file
\* begun stays behind.
CacheFails(p) ==
  /\ pc[p] \in Caching /\ Goto(p, "idle")
  /\ UNCHANGED <<build, entries, tmps, steps, text, asks>>

Look(p)  == Hit(p) \/ Miss(p)
Cache(p) == OpenTmp(p) \/ WriteTmp(p) \/ Rename(p) \/ CacheFails(p)

Others(p) ==
  Start(p) \/ Die(p) \/ (\E s \in StepLists : Ask(p, s)) \/ Look(p) \/ Cache(p)

StepsNext == Rebuild \/ \E p \in Pids : Others(p) \/ Convert(p)

StepsSpec == StepsInit /\ [][StepsNext]_cacheVars

-----------------------------------------------------------------------------
(* Properties.                                                              *)

\* A file that has the name of an entry holds the whole text that the build in
\* its name makes of the steps of its key: not part of one, nor another's.
EntriesWhole ==
  \A s \in StepLists, b \in Builds :
    CacheKey(s) # None /\ <<b, CacheKey(s)>> \in DOMAIN entries
      => entries[<<b, CacheKey(s)>>] = KoreText(b, s)

\* What a process is given for its steps is the text the installed build makes
\* of them, whether it was cached, by whom, or just converted.
ServedTextIsCurrent ==
  \A p \in Pids :
    text[p] # None => text[p] = KoreText(build, steps[p])
=============================================================================
