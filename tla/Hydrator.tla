------------------------------- MODULE Hydrator -------------------------------
(***************************************************************************)
(* The unpacking of archived games in place (romcache.Hydrator).           *)
(*                                                                         *)
(* Resolve turns an archive into the payload an emulator can read, put     *)
(* next to the archive in the library, and removes the archive.  Callers   *)
(* of the same archive take turns (a mutex for each archive).  Steps on    *)
(* the disk may fail, and the worker may crash between any two of them.    *)
(*                                                                         *)
(* A file name is the sequence of its words.  The order in which ReadDir   *)
(* lists a directory is abstracted to any order.                           *)
(***************************************************************************)
EXTENDS Naturals, SequencesExt

CONSTANTS
    Archives,     \* the archives in a directory of the library
    Kind,         \* what each archive holds
    Stem,         \* the name of each archive
    Inner,        \* the name of the disc image in each archive that holds one
    Callers,      \* the goroutines that resolve archives
    Faults,       \* the operations that may fail
    Nil,
    MaxResolves,  \* bound: the calls of Resolve
    MaxCrashes    \* bound: the crashes of the worker

Kinds == {"iso", "disc", "xbe", "gdi", "cue", "unknown"}
Trees == {"gdi", "cue"}

VARIABLES
    archives,   \* disk: the archives that are there
    content,    \* disk: the archive whose payload each path holds, if any
    partial,    \* disk: the payloads that are not whole
    torn,       \* history: the archives whose copy was cut short unnoticed
    lock,       \* Hydrator.keyLocks: the caller that holds each archive's mutex
    pc,         \* where each caller is in Resolve
    arg,        \* the archive it resolves
    result,     \* the payload it returns
    resolves,   \* the calls of Resolve so far
    crashes     \* the crashes so far

disk == <<archives, content, partial, torn>>
bounds == <<resolves, crashes>>
vars == <<disk, lock, pc, arg, result, bounds>>

\* The payload of an archive, next to it: a disc image keeps the name it has in
\* the archive; the rest is named for the archive.
Target(a) ==
    CASE Kind[a] \in {"iso", "disc"} -> [name |-> Inner[a], ext |-> Kind[a]]
      [] Kind[a] \in Trees -> [name |-> Stem[a], ext |-> Kind[a]]
      [] OTHER -> [name |-> Stem[a], ext |-> "iso"]

Paths == {Target(a) : a \in Archives}

ASSUME HydratorAssumption ==
    /\ Kind \in [Archives -> Kinds]
    /\ Stem \in [Archives -> Seq(STRING)]
    /\ \A a, b \in Archives : Stem[a] = Stem[b] => a = b
    /\ Inner \in [Archives -> Seq(STRING)]
    /\ Nil \notin Archives \cup Callers \cup Paths
    /\ Faults \subseteq {"start", "7z", "walk", "repack", "rename", "copy", "close",
                      "clear", "remove", "crash"}
    /\ MaxResolves \in Nat
    /\ MaxCrashes \in Nat

\* Mutant of Likely: any image will do.
LikelyAny(a, p) == p.ext \in {"iso", "gdi"}

\* findLikelyPayload: an image whose name begins with the archive's, or a
\* directory of that name with a GDI manifest.
Likely(a, p) ==
    \/ p.ext = "iso" /\ IsPrefix(Stem[a], p.name)
    \/ p.ext = "gdi" /\ p.name = Stem[a]

Whole(a) == content[Target(a)] = a /\ Target(a) \notin partial

\* No other archive unpacks to the same path.
Alone(a) == \A b \in Archives : Target(b) = Target(a) => b = a

\* The lookup tells the payload of this archive from others: it is an image or a
\* GDI dump named like the archive, and no image of another archive is.
Findable(a) ==
    /\ Target(a).ext \in {"iso", "gdi"}
    /\ IsPrefix(Stem[a], Target(a).name)
    /\ \A b \in Archives \ {a} : Target(b).ext = "iso" => ~IsPrefix(Stem[a], Target(b).name)

Places == {"idle", "lock", "stat", "lookup", "extract", "7z", "classify", "repack",
           "rename", "copy", "copying", "clear", "clearing", "remove", "return", "fail"}

Init ==
    /\ archives = Archives
    /\ content = [p \in Paths |-> Nil]
    /\ partial = {}
    /\ torn = {}
    /\ lock = [a \in Archives |-> Nil]
    /\ pc = [c \in Callers |-> "idle"]
    /\ arg = [c \in Callers |-> Nil]
    /\ result = [c \in Callers |-> Nil]
    /\ resolves = 0
    /\ crashes = 0

Goto(c, from, to) ==
    /\ pc[c] = from
    /\ pc' = [pc EXCEPT ![c] = to]

\* An operation that may fail, and then ends Resolve with an error.
Fail(c, from, fault) ==
    /\ fault \in Faults
    /\ Goto(c, from, "fail")

-----------------------------------------------------------------------------
(***************************************************************************)
(* Resolve.                                                                *)
(***************************************************************************)

Resolve(c, a) ==
    /\ resolves < MaxResolves
    /\ Goto(c, "idle", "lock")
    /\ arg' = [arg EXCEPT ![c] = a]
    /\ resolves' = resolves + 1
    /\ UNCHANGED <<disk, lock, result, crashes>>

Lock(c) ==
    /\ Goto(c, "lock", "stat")
    /\ lock[arg[c]] = Nil
    /\ lock' = [lock EXCEPT ![arg[c]] = c]
    /\ UNCHANGED <<disk, arg, result, bounds>>

\* The archive is there, or an earlier call has replaced it.
Stat(c) ==
    /\ \/ Goto(c, "stat", "extract") /\ arg[c] \in archives
       \/ Goto(c, "stat", "lookup") /\ arg[c] \notin archives
    /\ UNCHANGED <<disk, lock, arg, result, bounds>>

\* findLikelyPayload: a payload with a name like the archive's, or an error.
Lookup(c) ==
    LET likely == {p \in Paths : content[p] # Nil /\ Likely(arg[c], p)}
    IN  /\ Goto(c, "lookup", "return")
        /\ \/ \E p \in likely : result' = [result EXCEPT ![c] = p]
           \/ likely = {} /\ UNCHANGED result
        /\ UNCHANGED <<disk, lock, arg, bounds>>

\* os.Remove(path) is tried once; its failure is no error.
RemoveArchive(c) ==
    /\ Goto(c, "remove", "return")
    /\ \/ archives' = archives \ {arg[c]}
       \/ "remove" \in Faults /\ UNCHANGED archives
    /\ result' = [result EXCEPT ![c] = Target(arg[c])]
    /\ UNCHANGED <<content, partial, torn, lock, arg, bounds>>

\* Mutant of Return: an error leaves without the deferred unlock.
ReturnUnlocksOnce(c) ==
    /\ Goto(c, "return", "idle") \/ Goto(c, "fail", "idle")
    /\ lock' = IF pc[c] = "fail" THEN lock ELSE [lock EXCEPT ![arg[c]] = Nil]
    /\ arg' = [arg EXCEPT ![c] = Nil]
    /\ result' = [result EXCEPT ![c] = Nil]
    /\ UNCHANGED <<disk, bounds>>

Return(c) ==
    /\ Goto(c, "return", "idle") \/ Goto(c, "fail", "idle")
    /\ lock' = [lock EXCEPT ![arg[c]] = Nil]
    /\ arg' = [arg EXCEPT ![c] = Nil]
    /\ result' = [result EXCEPT ![c] = Nil]
    /\ UNCHANGED <<disk, bounds>>
-----------------------------------------------------------------------------
(***************************************************************************)
(* extract: into a directory of its own, then to the payload's place.      *)
(***************************************************************************)

\* The temporary directory is made and 7z started.
Start(c) ==
    /\ Goto(c, "extract", "7z") \/ Fail(c, "extract", "start")
    /\ UNCHANGED <<disk, lock, arg, result, bounds>>

\* cmd.Wait returned.
SevenZipEnds(c) ==
    /\ Goto(c, "7z", "classify") \/ Fail(c, "7z", "7z")
    /\ UNCHANGED <<disk, lock, arg, result, bounds>>

\* classify: what the archive held decides what becomes of it.
Classify(c) ==
    LET To(kinds, place) == Goto(c, "classify", place) /\ Kind[arg[c]] \in kinds
    IN  /\ \/ To({"iso", "disc"}, "rename")
           \/ To({"xbe"}, "repack")
           \/ To(Trees, "clear")
           \/ To({"unknown"}, "fail")
           \/ Fail(c, "classify", "walk")
        /\ UNCHANGED <<disk, lock, arg, result, bounds>>

\* runExtractXiso
Repack(c) ==
    /\ Goto(c, "repack", "rename") \/ Fail(c, "repack", "repack")
    /\ UNCHANGED <<disk, lock, arg, result, bounds>>

\* A stale directory of the title is removed before the new one is moved in.
Clear(c) ==
    LET t == Target(arg[c])
    IN  /\ \/ /\ Goto(c, "clear", "clearing")
              /\ content[t] # Nil
              /\ partial' = partial \cup {t}
           \/ /\ Goto(c, "clear", "rename")
              /\ content[t] = Nil
              /\ UNCHANGED partial
        /\ UNCHANGED <<archives, content, torn, lock, arg, result, bounds>>

\* It is removed, or what is left of it stays.
Cleared(c) ==
    LET t == Target(arg[c])
    IN  \/ /\ Goto(c, "clearing", "rename")
           /\ content' = [content EXCEPT ![t] = Nil]
           /\ partial' = partial \ {t}
           /\ UNCHANGED <<archives, torn, lock, arg, result, bounds>>
        \/ /\ Fail(c, "clearing", "clear")
           /\ UNCHANGED <<disk, lock, arg, result, bounds>>

\* os.Rename puts the payload into its place at once.  When it fails, a file is
\* copied instead.
Rename(c) ==
    LET t == Target(arg[c])
    IN  \/ /\ Goto(c, "rename", "remove")
           /\ content' = [content EXCEPT ![t] = arg[c]]
           /\ partial' = partial \ {t}
           /\ torn' = torn \ {arg[c]}
           /\ UNCHANGED <<archives, lock, arg, result, bounds>>
        \/ /\ "rename" \in Faults
           /\ \/ Goto(c, "rename", "copy") /\ Kind[arg[c]] \notin Trees
              \/ Goto(c, "rename", "fail") /\ Kind[arg[c]] \in Trees
           /\ UNCHANGED <<disk, lock, arg, result, bounds>>

\* copyFile: os.Create truncates what was there.
Copy(c) ==
    LET t == Target(arg[c])
    IN  /\ Goto(c, "copy", "copying")
        /\ content' = [content EXCEPT ![t] = arg[c]]
        /\ partial' = partial \cup {t}
        /\ UNCHANGED <<archives, torn, lock, arg, result, bounds>>

\* Mutant of Copied: the error of the copy is dropped too.
CopiedAnyhow(c) ==
    /\ Goto(c, "copying", "remove")
    /\ \/ /\ partial' = partial \ {Target(arg[c])}
          /\ torn' = torn \ {arg[c]}
       \/ /\ "copy" \in Faults
          /\ UNCHANGED <<partial, torn>>
       \/ /\ "close" \in Faults
          /\ torn' = torn \cup {arg[c]}
          /\ UNCHANGED partial
    /\ UNCHANGED <<archives, content, lock, arg, result, bounds>>

\* The copy ends, or fails.  What only the deferred close of the new file reports
\* is dropped: that copy is cut short and passes for a whole one.
Copied(c) ==
    \/ /\ Goto(c, "copying", "remove")
       /\ partial' = partial \ {Target(arg[c])}
       /\ torn' = torn \ {arg[c]}
       /\ UNCHANGED <<archives, content, lock, arg, result, bounds>>
    \/ /\ Fail(c, "copying", "copy")
       /\ UNCHANGED <<disk, lock, arg, result, bounds>>
    \/ /\ "close" \in Faults
       /\ Goto(c, "copying", "remove")
       /\ torn' = torn \cup {arg[c]}
       /\ UNCHANGED <<archives, content, partial, lock, arg, result, bounds>>

\* The worker crashes: the disk is what remains.
Crash ==
    /\ "crash" \in Faults
    /\ crashes < MaxCrashes
    /\ crashes' = crashes + 1
    /\ lock' = [a \in Archives |-> Nil]
    /\ pc' = [c \in Callers |-> "idle"]
    /\ arg' = [c \in Callers |-> Nil]
    /\ result' = [c \in Callers |-> Nil]
    /\ UNCHANGED <<disk, resolves>>
-----------------------------------------------------------------------------
Step(c) ==
    \/ Lock(c) \/ Stat(c) \/ Lookup(c) \/ Start(c) \/ SevenZipEnds(c) \/ Classify(c)
    \/ Repack(c) \/ Clear(c) \/ Cleared(c) \/ Rename(c) \/ Copy(c) \/ Copied(c)
    \/ RemoveArchive(c) \/ Return(c)

Next ==
    \/ \E c \in Callers : (\E a \in Archives : Resolve(c, a)) \/ Step(c)
    \/ Crash

Spec == Init /\ [][Next]_vars

\* Goroutines run, 7z and extract-xiso end, and the mutex is handed on.
FairSpec == Spec /\ \A c \in Callers : WF_vars(Step(c))
-----------------------------------------------------------------------------
TypeOK ==
    /\ archives \subseteq Archives
    /\ content \in [Paths -> Archives \cup {Nil}]
    /\ partial \subseteq {p \in Paths : content[p] # Nil}
    /\ torn \subseteq Archives
    /\ lock \in [Archives -> Callers \cup {Nil}]
    /\ pc \in [Callers -> Places]
    /\ arg \in [Callers -> Archives \cup {Nil}]
    /\ result \in [Callers -> Paths \cup {Nil}]
    /\ resolves \in Nat
    /\ crashes \in Nat

\* No game is lost that unpacks to a path of its own: whatever fails, and
\* wherever the worker crashes, it has its archive or its whole payload on the
\* disk ("an interrupted extract leaves the source archive untouched").  The one
\* exception is a copy cut short that only its close reported, which copyFile
\* takes for whole: then the archive is removed all the same.
NoLoss == \A a \in Archives : Alone(a) => a \in archives \/ Whole(a) \/ a \in torn

\* A call for an archive with a path of its own, whose copy was not cut short
\* unnoticed, that gets through the extraction or finds the archive gone, finds
\* the whole payload on the disk, whoever unpacked it, and returns that payload
\* if the lookup tells it from others ("if the archive is gone but a plausible
\* payload sits next to it, reuse that").  It does not for a .chd, .cdi or .cue,
\* or where another image's name begins like the archive's.
Served ==
    \A c \in Callers :
        pc[c] = "return" /\ Alone(arg[c]) /\ arg[c] \notin torn =>
            /\ Whole(arg[c])
            /\ Findable(arg[c]) => result[c] = Target(arg[c])

\* Every call of Resolve returns, or its worker crashes: no error, nor a failed
\* caller before it, keeps it waiting for the archive's mutex.
ResolvesReturn == \A c \in Callers : pc[c] # "idle" ~> pc[c] = "idle"
=============================================================================
