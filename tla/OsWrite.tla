------------------------------ MODULE OsWrite ------------------------------
(***************************************************************************)
(* os_write of fs.c, one system call per step: the sibling temporary file, *)
(* its write, mode, sync and close, the rename over the destination, and   *)
(* the cleanup. Every call may fail. A signal may end the process and the  *)
(* power may fail between any two calls, and another process may replace   *)
(* or remove the destination. os_write implements AtomicFile.              *)
(*                                                                         *)
(* The file system is a directory of names, and inodes whose bytes are in  *)
(* the page cache until they are synced. A definition X_Fault is X with a  *)
(* fault in it, which no formula uses.                                     *)
(***************************************************************************)
EXTENDS Naturals

CONSTANTS
  None,        \* A name that names nothing
  Directory,   \* A name that names a directory
  Symlink,     \* The name "link" when it is a symbolic link to "dest"
  DataLen,     \* Length of the data
  Modes,       \* Permission bits
  TempMode,    \* The 0600 of mkstemp
  Created,     \* 0666 reduced by the umask
  MaxReplacements     \* Bound: replacements by other processes

ASSUME OsWriteAssumption ==
  /\ DataLen \in Nat /\ MaxReplacements \in Nat
  /\ {TempMode, Created} \subseteq Modes

Inode == {"old", "new", "theirs"}
Held(who, len) == [who |-> who, len |-> len]
Bytes == [who : Inode, len : 0..DataLen]

ASSUME NamesAssumption ==
  \A n \in {None, Directory, Symlink} : n \notin Inode \cup Bytes \cup Modes

VARIABLES
  path,       \* The path the caller gave: "dest" or "link"
  slash,      \* Whether it ends in a slash
  dir,        \* The directory: name |-> inode, directory, link or nothing
  bytes,      \* Bytes of each inode, as readers see them
  mode,       \* Permission bits of each inode
  synced,     \* Whether an inode's bytes and mode are on the device
  prev,       \* History: what the rename replaced
  existed,    \* History: the mode of the destination at first, or None
  writePc,         \* The next system call, or how the call ended
  target,     \* destination_path, after its symbolic link is resolved
  newMode,    \* mode_t mode of os_write
  tempOpen,     \* Whether the temporary file's descriptor is open
  rc,         \* 0 or -1: "ok" or "failed"
  isRenamed,
  litter,     \* History: whether unlink failed
  replacements       \* Edits by other processes so far

given == <<path, slash, existed>>
fs == <<dir, bytes, mode, synced, prev>>
locals == <<target, newMode, tempOpen, rc, isRenamed>>
writeVars == <<given, fs, writePc, locals, litter, replacements>>

Calls == {"resolve", "stat", "mkstemp", "write", "fchmod", "fsync", "close",
          "rename", "cleanup"}

IsInode(x) == x \in Inode

WriteInit ==
  /\ path \in {"dest", "link"} /\ slash \in BOOLEAN
  /\ \E d \in {"old", None, Directory}, m \in Modes :
       /\ dir = [dest |-> d, link |-> IF path = "link" THEN Symlink ELSE None, temp |-> None]
       /\ mode = [n \in Inode |-> m]
       /\ existed = IF d = "old" THEN m ELSE None
       /\ prev = d
  /\ bytes = [n \in Inode |-> Held(n, DataLen)]
  /\ synced = [n \in Inode |-> TRUE]
  /\ writePc = "resolve"
  /\ target = path /\ newMode = Created
  /\ tempOpen = FALSE /\ rc = "ok" /\ isRenamed = FALSE
  /\ litter = FALSE /\ replacements = 0

-----------------------------------------------------------------------------
(* Before the temporary file exists, a failure returns at once *)

ReturnFailed ==
  /\ writePc \in {"resolve", "stat"}
  /\ writePc' = "returned" /\ rc' = "failed"
  /\ UNCHANGED <<given, fs, target, newMode, tempOpen, isRenamed, litter, replacements>>

Resolved == IF path = "link" /\ ~slash THEN "dest" ELSE path

\* realpath fails for a dangling link.
Resolve ==
  /\ writePc = "resolve"
  /\ path = "link" /\ ~slash => dir["dest"] # None
  /\ writePc' = "stat" /\ target' = Resolved
  /\ UNCHANGED <<given, fs, newMode, tempOpen, rc, isRenamed, litter, replacements>>

\* stat follows a link that was not resolved.
Found == dir["dest"]

NewMode_Umask == Created
NewMode == IF Found \in Inode THEN mode[Found] ELSE Created

\* A directory is refused, and so is a file named with a slash.
Stat ==
  /\ writePc = "stat"
  /\ Found # Directory /\ ~(slash /\ Found \in Inode)
  /\ writePc' = "mkstemp" /\ newMode' = NewMode
  /\ UNCHANGED <<given, fs, target, tempOpen, rc, isRenamed, litter, replacements>>

(* The temporary file *)

\* The sibling of "dest/" is inside dest, which may have become a directory.
Mkstemp ==
  /\ writePc = "mkstemp" /\ (slash => dir["dest"] = Directory)
  /\ writePc' = "write" /\ tempOpen' = TRUE
  /\ dir' = [dir EXCEPT !["temp"] = "new"]
  /\ bytes' = [bytes EXCEPT !["new"] = Held("new", 0)]
  /\ mode' = [mode EXCEPT !["new"] = TempMode]
  /\ synced' = [synced EXCEPT !["new"] = FALSE]
  /\ UNCHANGED <<given, prev, target, newMode, rc, isRenamed, litter, replacements>>

MkstempFails ==
  /\ writePc = "mkstemp"
  /\ writePc' = "cleanup" /\ rc' = "failed"
  /\ UNCHANGED <<given, fs, target, newMode, tempOpen, isRenamed, litter, replacements>>

Written == bytes["new"].len

ShortWrites == 1..(DataLen - Written)

LenAfter_Restart(n) == n
LenAfter(n) == Written + n

\* write_all: a write may be short. An interrupted write changes nothing.
Write ==
  /\ writePc = "write"
  /\ \/ Written = DataLen /\ writePc' = "fchmod" /\ UNCHANGED bytes
     \/ /\ Written < DataLen /\ UNCHANGED writePc
        /\ \E n \in ShortWrites :
             bytes' = [bytes EXCEPT !["new"] = Held("new", LenAfter(n))]
  /\ UNCHANGED <<given, dir, mode, synced, prev, locals, litter, replacements>>

AfterFchmod_NoSync == "close"
AfterFchmod == "fsync"

Fchmod ==
  /\ writePc = "fchmod"
  /\ writePc' = AfterFchmod
  /\ mode' = [mode EXCEPT !["new"] = newMode]
  /\ UNCHANGED <<given, dir, bytes, synced, prev, locals, litter, replacements>>

Fsync ==
  /\ writePc = "fsync"
  /\ writePc' = "close"
  /\ synced' = [synced EXCEPT !["new"] = TRUE]
  /\ UNCHANGED <<given, dir, bytes, mode, prev, locals, litter, replacements>>

\* A failure of any of the three skips the others, and still closes.
TempFails ==
  /\ writePc \in {"write", "fchmod", "fsync"}
  /\ writePc' = "close" /\ rc' = "failed"
  /\ UNCHANGED <<given, fs, target, newMode, tempOpen, isRenamed, litter, replacements>>

Close ==
  /\ writePc = "close"
  /\ rc' \in {rc, "failed"}
  /\ writePc' = IF rc' = "ok" THEN "rename" ELSE "cleanup"
  /\ tempOpen' = FALSE
  /\ UNCHANGED <<given, fs, target, newMode, isRenamed, litter, replacements>>

(* The replacement *)

\* It replaces what the destination holds by now, but not a directory, which is all
\* that a path with a slash may name.
Rename ==
  /\ writePc = "rename" /\ ~slash /\ dir[target] # Directory
  /\ writePc' = "cleanup" /\ isRenamed' = TRUE
  /\ prev' = dir[target]
  /\ dir' = [dir EXCEPT ![target] = dir["temp"], !["temp"] = None]
  /\ UNCHANGED <<given, bytes, mode, synced, target, newMode, tempOpen, rc, litter, replacements>>

RenameFails ==
  /\ writePc = "rename"
  /\ writePc' = "cleanup" /\ rc' = "failed"
  /\ UNCHANGED <<given, fs, target, newMode, tempOpen, isRenamed, litter, replacements>>

Unlinks_OnSuccess == isRenamed
Unlinks == ~isRenamed

\* The result of unlink is discarded. What was made inside dest is not found there
\* when another process has put dest away.
Cleanup ==
  /\ writePc = "cleanup"
  /\ writePc' = "returned"
  /\ \/ /\ Unlinks /\ (slash => dir["dest"] = Directory)
        /\ dir' = [dir EXCEPT !["temp"] = None] /\ UNCHANGED litter
     \/ Unlinks /\ litter' = TRUE /\ UNCHANGED dir
     \/ ~Unlinks /\ UNCHANGED <<dir, litter>>
  /\ UNCHANGED <<given, bytes, mode, synced, prev, locals, replacements>>

-----------------------------------------------------------------------------
(* The environment *)

Kill ==
  /\ writePc \in Calls
  /\ writePc' = "killed"
  /\ UNCHANGED <<given, fs, locals, litter, replacements>>

\* What was not synced comes back as any part of it, and a rename may not have
\* reached the device.
PowerLoss ==
  /\ writePc # "off"
  /\ writePc' = "off"
  /\ \E len \in 0..Written, m \in {TempMode, mode["new"]} :
       IF synced["new"] THEN UNCHANGED <<bytes, mode>>
       ELSE /\ bytes' = [bytes EXCEPT !["new"] = Held("new", len)]
            /\ mode' = [mode EXCEPT !["new"] = m]
  /\ \/ UNCHANGED dir
     \/ isRenamed /\ dir' = [dir EXCEPT !["dest"] = prev]
  /\ UNCHANGED <<given, synced, prev, locals, litter, replacements>>

\* Another process replaces the destination by a file of its own, removes it, or
\* makes a directory of it.
Other(x) ==
  /\ writePc # "off" /\ replacements < MaxReplacements
  /\ replacements' = replacements + 1
  /\ dir' = [dir EXCEPT !["dest"] = x]
  /\ prev' = x
  /\ UNCHANGED <<given, bytes, mode, synced, writePc, locals, litter>>

WriteStep ==
  \/ ReturnFailed \/ Resolve \/ Stat \/ Mkstemp \/ MkstempFails
  \/ Write \/ Fchmod \/ Fsync \/ TempFails \/ Close
  \/ Rename \/ RenameFails \/ Cleanup

WriteNext ==
  \/ WriteStep \/ Kill \/ PowerLoss
  \/ \E x \in {"theirs", None, Directory} : Other(x)

\* One thread calls the system and each call returns. Signals that interrupt a
\* write stop arriving.
WriteSpec == WriteInit /\ [][WriteNext]_writeVars /\ WF_writeVars(WriteStep)

-----------------------------------------------------------------------------
(* Properties *)

WriteTypeOK ==
  /\ path \in {"dest", "link"} /\ slash \in BOOLEAN
  /\ dir \in [dest : Inode \cup {None, Directory}, link : {None, Symlink},
              temp : {None, "new"}]
  /\ bytes \in [Inode -> Bytes]
  /\ mode \in [Inode -> Modes]
  /\ synced \in [Inode -> BOOLEAN]
  /\ prev \in Inode \cup {None, Directory}
  /\ existed \in Modes \cup {None}
  /\ writePc \in Calls \cup {"returned", "killed", "off"}
  /\ target \in {"dest", "link"}
  /\ newMode \in Modes
  /\ tempOpen \in BOOLEAN /\ isRenamed \in BOOLEAN /\ litter \in BOOLEAN
  /\ rc \in {"ok", "failed"}
  /\ replacements \in 0..MaxReplacements

(* The refinement: what a reader sees, and how far the call is *)

Seen(x) == IF x \in Inode THEN bytes[x] ELSE x

CallState ==
  CASE writePc = "off" -> "off"
    [] writePc = "killed" -> "died"
    [] writePc = "returned" -> rc
    [] writePc \in Calls -> IF isRenamed THEN "committed" ELSE "pending"

Promise == INSTANCE AtomicFile
  WITH Value <- Bytes \cup {None, Directory}, New <- Held("new", DataLen),
       file <- Seen(dir["dest"]), before <- Seen(prev), call <- CallState

\* os_write does to its destination only what os.h promises: whole files only,
\* whatever fails, and whenever the process or the machine stops.
ImplementsAtomicFile == Promise!Spec

\* The destination keeps its permission bits, and a new one gets the umask's: the
\* 0600 of the temporary file is never seen on it, not even after a power loss.
ModeIsKept ==
  replacements = 0 /\ dir["dest"] = "new" =>
    mode["new"] = IF existed = None THEN Created ELSE existed

\* A call that returns leaves no temporary file and no open descriptor behind, on
\* every error path, and a symbolic link stays one.
NothingIsLeft ==
  /\ writePc = "returned" => ~tempOpen /\ (litter \/ dir["temp"] = None)
  /\ dir["link"] = IF path = "link" THEN Symlink ELSE None

\* The call returns unless the process or the machine stops.
WriteEnds == <>(writePc \notin Calls)
=============================================================================
