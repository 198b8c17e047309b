------------------------------- MODULE VFSNode -------------------------------
(***************************************************************************)
(* VFSNode::safelyOverwriteFile (source/files/vfsnode.cpp), by which       *)
(* VFileWriter::save(), VFSNode::copyFile() and VSettings write a file:    *)
(* the data goes to a temporary file beside the target, the target is      *)
(* removed or renamed, and the temporary file takes its name.  Any call of *)
(* the file system may fail, several threads may save the same target, and *)
(* a program that ends leaves the files as the state shows them.           *)
(***************************************************************************)
EXTENDS Naturals

CONSTANTS
    Savers,             \* the calls, each of another thread
    Original,           \* who wrote the target before; not a saver
    Stamps,             \* the clock in milliseconds, as the file names have it
    NoFile              \* no file has the name

ASSUME FileConstants == Original \notin Savers /\ NoFile \notin Savers \cup {Original}

Target == <<"target", 0>>
Temporary(t) == <<"tmp", t>>
Kept(t) == <<"ver", t>>
Names == {Target} \cup {Temporary(t) : t \in Stamps} \cup {Kept(t) : t \in Stamps}
Files == Savers \cup {Original}     \* a file is known by who created it

VARIABLES
    entry,              \* the directory: the file of each name
    data,               \* what each file holds, and whose it is
    saver,              \* where each call is
    stamp, keepOld,     \* of each call
    file,               \* the file each call has opened
    success,
    existed,            \* the target existed at first
    sourceShort,        \* history: a source held less than it was said to
    renameFailed        \* history: a temporary file could not take the target's name

call == <<stamp, keepOld>>
outcomes == <<sourceShort, renameFailed>>
fileVars == <<entry, data, saver, call, file, success, existed, outcomes>>

FileInit ==
    /\ existed \in BOOLEAN
    /\ entry = [n \in Names |-> IF n = Target /\ existed THEN Original ELSE NoFile]
    /\ data = [f \in Files |-> <<"whole", f>>]
    /\ saver = [s \in Savers |-> "idle"]
    /\ stamp \in [Savers -> Stamps] /\ keepOld \in [Savers -> BOOLEAN]
    /\ file = [s \in Savers |-> NoFile]
    /\ success = [s \in Savers |-> TRUE]
    /\ sourceShort = FALSE /\ renameFailed = FALSE

GoesTo(s, from, to) == saver[s] = from /\ saver' = [saver EXCEPT ![s] = to]
Fails(s) == success' = [success EXCEPT ![s] = FALSE]

-----------------------------------------------------------------------------
(* The temporary file *)

\* openWrite(): the file is created, or truncated if it exists.
Opens(s) ==
    LET temporary == Temporary(stamp[s])
        f == IF entry[temporary] = NoFile THEN s ELSE entry[temporary]
    IN
    /\ GoesTo(s, "idle", "writing")
    /\ entry' = [entry EXCEPT ![temporary] = f]
    /\ data' = [data EXCEPT ![f] = <<"partial", s>>]
    /\ file' = [file EXCEPT ![s] = f]
    /\ UNCHANGED <<call, success, existed, outcomes>>

OpenFails(s) ==
    /\ GoesTo(s, "idle", "cleaning")
    /\ Fails(s)
    /\ UNCHANGED <<entry, data, call, file, existed, outcomes>>

\* streamCopy() and flush().  A source that ends early is not noticed.
Writes(s, how) ==
    /\ GoesTo(s, "writing", "testing")
    /\ data' = [data EXCEPT ![file[s]] =
                    IF \E t \in Savers \ {s} : file[t] = file[s] THEN <<"mixed", s>> ELSE <<how, s>>]
    /\ sourceShort' = (sourceShort \/ how = "short")
    /\ UNCHANGED <<entry, call, file, success, existed, renameFailed>>

WriteFails(s) ==
    /\ GoesTo(s, "writing", "testing")
    /\ Fails(s)
    /\ UNCHANGED <<entry, data, call, file, existed, outcomes>>

-----------------------------------------------------------------------------
(* The three steps that follow *)

\* variant: the target is replaced whether or not the temporary file was written
ProceedsAnyway(s) == TRUE
Proceeds(s) == success[s]

\* Is there a target to remove?
TestsTarget(s) ==
    /\ GoesTo(s, "testing", IF ~ Proceeds(s) THEN "cleaning"
                            ELSE IF entry[Target] = NoFile THEN "replacing" ELSE "removing")
    /\ UNCHANGED <<entry, data, call, file, success, existed, outcomes>>

\* 1. The target is renamed, or removed.
RemovesTarget(s) ==
    /\ GoesTo(s, "removing", "replacing")
    /\ entry[Target] # NoFile
    /\ entry' = [n \in Names |-> IF n = Target THEN NoFile
                                 ELSE IF n = Kept(stamp[s]) /\ keepOld[s] THEN entry[Target]
                                 ELSE entry[n]]
    /\ UNCHANGED <<data, call, file, success, existed, outcomes>>

RemoveFails(s) ==
    /\ GoesTo(s, "removing", "cleaning")
    /\ Fails(s)
    /\ UNCHANGED <<entry, data, call, file, existed, outcomes>>

\* 2. The temporary file becomes the target.
Replaces(s) ==
    /\ GoesTo(s, "replacing", "saved")
    /\ entry[Temporary(stamp[s])] # NoFile
    /\ entry' = [entry EXCEPT ![Target] = entry[Temporary(stamp[s])],
                              ![Temporary(stamp[s])] = NoFile]
    /\ UNCHANGED <<data, call, file, success, existed, outcomes>>

ReplaceFails(s) ==
    /\ GoesTo(s, "replacing", "cleaning")
    /\ Fails(s)
    /\ renameFailed' = TRUE
    /\ UNCHANGED <<entry, data, call, file, existed, sourceShort>>

\* 3. Without success the temporary file is removed, if it can be, and the call throws.
Throws(s, removed) ==
    /\ GoesTo(s, "cleaning", "threw")
    /\ entry' = IF removed THEN [entry EXCEPT ![Temporary(stamp[s])] = NoFile] ELSE entry
    /\ UNCHANGED <<data, call, file, success, existed, outcomes>>

FileNext ==
    \E s \in Savers :
        \/ Opens(s) \/ OpenFails(s) \/ WriteFails(s)
        \/ \E how \in {"whole", "short"} : Writes(s, how)
        \/ TestsTarget(s) \/ RemovesTarget(s) \/ RemoveFails(s)
        \/ Replaces(s) \/ ReplaceFails(s)
        \/ \E removed \in BOOLEAN : Throws(s, removed)

FileSpec == FileInit /\ [][FileNext]_fileVars

-----------------------------------------------------------------------------
(* Properties *)

\* The directory and the calls have their types.
FileTypeOK ==
    /\ entry \in [Names -> Files \cup {NoFile}]
    /\ data \in [Files -> {"whole", "short", "partial", "mixed"} \X Files]
    /\ saver \in [Savers -> {"idle", "writing", "testing", "removing", "replacing", "cleaning",
                             "saved", "threw"}]
    /\ stamp \in [Savers -> Stamps] /\ keepOld \in [Savers -> BOOLEAN]
    /\ file \in [Savers -> Files \cup {NoFile}]
    /\ success \in [Savers -> BOOLEAN] /\ existed \in BOOLEAN
    /\ sourceShort \in BOOLEAN /\ renameFailed \in BOOLEAN

\* Two calls use the same temporary file: one may truncate, or remove, the other's.
SameTimeStamp == \E s, t \in Savers : s # t /\ stamp[s] = stamp[t]

HoldsWhole(n) == entry[n] # NoFile /\ data[entry[n]][1] = "whole"

\* Wherever the program ends, and whichever calls fail, the target is one complete
\* version, or it is missing and a complete one is in a temporary file that was
\* about to replace it (159-247), as long as no source was short, no two calls had
\* the same time stamp, and no temporary file failed to take the target's name.
AVersionSurvives ==
    ~ SameTimeStamp /\ ~ sourceShort /\ ~ renameFailed =>
        /\ entry[Target] # NoFile => HoldsWhole(Target)
        /\ existed /\ entry[Target] = NoFile =>
              \E s \in Savers : saver[s] = "replacing" /\ HoldsWhole(Temporary(stamp[s]))
=============================================================================
