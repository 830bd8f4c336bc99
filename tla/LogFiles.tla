-------------------------------- MODULE LogFiles --------------------------------
(***************************************************************************)
(* The log file of gh-collector (internal/logfile/logfile.go), which is    *)
(* renamed when the next line would make it too long, and the page of      *)
(* pulse-api that shows its end (app/admin/logs_viewer.py, /admin/logs).   *)
(*                                                                         *)
(* The mutex of Writer, and that of log.Logger around it, make a call of   *)
(* Write one thing for the goroutines. The viewer is another process on    *)
(* the same directory: it sees every system call by itself. Each call of   *)
(* a rotation may fail, and the collector may die between any two.         *)
(*                                                                         *)
(* A line is its number and is one unit long; the filter by level and the  *)
(* layout of the page are left out. Writing to an open file succeeds.      *)
(*                                                                         *)
(* The constants are positive numbers. Bound, for model checking only:     *)
(* MaxLine.                                                                *)
(***************************************************************************)
EXTENDS Integers, Sequences

CONSTANTS MaxBytes,    (* Writer.maxBytes *)
          Shown,       (* the parameter "lines" of /admin/logs *)
          MaxLine

VARIABLES disk,   (* the text at each path that exists *)
          file,   (* Writer.file: open on "log", open on a file that was removed, or closed *)
          size,   (* Writer.size *)
          pc,     (* the collector: "down", "idle", or inside of Write *)
          line,   (* the last line that was logged *)
          since,  (* the last line logged before the process began *)
          viewer, (* "idle", or "exists" once the file was seen *)
          page    (* what the viewer was shown last *)

writer == <<file, size, pc, line, since>>
vars == <<disk, writer, viewer, page>>

Exists(path) == path \in DOMAIN disk
Put(path, text) == [p \in DOMAIN disk \cup {path} |-> IF p = path THEN text ELSE disk[p]]
Without(files, path) == [p \in DOMAIN files \ {path} |-> files[p]]

(* openAppend: O_APPEND and O_CREATE, and the size the file has. *)
Opened == IF Exists("log") THEN UNCHANGED disk ELSE disk' = Put("log", <<>>)
Open == /\ Opened
        /\ file' = "open"
        /\ size' = Len(disk'["log"])

Init ==
  /\ disk = [p \in {} |-> <<>>]
  /\ file = "closed" /\ size = 0 /\ pc = "down" /\ line = 0 /\ since = 0
  /\ viewer = "idle" /\ page = <<>>
-----------------------------------------------------------------------------
(* New, when the process starts; if it fails there is no process. *)
Start ==
  /\ pc = "down"
  /\ Open
  /\ pc' = "idle"
  /\ since' = line
  /\ UNCHANGED <<line, viewer, page>>

Die ==
  /\ pc # "down"
  /\ pc' = "down" /\ file' = "closed"
  /\ UNCHANGED <<disk, size, line, since, viewer, page>>

(* Write, up to the file's own Write or to rename: Close ends the use of   *)
(* the file even if it reports an error, and of a closed file it does.     *)
Log ==
  /\ pc = "idle" /\ line < MaxLine
  /\ line' = line + 1
  /\ \/ size + 1 <= MaxBytes /\ pc' = "write" /\ UNCHANGED file
     \/ size + 1 > MaxBytes /\ file # "closed" /\ pc' \in {"rename", "write"} /\ file' = "closed"
     \/ size + 1 > MaxBytes /\ file = "closed" /\ pc' = "write" /\ UNCHANGED file
  /\ UNCHANGED <<disk, size, since, viewer, page>>

(* os.Rename; a file that is not there is no error. *)
Rename ==
  /\ pc = "rename"
  /\ disk' = IF Exists("log") THEN Without(Put("log.1", disk["log"]), "log") ELSE disk
  /\ pc' = "reopen"
  /\ UNCHANGED <<file, size, line, since, viewer, page>>

Reopen ==
  /\ pc = "reopen"
  /\ Open
  /\ pc' = "write"
  /\ UNCHANGED <<line, since, viewer, page>>

(* rotate returns an error: Write goes on with the file it has. openAppend *)
(* may fail before and after it has made the file.                         *)
RotateFails ==
  /\ pc \in {"rename", "reopen"}
  /\ pc' = "write"
  /\ \/ UNCHANGED disk
     \/ pc = "reopen" /\ Opened
  /\ UNCHANGED <<file, size, line, since, viewer, page>>

(* The write to the file: an error if it is closed, and unseen by anybody  *)
(* if it was removed.                                                      *)
AppendLine ==
  /\ pc = "write"
  /\ pc' = "idle"
  /\ disk' = IF file = "open" THEN [disk EXCEPT !["log"] = Append(@, line)] ELSE disk
  /\ size' = IF file = "closed" THEN size ELSE size + 1
  /\ UNCHANGED <<file, line, since, viewer, page>>

(* Somebody clears the log while it is open. *)
Remove ==
  /\ file = "open"
  /\ disk' = Without(disk, "log")
  /\ file' = "removed"
  /\ UNCHANGED <<size, pc, line, since, viewer, page>>
-----------------------------------------------------------------------------
(* read_log_tail: path.exists(), and then read_text() of what is there.    *)
Look ==
  /\ viewer = "idle"
  /\ IF Exists("log") THEN viewer' = "exists" /\ UNCHANGED page
                      ELSE page' = <<>> /\ UNCHANGED viewer
  /\ UNCHANGED <<disk, writer>>

LastLines(text) == SubSeq(text, IF Len(text) > Shown THEN Len(text) - Shown + 1 ELSE 1, Len(text))

Show ==
  /\ viewer = "exists" /\ Exists("log")
  /\ page' = LastLines(disk["log"])
  /\ viewer' = "idle"
  /\ UNCHANGED <<disk, writer>>

(* FileNotFoundError: the answer is 500. *)
ShowFails ==
  /\ viewer = "exists" /\ ~Exists("log")
  /\ viewer' = "idle"
  /\ UNCHANGED <<disk, writer, page>>

Next == \/ Start \/ Die \/ Log \/ Rename \/ Reopen \/ RotateFails \/ AppendLine \/ Remove
        \/ Look \/ Show \/ ShowFails

Spec == Init /\ [][Next]_vars
-----------------------------------------------------------------------------
(* A line that Write has returned for is the last of the file, or went to  *)
(* a file somebody removed: when a rotation fails, logfile.go:60-61 has it *)
(* written to the file that is open, too long as it may be, rather than    *)
(* lost (logfile.go:58-66).                                                *)
LineSurvivesFailedRotation ==
  pc = "idle" /\ line > since /\ file # "removed" =>
    Exists("log") /\ disk["log"] # <<>> /\ disk["log"][Len(disk["log"])] = line
=============================================================================
