--------------------------- MODULE WorkspaceFiles ---------------------------
(***************************************************************************)
(* The file tools of the executor over one file: the reading ones, and the *)
(* writing ones of FileMutation, one call at a time.                       *)
(*                                                                         *)
(* The path is looked at, opened, looked at again and read in steps of     *)
(* their own.  Between any two of them the editor may write into the file  *)
(* or put another one, a link or nothing in its place.  What a path names  *)
(* at a moment is known by a number (its inode); numbers are not reused    *)
(* while a call runs.  Directories above the file stay what they are.      *)
(***************************************************************************)
EXTENDS FileMutation

CONSTANTS
  Outside,  \* what is read through a link
  Torn      \* a beginning of one content, and an end of another

ASSUME ReadsAssumption ==
  /\ {Outside, Torn} \intersect (Contents \union {Absent, Link, Partial}) = {}
  /\ Outside # Torn

VARIABLES
  at,      \* the step of the reading call
  view,    \* what it has seen so far
  node,    \* the number of what the path names
  answer,  \* the answer to the last call, if that was a reading one
  \* Observation only.
  named,   \* contents the path has named during the call
  rewritten  \* the file was written in place while it was read

readVars == <<at, view, node, answer, named, rewritten>>
fileVars == <<access, disk, pc, call, result, bounds, observed>>
allVars == <<fileVars, readVars>>

Listings == {"list_files", "list_recent_files", "search_name"}
Readings == {"read_file", "read_file_range", "calculate_hash", "search_content"}
\* The file is read in several pieces.
Piecewise == {"read_file_range", "calculate_hash"}

Foreign == 0  \* the number of what a link leads to
NoView == [tool |-> "read_file", seen |-> Foreign, opened |-> Foreign, held |-> Absent, first |-> Absent]
NoAnswer == [how |-> "none", content |-> Absent]
Answers == [how : {"none", "listed", "content", "skipped", "refused"},
            content : Contents \union {Absent, Link, Outside, Torn}]

FilesInit ==
  /\ Init
  /\ at = "idle" /\ view = NoView /\ node = 1
  /\ answer = NoAnswer
  /\ named = {} /\ rewritten = FALSE

-----------------------------------------------------------------------------
Says(how, content) ==
  /\ at' = "idle" /\ view' = NoView
  /\ answer' = [how |-> how, content |-> content]
  /\ node' = 1
  /\ UNCHANGED <<named, rewritten>>

Refuses == Says("refused", Absent)

Sees(step, seen) ==
  /\ at' = step /\ view' = seen
  /\ UNCHANGED <<node, answer, named, rewritten>>

\* A call reaches its handler.
Ask(tool) ==
  /\ pc = "idle" /\ at = "idle" /\ calls < MaxCalls
  /\ calls' = calls + 1
  /\ at' = (IF tool \in Listings \union {"search_content"} THEN "scan" ELSE "resolve")
  /\ view' = [NoView EXCEPT !.tool = tool]
  /\ answer' = NoAnswer
  /\ named' = {file} /\ rewritten' = FALSE
  /\ node' = 1
  /\ UNCHANGED <<access, disk, pc, call, result, edits, faults, observed>>

\* A path that is no path of a workspace, a range that ends before it begins,
\* a size beyond the limit: the path is not looked at.
Malformed ==
  /\ at = "scan" \/ (at = "resolve" /\ view.tool # "search_content")
  /\ Refuses

\* _collect_entries names everything it finds.
Scan ==
  /\ at = "scan"
  /\ IF view.tool = "search_content" /\ file \in Contents
     THEN Sees("resolve", view)
     ELSE Says("listed", file)

\* resolve_existing: a regular file of the workspace, reached by no link.
Resolvable == file \in Contents

Resolve ==
  /\ at = "resolve"
  /\ IF Resolvable THEN Sees("stat", view) ELSE Refuses

\* A link is looked at, not followed.
Stat ==
  /\ at = "stat"
  /\ IF file = Absent THEN Refuses ELSE Sees("open", [view EXCEPT !.seen = node])

\* A link is followed.
Open ==
  /\ at = "open"
  /\ CASE file = Absent -> Refuses
       [] file = Link -> Sees("verify", [view EXCEPT !.opened = Foreign, !.held = Outside])
       [] OTHER -> Sees("verify", [view EXCEPT !.opened = node, !.held = file])

\* Broken variant: the path is resolved again, but what is open is not compared.
VerifyResolves ==
  /\ at = "verify"
  /\ IF Resolvable THEN Sees("first", view) ELSE Refuses

\* _open_verified: what is open is what the path named before, and names now.
VerifyOpened ==
  /\ at = "verify"
  /\ IF Resolvable /\ view.seen = view.opened /\ view.opened = node
     THEN Sees("first", view)
     ELSE Refuses

\* What is not UTF-8 is no text; a hash is made of anything; a range may end
\* before what cannot be decoded.
Returns(content) ==
  \/ /\ content \in Texts \/ view.tool \in Piecewise \/ content = Torn
     /\ Says("content", content)
  \/ /\ content \notin Texts /\ view.tool # "calculate_hash"
     /\ Says(IF view.tool = "search_content" THEN "skipped" ELSE "refused", Absent)

First ==
  /\ at = "first"
  /\ IF view.tool \in Piecewise
     THEN Sees("rest", [view EXCEPT !.first = view.held])
     ELSE Returns(view.held)

Rest ==
  /\ at = "rest"
  /\ Returns(IF view.first = view.held THEN view.held ELSE Torn)

-----------------------------------------------------------------------------
\* The editor writes into the file, or puts something else in its place; what
\* is open stays open.
Disturb(content, inPlace) ==
  /\ Edit(content) /\ UNCHANGED access
  /\ IF at = "idle" THEN ~inPlace /\ UNCHANGED readVars
     ELSE /\ inPlace => {file, content} \subseteq Contents
          /\ node' = (IF inPlace THEN node ELSE node + 1)
          /\ view' = (IF inPlace /\ at \in {"verify", "first", "rest"} /\ view.opened = node
                      THEN [view EXCEPT !.held = content] ELSE view)
          /\ named' = named \union {content}
          /\ rewritten' = (rewritten \/ (at = "rest" /\ inPlace))
          /\ UNCHANGED <<at, answer>>

ReadStep == Malformed \/ Scan \/ Resolve \/ Stat \/ Open \/ VerifyOpened \/ First \/ Rest

FilesNext ==
  \/ /\ at = "idle" /\ Mutate
     /\ answer' = NoAnswer /\ named' = {} /\ rewritten' = FALSE /\ UNCHANGED <<at, view, node>>
  \/ \E tool \in Listings \union Readings : Ask(tool)
  \/ ReadStep /\ UNCHANGED fileVars
  \/ \E content \in Contents \union {Absent, Link}, inPlace \in BOOLEAN : Disturb(content, inPlace)

FilesSpec == FilesInit /\ [][FilesNext]_allVars

-----------------------------------------------------------------------------
(* Properties. *)

ReadTypeOK ==
  /\ at \in {"idle", "scan", "resolve", "stat", "open", "verify", "first", "rest"}
  /\ node \in 1..(MaxEdits + 1)
  /\ answer \in Answers

\* What a call returns as content of the path was its content at one moment of
\* the call - nothing that a link led to, and nothing from before it - or is
\* torn, by a write into the file between the pieces it was read in.  Only a
\* listing may name what is no file.
ReadsAreOfTheFile ==
  answer.how = "content" =>
    \/ answer.content \in named \intersect Contents
    \/ answer.content = Torn /\ rewritten

\* The tools read what the workspace holds, and lose nothing of it.
WorkspaceIsSound == ReadTypeOK /\ ReadsAreOfTheFile /\ FilesAreSafe

=============================================================================
