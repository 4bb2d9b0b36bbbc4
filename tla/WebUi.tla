------------------------------- MODULE WebUi -------------------------------
(***************************************************************************)
(* The page in the browser (ui/js.js): the directory the user is in, the   *)
(* listings asked for and shown, and the queue of files to upload.  Every  *)
(* callback of the browser is one step.  Requests for listings run beside  *)
(* each other and are answered in any order; uploads run one at a time.    *)
(* What is only displayed is left out, the counters and the list of        *)
(* completed files among it, and so is the directory a file goes to.       *)
(***************************************************************************)
EXTENDS Naturals, Sequences, FiniteSets, SequencesExt

CONSTANTS
  Dirs,          \* directories that exist: sequences of names, the drive first
  Home,          \* the drive that is opened first
  MaxDepth,      \* names in a path
  MaxFiles,      \* files the user chooses
  MaxAsks,       \* listings asked for at a time
  MaxFaults      \* requests that go wrong

ASSUME WebUiAssumption ==
  /\ Home \in Dirs /\ Len(Home) = 1
  /\ \A d \in Dirs : Len(d) > 1 => Front(d) \in Dirs
  /\ {MaxDepth, MaxFiles, MaxAsks, MaxFaults} \subseteq Nat

NoPath == <<>>
NoFile == 0

VARIABLES
  path,          \* CURRENT_GEMDOS_PATH
  shown,         \* the directory whose entries the page shows
  pending,       \* REQUEST_PENDING
  asked,         \* directories whose listing is on its way
  chosen,        \* files chosen so far, which are 1..chosen
  reading,       \* files a FileReader is at
  queue,         \* UPLOAD_PROCESS_LIST
  current,       \* UPLOAD_CURRENT_UPLOAD_REQUEST_OBJECT, if UPLOAD_INPROGRESS
  queFinished,   \* UPLOAD_QUE_FINISHED
  failed,        \* UPLOAD_FAILED_REQUEST_LIST
  answered,      \* history: files whose upload has been answered
  listed,        \* history: those of them before the last listing was asked for
  faults         \* requests gone wrong

view == <<path, shown, pending, asked>>
picked == <<chosen, reading>>
uploads == <<queue, current, queFinished, failed, answered>>
vars == <<view, picked, uploads, listed, faults>>

-----------------------------------------------------------------------------
(* Directories.                                                             *)

\* sendHttpReq(..., 'dir', 'GET', processDirectoryListReq)
AskListing(dir) ==
  /\ asked' = asked \cup {dir} /\ Cardinality(asked') <= MaxAsks
  /\ listed' = answered'

\* processDriveListReq(): the list of drives comes, and the first is opened.
DriveList ==
  /\ path = NoPath
  /\ path' = Home
  /\ UNCHANGED <<shown, pending, picked, uploads, faults>>
  /\ AskListing(Home)

\* handleDriveOnClick(), requestChangeDrive(): without a look at REQUEST_PENDING.
ClickDrive ==
  /\ path # NoPath
  /\ \E d \in Dirs : Len(d) = 1 /\ path' = d
  /\ UNCHANGED <<shown, pending, picked, uploads, faults>>
  /\ AskListing(path')

\* createDirectoryEntries(): the buttons of the page are those of the listing
\* that came last, which need not be the one of the current path.
Buttons == {Last(d) : d \in {e \in Dirs : Len(e) > 1 /\ Front(e) = shown}}

\* handleDirectoryOnClick(), requestChangeDir(): the name is put behind the
\* current path, or the last name taken off; handleBcOnClick() takes off any
\* number.
ClickDirectory ==
  /\ shown # NoPath /\ ~pending
  /\ \/ \E name \in Buttons : Len(path) < MaxDepth /\ path' = Append(path, name)
     \/ \E n \in 1..Len(path) : path' = SubSeq(path, 1, n)
  /\ pending' = TRUE
  /\ UNCHANGED <<shown, picked, uploads, faults>>
  /\ AskListing(path')

\* processCreateNewDirectoryReq(): the directory is made, and the view refreshed.
NewFolder ==
  /\ shown # NoPath
  /\ UNCHANGED <<path, shown, pending, picked, uploads, faults>>
  /\ AskListing(path)

\* processDirectoryListReq(), which alone clears REQUEST_PENDING.  The server
\* answers for a directory that does not exist as for an empty one.
Listing ==
  /\ \E d \in asked : shown' = d /\ asked' = asked \ {d}
  /\ pending' = FALSE
  /\ UNCHANGED <<path, picked, uploads, listed, faults>>

\* sendHttpReq() calls its handler only when the status is 200.
NoListing ==
  /\ faults < MaxFaults /\ faults' = faults + 1
  /\ \E d \in asked : asked' = asked \ {d}
  /\ UNCHANGED <<path, shown, pending, picked, uploads, listed>>

-----------------------------------------------------------------------------
(* Uploads.                                                                 *)

\* uploadFiles() or dnd_handleDrop(), traverseFileTree(): addFileToUploadQue().
Choose ==
  /\ path # NoPath /\ chosen < MaxFiles
  /\ chosen' = chosen + 1 /\ reading' = reading \cup {chosen'}
  /\ UNCHANGED <<view, uploads, listed, faults>>

\* reader.onload, or fileLoadOnError(), which says nothing to the user.
FileRead ==
  /\ \E f \in reading :
       /\ reading' = reading \ {f}
       /\ \/ queue' = Append(queue, f) /\ UNCHANGED faults
          \/ faults < MaxFaults /\ faults' = faults + 1 /\ UNCHANGED queue
  /\ UNCHANGED <<view, chosen, current, queFinished, failed, answered, listed>>

\* Wrong on purpose: the queue is looked at before its first is taken.
UpdateEarly ==
  /\ queue # <<>> /\ current = NoFile
  /\ current' = Head(queue) /\ queue' = Tail(queue)
  /\ queFinished' = (queFinished \/ queue = <<>>)
  /\ UNCHANGED <<view, picked, failed, answered, listed, faults>>

\* update(), at every frame: the next upload starts when the last is over.
Update ==
  /\ queue # <<>> /\ current = NoFile
  /\ current' = Head(queue) /\ queue' = Tail(queue)
  /\ queFinished' = (queFinished \/ Tail(queue) = <<>>)
  /\ UNCHANGED <<view, picked, failed, answered, listed, faults>>

\* handleUploadReqStateChange(): the upload is answered, or fails.  After the
\* file that emptied the queue the view is refreshed, also when others have
\* come meanwhile; the last of those empties it again.
Uploaded ==
  /\ current # NoFile
  /\ \/ UNCHANGED <<failed, faults>>
     \/ /\ faults < MaxFaults /\ faults' = faults + 1
        /\ failed' = failed \cup {current}
  /\ answered' = answered \cup {current}
  /\ current' = NoFile
  /\ queFinished' = FALSE
  /\ IF queFinished THEN AskListing(path) ELSE UNCHANGED <<asked, listed>>
  /\ UNCHANGED <<path, shown, pending, picked, queue>>

\* requeFailedTransfers(): its loop runs to `.lenght', which is undefined, so
\* nothing is queued anew and the list is gone.
RequeFailed ==
  /\ failed # {} /\ failed' = {}
  /\ UNCHANGED <<view, picked, queue, current, queFinished, answered, listed, faults>>

-----------------------------------------------------------------------------
\* initInternals(), startup()
Init ==
  /\ path = NoPath /\ shown = NoPath /\ pending = FALSE /\ asked = {}
  /\ chosen = 0 /\ reading = {}
  /\ queue = <<>> /\ current = NoFile /\ queFinished = FALSE
  /\ failed = {} /\ answered = {} /\ listed = {} /\ faults = 0

Next ==
  \/ DriveList \/ ClickDrive \/ ClickDirectory \/ NewFolder \/ Listing \/ NoListing
  \/ Choose \/ FileRead \/ Update \/ Uploaded \/ RequeFailed

Spec == Init /\ [][Next]_vars

\* The browser calls mainLoop() at every frame, and every request it has sent is
\* answered or given up.  (SF, for the bound on the listings asked for may stand
\* in the way of an upload's end now and then.)
FairSpec ==
  /\ Spec
  /\ WF_vars(Update) /\ WF_vars(Listing) /\ SF_vars(Uploaded)

-----------------------------------------------------------------------------
(* Property.                                                                *)

\* A file that is queued is in the end uploaded or reported as failed, whatever
\* is queued, clicked or lost meanwhile, and after that the page asks for the
\* directory anew, so that the user sees it.
UploadsAreListed ==
  \A f \in 1..MaxFiles : (f \in ToSet(queue)) ~> (f \in listed)
=============================================================================
