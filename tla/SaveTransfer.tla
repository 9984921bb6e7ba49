---------------------------- MODULE SaveTransfer -----------------------------
(***************************************************************************)
(* Uploads and downloads of one save file: the browser that cuts a file    *)
(* into chunks (web dashboard2.component.ts), the PUT route and save_put   *)
(* of the management server, the agent's save handlers with util/saves.rs, *)
(* and the download links of link_download.rs.                             *)
(*                                                                         *)
(* A file is a sequence of chunks, and a chunk is the content it is a part *)
(* of: an intact file is a run of one content.  The chunks of an upload    *)
(* are numbered from 0; the request at number Size[c] is the sentinel, with*)
(* an empty body.  The name and the length of an upload are those of the   *)
(* file that was selected when it began, but each chunk is cut, when it is *)
(* sent, from the file selected then.  A handler that has opened a file    *)
(* keeps its inode, even when the name is removed or replaced.             *)
(***************************************************************************)
EXTENDS Naturals, Sequences, FiniteSets

CONSTANTS
  Uploads,      \* browsers that upload to the name
  Downloads,    \* downloads of the name
  Contents,     \* the files they upload
  Size,         \* their lengths in chunks
  Inodes,       \* enough of them for the name and every open handle
  Links,        \* download links
  Expiry,       \* LINK_EXPIRY and ...
  Interval,     \* ... CLEANUP_INTERVAL, in ticks
  MaxRequests,  \* bound on uploads, downloads, deletions and creations begun
  MaxTrouble    \* bound on timeouts, failures and crashes

Created == "created"   \* what Factorio writes for save_create
Hole    == "hole"      \* bytes that were never written
Torn    == "torn"      \* a chunk that was written in part
NoContent == "no content"
Empty   == "empty"     \* the body of a request without bytes
NoInode == "no inode"
Idle    == "idle"

ASSUME ConstantsAssumption ==
  /\ Size \in [Contents -> Nat]
  /\ {Created, Hole, Torn, NoContent, Empty} \cap Contents = {}
  /\ NoInode \notin Inodes
  /\ IsFiniteSet(Uploads) /\ IsFiniteSet(Downloads) /\ IsFiniteSet(Inodes)
  /\ Cardinality(Inodes) > 1 + Cardinality(Uploads) + Cardinality(Downloads)
  /\ Expiry \in Nat /\ Interval \in Nat
  /\ MaxRequests \in Nat /\ MaxTrouble \in Nat

VARIABLES
  name,      \* the inode the save's name refers to
  disk,      \* what the inodes hold
  upload,    \* each browser: idle, sending, waiting, complete or failed
  content,   \* what it began to upload
  selected,  \* the file selected in it
  strayed,   \* uploads during which another file was selected
  next,      \* the chunk it is at
  task,      \* the agent's handler of its chunk: none, spawned or opened
  body,      \* what that chunk is a part of
  fd,        \* the inode that handler has opened
  mixed,     \* uploads that another writer of other content has met
  deleting,  \* has save_delete found the save?
  creating,  \* has save_create found that there is none?
  download,  \* each download: idle, listed, reading, read, delivered or failed
  rfd, got,  \* the inode it reads, and what it has read
  promised,  \* the content it must deliver, if nobody else writes
  links,     \* the links in the map
  age,       \* time since each link was made
  timer,     \* time since the last cleanup
  requests, trouble

file == <<name, disk>>
selection == <<content, selected, strayed>>
handling == <<task, body, fd>>
uploading == <<upload, selection, next, handling>>
downloading == <<download, rfd, got>>
linking == <<links, age, timer>>
vars == <<file, uploading, mixed, deleting, creating, downloading, promised, linking,
          requests, trouble>>

Cells == Contents \cup {Created, Hole, Torn}
Full(c) == [i \in 1..Size[c] |-> c]
NeverMade == Expiry + Interval + 2

(* Every variable holds a value of the kind the code keeps in it, and the   *)
(* handles are those of the handlers that have opened the file.             *)
TypeOK ==
  /\ name \in Inodes \cup {NoInode}
  /\ disk \in [Inodes -> Seq(Cells)]
  /\ upload \in [Uploads -> {Idle, "sending", "waiting", "complete", "failed"}]
  /\ content \in [Uploads -> Contents \cup {NoContent}] /\ next \in [Uploads -> Nat]
  /\ selected \in [Uploads -> Contents \cup {NoContent}] /\ strayed \subseteq Uploads
  /\ \A u \in Uploads : upload[u] # Idle => content[u] \in Contents /\ next[u] \in 0..Size[content[u]]
  /\ task \in [Uploads -> {"none", "spawned", "opened"}]
  /\ body \in [Uploads -> Contents \cup {Empty}]
  /\ fd \in [Uploads -> Inodes \cup {NoInode}]
  /\ \A u \in Uploads : (task[u] = "opened") = (fd[u] # NoInode)
  /\ mixed \subseteq Uploads
  /\ deleting \in BOOLEAN /\ creating \in BOOLEAN
  /\ download \in [Downloads -> {Idle, "listed", "reading", "read", "delivered", "failed"}]
  /\ rfd \in [Downloads -> Inodes \cup {NoInode}]
  /\ \A d \in Downloads : (download[d] = "reading") = (rfd[d] # NoInode)
  /\ got \in [Downloads -> Seq(Cells)]
  /\ promised \in [Downloads -> Contents \cup {NoContent}]
  /\ links \subseteq Links
  /\ age \in [Links -> 0..NeverMade] /\ timer \in 0..Interval
  /\ requests \in 0..MaxRequests /\ trouble \in 0..MaxTrouble

(* There may be a save of that name, from an earlier upload.                *)
Init ==
  /\ name \in {NoInode} \cup {CHOOSE i \in Inodes : TRUE}
  /\ \E c \in Contents : disk = [i \in Inodes |-> IF i = name THEN Full(c) ELSE << >>]
  /\ upload = [u \in Uploads |-> Idle]
  /\ content = [u \in Uploads |-> NoContent]
  /\ selected = [u \in Uploads |-> NoContent] /\ strayed = {}
  /\ next = [u \in Uploads |-> 0]
  /\ task = [u \in Uploads |-> "none"]
  /\ body = [u \in Uploads |-> Empty]
  /\ fd = [u \in Uploads |-> NoInode]
  /\ mixed = {}
  /\ deleting = FALSE /\ creating = FALSE
  /\ download = [d \in Downloads |-> Idle]
  /\ rfd = [d \in Downloads |-> NoInode]
  /\ got = [d \in Downloads |-> << >>]
  /\ promised = [d \in Downloads |-> NoContent]
  /\ links = {} /\ age = [l \in Links |-> NeverMade] /\ timer = 0
  /\ requests = 0 /\ trouble = 0

-----------------------------------------------------------------------------
(* Who writes.  A chunk whose request timed out still counts: the agent may *)
(* yet handle it.                                                           *)

Writing(u) == upload[u] \in {"sending", "waiting"} \/ task[u] # "none"

(* A writer of content c begins: the uploads and the downloads of another   *)
(* content can no longer expect anything.  me is the upload that begins.    *)
Meet(me, c) ==
  /\ mixed' = {v \in Uploads \ me : v \in mixed \/ content[v] \notin {c, NoContent}}
                \cup {u \in me : \/ deleting \/ creating
                                 \/ \E v \in Uploads \ me :
                                      Writing(v) /\ (content[v] # c \/ v \in strayed)}
  /\ promised' = [d \in Downloads |->
                    IF download[d] \in {"listed", "reading"} /\ promised[d] # c
                    THEN NoContent ELSE promised[d]]

NewRequest == requests < MaxRequests /\ requests' = requests + 1
NewTrouble == trouble < MaxTrouble /\ trouble' = trouble + 1

Fresh == CHOOSE i \in Inodes : /\ i # name
                               /\ \A u \in Uploads : fd[u] # i
                               /\ \A d \in Downloads : rfd[d] # i

-----------------------------------------------------------------------------
(* The browser                                                             *)

(* uploadSavefile: the requests are prepared in the order of their offsets. *)
Begin(u, c) ==
  /\ ~Writing(u)
  /\ NewRequest
  /\ upload' = [upload EXCEPT ![u] = "sending"]
  /\ content' = [content EXCEPT ![u] = c]
  /\ selected' = [selected EXCEPT ![u] = c]
  /\ strayed' = strayed \ {u}
  /\ next' = [next EXCEPT ![u] = 0]
  /\ Meet({u}, c)
  /\ UNCHANGED <<file, handling, deleting, creating, downloading, linking, trouble>>

(* The input is not disabled meanwhile: another file is selected, the same  *)
(* again, or none.  What another one's chunks make of the save is anybody's *)
(* guess from here on.                                                      *)
Select(u, c) ==
  /\ upload[u] \in {"sending", "waiting"} /\ c # selected[u]
  /\ NewTrouble
  /\ selected' = [selected EXCEPT ![u] = c]
  /\ IF c \in {content[u], NoContent}
     THEN UNCHANGED <<strayed, mixed, promised>>
     ELSE strayed' = strayed \cup {u} /\ Meet({}, NoContent)
  /\ UNCHANGED <<file, upload, content, next, handling, deleting, creating, downloading, linking,
                 requests>>

IsSentinel(u) == next[u] = Size[content[u]]

(* slice: there is nothing left of a file that is shorter.                  *)
Slice(u) == IF next[u] < Size[selected[u]] THEN selected[u] ELSE Empty

(* The next chunk, or the sentinel, is PUT; put_savefile sends it to the    *)
(* agent with the start of its Content-Range, and the agent spawns a task.  *)
Put(u) ==
  /\ upload[u] = "sending"
  /\ task[u] = "none"
  /\ IsSentinel(u) \/ selected[u] # NoContent
  /\ upload' = [upload EXCEPT ![u] = "waiting"]
  /\ task' = [task EXCEPT ![u] = "spawned"]
  /\ body' = [body EXCEPT ![u] = IF IsSentinel(u) THEN Empty ELSE Slice(u)]
  /\ UNCHANGED <<file, selection, next, fd, mixed, deleting, creating, downloading, promised,
                 linking, requests, trouble>>

(* There is no file to cut the chunk from. *)
PutThrows(u) ==
  /\ upload[u] = "sending" /\ ~IsSentinel(u) /\ selected[u] = NoContent
  /\ upload' = [upload EXCEPT ![u] = "failed"]
  /\ UNCHANGED <<file, selection, next, handling, mixed, deleting, creating, downloading, promised,
                 linking, requests, trouble>>

(* The browser goes on when the chunk was answered with Ok, and is done     *)
(* after the sentinel.  An answer nobody waits for any more is dropped.     *)
Answered(u) ==
  IF upload[u] # "waiting" THEN UNCHANGED <<upload, next>>
  ELSE IF IsSentinel(u)
  THEN upload' = [upload EXCEPT ![u] = "complete"] /\ UNCHANGED next
  ELSE upload' = [upload EXCEPT ![u] = "sending"] /\ next' = [next EXCEPT ![u] = @ + 1]

GivesUp(u) ==
  upload' = [upload EXCEPT ![u] = IF @ = "waiting" THEN "failed" ELSE @]

(* response_or_timeout of save_put: no answer within 10 s.  The rest of the *)
(* upload is not sent; the handler of the chunk is not stopped.             *)
TimesOut(u) ==
  /\ upload[u] = "waiting"
  /\ IF task[u] = "none" THEN UNCHANGED trouble ELSE NewTrouble
  /\ GivesUp(u)
  /\ UNCHANGED <<file, selection, next, handling, mixed, deleting, creating, downloading,
                 promised, linking, requests>>

-----------------------------------------------------------------------------
(* The agent's save_set, util/saves.rs set_savefile                        *)

(* The file is created if it is not there, and not truncated if it is.      *)
Open(u) ==
  /\ task[u] = "spawned"
  /\ LET i == IF name = NoInode THEN Fresh ELSE name
     IN  /\ name' = i
         /\ disk' = IF name = NoInode THEN [disk EXCEPT ![i] = << >>] ELSE disk
         /\ fd' = [fd EXCEPT ![u] = i]
  /\ task' = [task EXCEPT ![u] = "opened"]
  /\ UNCHANGED <<upload, selection, next, body, mixed, deleting, creating, downloading, promised,
                 linking, requests, trouble>>

WriteAt(s, k, c) ==
  [i \in 1..(IF Len(s) < k THEN k ELSE Len(s)) |->
     IF i = k THEN c ELSE IF i <= Len(s) THEN s[i] ELSE Hole]

SetLen(s, n) == [i \in 1..n |-> IF i <= Len(s) THEN s[i] ELSE Hole]

(* Mutant: the sentinel is taken for a chunk without bytes. *)
StoredUntrimmed(s, u) ==
  IF body[u] = Empty THEN s ELSE WriteAt(s, next[u] + 1, body[u])

(* A chunk is written at its offset; one without bytes is the sentinel,     *)
(* which trims the file.                                                    *)
Stored(s, u) ==
  IF body[u] = Empty THEN SetLen(s, next[u]) ELSE WriteAt(s, next[u] + 1, body[u])

(* Mutant: the handle outlives the handler. *)
FinishLeaksHandle(u) ==
  /\ task' = [task EXCEPT ![u] = "none"]
  /\ body' = [body EXCEPT ![u] = Empty]
  /\ UNCHANGED fd

Finish(u) ==
  /\ task' = [task EXCEPT ![u] = "none"]
  /\ body' = [body EXCEPT ![u] = Empty]
  /\ fd' = [fd EXCEPT ![u] = NoInode]

Store(u) ==
  /\ task[u] = "opened"
  /\ disk' = [disk EXCEPT ![fd[u]] = Stored(@, u)]
  /\ Finish(u)
  /\ Answered(u)
  /\ UNCHANGED <<name, selection, mixed, deleting, creating, downloading, promised, linking,
                 requests, trouble>>

(* The directory, the open, the write or the set_len fails, a write perhaps *)
(* after a part of the chunk; a part of a chunk over the same chunk changes *)
(* nothing.                                                                 *)
StoreFails(u) ==
  /\ task[u] # "none"
  /\ NewTrouble
  /\ \/ UNCHANGED disk
     \/ /\ task[u] = "opened" /\ body[u] # Empty
        /\ LET s == disk[fd[u]]
               k == next[u] + 1
           IN  disk' = [disk EXCEPT ![fd[u]] =
                          IF k <= Len(s) /\ s[k] = body[u] THEN s ELSE WriteAt(s, k, Torn)]
  /\ Finish(u)
  /\ GivesUp(u)
  /\ UNCHANGED <<name, selection, next, mixed, deleting, creating, downloading, promised,
                 linking, requests>>

(* The request, or the answer to it, is lost with the connection.           *)
Lost(u) ==
  /\ task[u] = "spawned"
  /\ NewTrouble
  /\ task' = [task EXCEPT ![u] = "none"]
  /\ body' = [body EXCEPT ![u] = Empty]
  /\ UNCHANGED <<file, upload, selection, next, fd, mixed, deleting, creating, downloading,
                 promised, linking, requests>>

-----------------------------------------------------------------------------
(* save_delete and save_create                                             *)

(* Both look in the directory first and act later.                          *)
Delete ==
  /\ ~deleting /\ name # NoInode
  /\ NewRequest
  /\ deleting' = TRUE
  /\ Meet({}, NoContent)
  /\ UNCHANGED <<file, uploading, creating, downloading, linking, trouble>>

Remove ==
  /\ deleting
  /\ deleting' = FALSE
  /\ \/ name' = NoInode /\ UNCHANGED trouble
     \/ NewTrouble /\ UNCHANGED name   \* remove_file fails
  /\ UNCHANGED <<disk, uploading, mixed, creating, downloading, promised, linking, requests>>

Create ==
  /\ ~creating /\ name = NoInode
  /\ NewRequest
  /\ creating' = TRUE
  /\ Meet({}, Created)
  /\ UNCHANGED <<file, uploading, deleting, downloading, linking, trouble>>

(* The Factorio process writes the save, over the file or in its place, or  *)
(* fails.                                                                   *)
CreateEnds ==
  /\ creating
  /\ creating' = FALSE
  /\ \/ \E i \in {name, Fresh} \ {NoInode} :
          name' = i /\ disk' = [disk EXCEPT ![i] = <<Created>>]
     \/ UNCHANGED file
  /\ UNCHANGED <<uploading, mixed, deleting, downloading, promised, linking, requests, trouble>>

-----------------------------------------------------------------------------
(* Downloads                                                               *)

(* What a browser may expect of the file now: the upload that was reported  *)
(* complete and that nobody else has met.                                   *)
Kept(u) == upload[u] = "complete" /\ u \notin mixed
Expected == IF \E u \in Uploads : Kept(u)
            THEN content[CHOOSE u \in Uploads : Kept(u)] ELSE NoContent

(* The browser follows a link; the agent finds the save in the directory.   *)
Download(d, l) ==
  /\ download[d] \notin {"listed", "reading", "read"}
  /\ l \in links
  /\ name # NoInode
  /\ NewRequest
  /\ download' = [download EXCEPT ![d] = "listed"]
  /\ got' = [got EXCEPT ![d] = << >>]
  /\ promised' = [promised EXCEPT ![d] = Expected]
  /\ UNCHANGED <<file, uploading, mixed, deleting, creating, rfd, linking, trouble>>

(* fs::read opens the file and reads on until it finds the end.  It fails   *)
(* when the file has been removed since the directory was listed.           *)
ReadOpens(d) ==
  /\ download[d] = "listed"
  /\ rfd' = [rfd EXCEPT ![d] = name]
  /\ download' = [download EXCEPT ![d] = IF name = NoInode THEN "failed" ELSE "reading"]
  /\ UNCHANGED <<file, uploading, mixed, deleting, creating, got, promised, linking, requests,
                 trouble>>

Read(d) ==
  /\ download[d] = "reading"
  /\ LET s == disk[rfd[d]]
         k == Len(got[d]) + 1
     IN  IF k <= Len(s)
         THEN got' = [got EXCEPT ![d] = Append(@, s[k])] /\ UNCHANGED <<download, rfd>>
         ELSE /\ download' = [download EXCEPT ![d] = "read"]
              /\ rfd' = [rfd EXCEPT ![d] = NoInode]
              /\ UNCHANGED got
  /\ UNCHANGED <<file, uploading, mixed, deleting, creating, promised, linking, requests,
                 trouble>>

(* Mutant: the file is read when its chunks are sent. *)
DeliverFromDisk(d) ==
  /\ download[d] = "read"
  /\ download' = [download EXCEPT ![d] = "delivered"]
  /\ got' = [got EXCEPT ![d] = IF name = NoInode THEN << >> ELSE disk[name]]
  /\ UNCHANGED <<file, uploading, mixed, deleting, creating, rfd, promised, linking, requests,
                 trouble>>

(* Ack, the chunks in order and the sentinel, out of the agent's memory.    *)
(* OperationStream has the way they take.                                   *)
Deliver(d) ==
  /\ download[d] = "read"
  /\ download' = [download EXCEPT ![d] = "delivered"]
  /\ UNCHANGED <<file, uploading, mixed, deleting, creating, rfd, got, promised, linking,
                 requests, trouble>>

(* The Ack takes longer than 500 ms, or the browser goes away.  What the    *)
(* agent still does for the download changes nothing.                       *)
DownloadFails(d) ==
  /\ download[d] \in {"listed", "reading", "read"}
  /\ NewTrouble
  /\ download' = [download EXCEPT ![d] = "failed"]
  /\ rfd' = [rfd EXCEPT ![d] = NoInode]
  /\ UNCHANGED <<file, uploading, mixed, deleting, creating, got, promised, linking, requests>>

(* The agent dies and is started again: its handlers are gone, the file is  *)
(* as they left it, and the Factorio process may yet end either way.        *)
Crash ==
  /\ NewTrouble
  /\ task' = [u \in Uploads |-> "none"]
  /\ body' = [u \in Uploads |-> Empty]
  /\ fd' = [u \in Uploads |-> NoInode]
  /\ deleting' = FALSE
  /\ download' = [d \in Downloads |->
                    IF download[d] \in {"listed", "reading", "read"} THEN "failed" ELSE download[d]]
  /\ rfd' = [d \in Downloads |-> NoInode]
  /\ UNCHANGED <<file, upload, selection, next, mixed, creating, got, promised, linking, requests>>

-----------------------------------------------------------------------------
(* Download links                                                          *)

CreateLink(l) ==
  /\ age[l] = NeverMade
  /\ links' = links \cup {l}
  /\ age' = [age EXCEPT ![l] = 0]
  /\ UNCHANGED <<file, uploading, mixed, deleting, creating, downloading, promised, timer,
                 requests, trouble>>

Tick ==
  /\ timer < Interval
  /\ timer' = timer + 1
  /\ age' = [l \in Links |-> IF age[l] < NeverMade - 1 THEN age[l] + 1 ELSE age[l]]
  /\ UNCHANGED <<file, uploading, mixed, deleting, creating, downloading, promised, links,
                 requests, trouble>>

(* Mutant: the comparison the wrong way round. *)
CleanupBackwards ==
  /\ timer = Interval
  /\ timer' = 0
  /\ links' = {l \in links : age[l] > Expiry}
  /\ UNCHANGED <<file, uploading, mixed, deleting, creating, downloading, promised, age,
                 requests, trouble>>

(* cleanup_job: every Interval, the links older than Expiry go.             *)
Cleanup ==
  /\ timer = Interval
  /\ timer' = 0
  /\ links' = {l \in links : ~(age[l] > Expiry)}
  /\ UNCHANGED <<file, uploading, mixed, deleting, creating, downloading, promised, age,
                 requests, trouble>>

-----------------------------------------------------------------------------

Next ==
  \/ \E u \in Uploads : \/ \E c \in Contents : Begin(u, c)
                        \/ \E c \in Contents \cup {NoContent} : Select(u, c)
                        \/ Put(u) \/ PutThrows(u) \/ TimesOut(u)
                        \/ Open(u) \/ Store(u) \/ StoreFails(u) \/ Lost(u)
  \/ Delete \/ Remove \/ Create \/ CreateEnds \/ Crash
  \/ \E d \in Downloads : \/ \E l \in Links : Download(d, l)
                          \/ ReadOpens(d) \/ Read(d) \/ Deliver(d) \/ DownloadFails(d)
  \/ \E l \in Links : CreateLink(l)
  \/ Tick \/ Cleanup

Spec == Init /\ [][Next]_vars

-----------------------------------------------------------------------------
(* What a browser was told is true: the file of an upload that was reported *)
(* complete is, chunk for chunk and to the length, the one uploaded, over a *)
(* longer file too, until somebody writes something else, and if no other   *)
(* file was selected while it, or a writer it met, ran.  Attempts at the    *)
(* same file that failed or timed out do it no harm, even when the agent    *)
(* handles their last chunk later; nor does clearing the selection.         *)
UploadKept ==
  \A u \in Uploads : Kept(u) => name # NoInode /\ disk[name] = Full(content[u])

(* A download is one version of the file: what was there, complete, when it *)
(* was asked for, if nobody began to write another while the agent read it. *)
(* Later writers, and attempts to upload the same again, make no difference.*)
DownloadExact ==
  \A d \in Downloads :
    download[d] = "delivered" /\ promised[d] # NoContent => got[d] = Full(promised[d])

(* A link works for as long as was promised, and not longer than until the  *)
(* first cleanup after that.                                                *)
LinkWindow ==
  \A l \in Links : /\ age[l] <= Expiry => l \in links
                   /\ l \in links => age[l] <= Expiry + Interval
=============================================================================
