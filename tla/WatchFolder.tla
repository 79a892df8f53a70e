------------------------------ MODULE WatchFolder ------------------------------
(***************************************************************************)
(* The files of one user in the storage: how an upload or the user puts    *)
(* them into the watch folder, how an import lists them, and how a run     *)
(* downloads its file and moves it into processed/ or failed/, call by     *)
(* call, for each backend (google_drive.py, dropbox.py, s3.py and          *)
(* ephemeral.py).                                                          *)
(*                                                                         *)
(* Drive and Dropbox know a file by an id of its own; S3 knows it by its   *)
(* name in a folder, so that two files may be one object.  No request path *)
(* yields an S3 provider at this commit (the paths ask for an OAuth token, *)
(* which an S3 row has not): its part is the contract of the class, as its *)
(* tests use it.                                                           *)
(***************************************************************************)
EXTENDS Naturals, FiniteSets

CONSTANTS
    None,       (* no file                                                 *)
    File,       (* BOUND: the files that ever arrive                       *)
    Name,       (* their names                                             *)
    Namings,    (* how the files may be named                              *)
    MaxJobs,    (* BOUND: runs under way at a time                         *)
    MaxFaults   (* BOUND: failing calls and dying processes                *)

ASSUME NamingsAssumption ==
    Namings \subseteq [File -> Name] /\ Namings # {} /\ MaxFaults \in Nat

VARIABLES
    backend,    (* the provider connected                                  *)
    name,       (* the name of each file                                   *)
    objects,    (* what is in the storage                                  *)
    made,       (* subfolders that exist                                   *)
    arrival,    (* how far each file's upload is                           *)
    jobs,       (* runs that have a task, executing or not                 *)
    faults

vars == <<backend, name, objects, made, arrival, jobs, faults>>
settled == <<backend, name>>

Dest    == {"processed", "failed"}
Folder  == {"watch"} \cup Dest
Backend == {"google_drive", "dropbox", "s3", "ephemeral"}

Stage   == {"queued", "seek", "make", "move", "delete"}

(* RemoteFile.id *)
Handle(f) == IF backend = "s3" THEN name[f] ELSE f

Object == [file: File, folder: Folder, whole: BOOLEAN]
Job == [handle: File \cup Name,
        own:    File \cup {None},       (* the upload it belongs to        *)
        at:     Stage,
        dest:   Dest \cup {None},
        read:   File \cup {None},       (* what it downloaded              *)
        torn:   BOOLEAN]                (* ... before all of it was there  *)

TypeOK ==
    /\ backend \in Backend
    /\ name \in [File -> Name]
    /\ objects \subseteq Object
    /\ \A o, p \in objects :
        o # p => Handle(o.file) # Handle(p.file) \/ (backend = "s3" /\ o.folder # p.folder)
    /\ made \subseteq Dest
    /\ arrival \in [File -> {"none", "created", "accepted", "dropped", "refused"}]
    /\ jobs \subseteq Job
    /\ faults \in 0..MaxFaults

Init ==
    /\ backend \in Backend
    /\ name \in Namings
    /\ backend = "s3" \/ name = CHOOSE n \in Namings : TRUE  (* nobody else looks *)
    /\ objects = {}
    /\ made = {}
    /\ arrival = [f \in File |-> "none"]
    /\ jobs = {}
    /\ faults = 0

Fault == faults < MaxFaults /\ faults' = faults + 1

-----------------------------------------------------------------------------
(* upload_file of the providers and of upload.py; files the user drops      *)

In(f, folder, whole) == [file |-> f, folder |-> folder, whole |-> whole]

(* S3 replaces the object of that name; the others keep both, Dropbox by    *)
(* renaming.                                                                *)
Kept(f, folder) ==
    {o \in objects : backend = "s3" => o.folder # folder \/ name[o.file] # name[f]}

NewJob(handle, own) ==
    [handle |-> handle, own |-> own, at |-> "queued", dest |-> None, read |-> None, torn |-> FALSE]

(* Tasks for runs, as many as the bound allows. *)
Starts(new) ==
    /\ jobs' = jobs \cup new
    /\ Cardinality(jobs') <= MaxJobs

Put(f, outcome) ==
    /\ arrival[f] = "none"
    /\ objects' = Kept(f, "watch") \cup {In(f, "watch", TRUE)}
    /\ arrival' = [arrival EXCEPT ![f] = outcome]
    /\ UNCHANGED <<settled, made, faults>>

(* A mutated form of CreateEmpty: the run starts before the bytes are sent. *)
CreateAndStart(f) ==
    /\ backend = "google_drive" /\ arrival[f] = "none"
    /\ objects' = objects \cup {In(f, "watch", FALSE)}
    /\ arrival' = [arrival EXCEPT ![f] = "created"]
    /\ Starts({NewJob(f, f)})
    /\ UNCHANGED <<settled, made, faults>>

(* Drive's upload is two requests, the first makes an empty file ...        *)
CreateEmpty(f) ==
    /\ backend = "google_drive" /\ arrival[f] = "none"
    /\ objects' = objects \cup {In(f, "watch", FALSE)}
    /\ arrival' = [arrival EXCEPT ![f] = "created"]
    /\ UNCHANGED <<settled, made, jobs, faults>>

(* ... and the second fills it, wherever it has been moved in between.      *)
SendBytes(f) ==
    /\ arrival[f] = "created"
    /\ objects' = {[o EXCEPT !.whole = @ \/ o.file = f] : o \in objects}
    /\ arrival' = [arrival EXCEPT ![f] = "accepted"]
    /\ Starts({NewJob(Handle(f), f)})
    /\ UNCHANGED <<settled, made, faults>>

(* The others' upload is one request.  In-memory content goes with the task *)
(* (_storage_payload_fields).                                               *)
Upload(f) ==
    /\ backend # "google_drive"
    /\ Put(f, "accepted")
    /\ Starts({NewJob(Handle(f), f)})

(* storage_error: what the first request made stays there. *)
UploadFails(f) ==
    /\ Fault
    /\ arrival[f] \in {"none", "created"}
    /\ arrival' = [arrival EXCEPT ![f] = "refused"]
    /\ UNCHANGED <<settled, objects, made, jobs>>

UserDrops(f) ==
    /\ backend # "ephemeral"
    /\ Put(f, "dropped")
    /\ UNCHANGED jobs

-----------------------------------------------------------------------------
(* list_new_files: the objects right in the watch folder *)
Pending == {Handle(o.file) : o \in {p \in objects : p.folder = "watch"}}

(* import_pending_files: a run for each file listed, whether or not it has  *)
(* one.  Without a storage there is nothing to list (get_import_storage).   *)
Import ==
    /\ backend # "ephemeral" /\ Pending # {}
    /\ Starts({NewJob(h, None) : h \in Pending})
    /\ UNCHANGED <<settled, objects, made, arrival, faults>>

-----------------------------------------------------------------------------
(* What a run asks of its provider: download_file, then move_file *)

Goto(j, next) == jobs' = (jobs \ {j}) \cup {next}

(* The run is over; what an in-memory provider held goes with it. *)
Over(j) ==
    /\ jobs' = jobs \ {j}
    /\ objects' = {o \in objects : backend = "ephemeral" => Handle(o.file) # j.handle}

(* Past the verdict, what was read no longer matters. *)
Past(j, location) == [j EXCEPT !.at = location, !.read = None, !.torn = FALSE]

(* An id finds its file in any folder, a key only where it was. *)
Found(j) ==
    {o \in objects : Handle(o.file) = j.handle /\ (backend = "s3" => o.folder = "watch")}

(* The verdict on a file that was read is either. *)
Download(j, o, dest) ==
    /\ j.at = "queued" /\ o \in Found(j)
    /\ Goto(j, [j EXCEPT !.at = "seek", !.dest = dest, !.read = o.file, !.torn = ~o.whole])
    /\ UNCHANGED <<settled, objects, made, arrival, faults>>

DownloadMissing(j) ==
    /\ j.at = "queued" /\ Found(j) = {}
    /\ Goto(j, [j EXCEPT !.at = "seek", !.dest = "failed"])
    /\ UNCHANGED <<settled, objects, made, arrival, faults>>

DownloadFails(j) ==
    /\ Fault
    /\ j.at = "queued"
    /\ Goto(j, [j EXCEPT !.at = "seek", !.dest = "failed"])
    /\ UNCHANGED <<settled, objects, made, arrival>>

(* _destination_folder of Drive: looked for by name ... *)
SeekFolder(j) ==
    /\ backend = "google_drive" /\ j.at = "seek"
    /\ Goto(j, Past(j, IF j.dest \in made THEN "move" ELSE "make"))
    /\ UNCHANGED <<settled, objects, made, arrival, faults>>

(* ... and created when it was not found; Drive lets two have one name. *)
MakeFolder(j) ==
    /\ j.at = "make"
    /\ made' = made \cup {j.dest}
    /\ Goto(j, Past(j, "move"))
    /\ UNCHANGED <<settled, objects, arrival, faults>>

(* A mutated form of EnsureFolder: a folder that is there is an error. *)
EnsureNewFolder(j) ==
    /\ backend = "dropbox" /\ j.at = "seek"
    /\ made' = made \cup {j.dest}
    /\ IF j.dest \in made THEN Over(j) ELSE Goto(j, Past(j, "move")) /\ UNCHANGED objects
    /\ UNCHANGED <<settled, arrival, faults>>

(* _ensure_destination_folder of Dropbox: created at once, and one that is  *)
(* there already is as good.                                                *)
EnsureFolder(j) ==
    /\ backend = "dropbox" /\ j.at = "seek"
    /\ made' = made \cup {j.dest}
    /\ Goto(j, Past(j, "move"))
    /\ UNCHANGED <<settled, objects, arrival, faults>>

(* One request moves the file of the id.  Drive may refuse to take a file   *)
(* out of a folder it is not in any more.                                   *)
Relocate(j) ==
    /\ backend \in {"google_drive", "dropbox"} /\ j.at = "move"
    /\ jobs' = jobs \ {j}
    /\ \/ objects' = {IF o \in Found(j) THEN [o EXCEPT !.folder = j.dest] ELSE o : o \in objects}
       \/ /\ backend = "google_drive"
          /\ \A o \in Found(j) : o.folder # "watch"
          /\ UNCHANGED objects
    /\ UNCHANGED <<settled, made, arrival, faults>>

(* A mutated form of Copy: the key is deleted first. *)
CopyAfterDelete(j) ==
    /\ backend = "s3" /\ j.at = "seek"
    /\ IF Found(j) = {}
       THEN Over(j)
       ELSE /\ Goto(j, Past(j, "delete"))
            /\ objects' = objects \ Found(j)
    /\ UNCHANGED <<settled, made, arrival, faults>>

(* S3's move_file copies, over an object of the name that may be there ...  *)
Copy(j) ==
    /\ backend = "s3" /\ j.at = "seek"
    /\ \/ Found(j) = {} /\ Over(j)
       \/ \E o \in Found(j) :
            /\ Goto(j, Past(j, "delete"))
            /\ objects' = Kept(o.file, j.dest) \cup {In(o.file, j.dest, o.whole)}
    /\ UNCHANGED <<settled, made, arrival, faults>>

(* ... and deletes the key, whatever it holds by now. *)
Delete(j) ==
    /\ j.at = "delete"
    /\ jobs' = jobs \ {j}
    /\ objects' = objects \ Found(j)
    /\ UNCHANGED <<settled, made, arrival, faults>>

(* The in-memory provider only notes it. *)
Forget(j) ==
    /\ backend = "ephemeral" /\ j.at = "seek"
    /\ Over(j)
    /\ UNCHANGED <<settled, made, arrival, faults>>

(* A call of the move fails, or the process dies at any moment: the run is  *)
(* not taken up again (RunLifecycle), the file stays where it is.           *)
Stop(j) ==
    /\ Fault
    /\ Over(j)
    /\ UNCHANGED <<settled, made, arrival>>

Step(j) ==
    \/ \E o \in Found(j), dest \in Dest : Download(j, o, dest)
    \/ DownloadMissing(j) \/ SeekFolder(j) \/ MakeFolder(j) \/ EnsureFolder(j)
    \/ Relocate(j) \/ Copy(j) \/ Delete(j) \/ Forget(j)

Arrive(f) == CreateEmpty(f) \/ SendBytes(f) \/ Upload(f) \/ UploadFails(f) \/ UserDrops(f)

Next ==
    \/ \E f \in File : Arrive(f)
    \/ Import
    \/ \E j \in jobs : \E o \in Found(j), dest \in Dest : Download(j, o, dest)
    \/ \E j \in jobs : DownloadMissing(j)
    \/ \E j \in jobs : SeekFolder(j)
    \/ \E j \in jobs : MakeFolder(j)
    \/ \E j \in jobs : EnsureFolder(j)
    \/ \E j \in jobs : Relocate(j)
    \/ \E j \in jobs : Copy(j)
    \/ \E j \in jobs : Delete(j)
    \/ \E j \in jobs : Forget(j)
    \/ \E j \in jobs : DownloadFails(j)
    \/ \E j \in jobs : Stop(j)

(* A task is delivered and its run executed; the user imports again while   *)
(* the watch folder shows files.                                            *)
Fairness ==
    /\ \A f \in File, stages \in {{"queued"}, {"seek"}, {"make"}, {"move", "delete"}} :
            WF_vars(\E j \in jobs : j.handle = Handle(f) /\ j.at \in stages /\ Step(j))
    /\ WF_vars(Import)

Spec == Init /\ [][Next]_vars
FairSpec == Spec /\ Fairness

-----------------------------------------------------------------------------
(* Properties *)

(* No other file shares the object of f. *)
Alone(f) == backend = "s3" => \A g \in File \ {f} : name[g] # name[f]

(* A file the program has accepted, or the user has dropped, is somewhere   *)
(* in the connected storage, whole, whatever call fails and wherever a      *)
(* process dies; on S3 if no other file has its name (move_file copies      *)
(* before it deletes).                                                      *)
NeverLost ==
    \A f \in File : arrival[f] \in {"accepted", "dropped"} /\ Alone(f) /\ backend # "ephemeral" =>
        \E o \in objects : o.file = f /\ o.whole

(* On S3 a name that was ever accepted keeps an object, though it may be    *)
(* another file's of the name (move_file).                                  *)
NameNeverLost ==
    \A f \in File : arrival[f] \in {"accepted", "dropped"} /\ backend = "s3" =>
        \E o \in objects : name[o.file] = name[f]

(* No failing call, no death and no other run makes a file vanish.          *)
NothingLost == NeverLost /\ NameNeverLost

(* The run of an upload reads the very file uploaded, and all of it, while  *)
(* runs of imports move files under it; on S3 if no other file has its name *)
(* (upload.py starts the run after the last byte; ids outlive moves).       *)
OwnContent ==
    \A j \in jobs : j.own # None /\ j.read # None =>
        ~j.torn /\ (Alone(j.own) => j.read = j.own)

(* What is in the storage has arrived, and is whole unless Drive has it     *)
(* without its bytes; the file that Drive is still to be sent the bytes of  *)
(* is there (upload_file of google_drive.py).                               *)
ArrivedOnly ==
    /\ \A o \in objects :
        /\ arrival[o.file] # "none"
        /\ ~o.whole => backend = "google_drive" /\ arrival[o.file] \in {"created", "refused"}
    /\ \A f \in File : arrival[f] = "created" =>
        backend = "google_drive" /\ \E o \in objects : o.file = f

(* A run knows where its file goes once it has read it; before it deletes a *)
(* key, there is an object of the name elsewhere (move_file of s3.py).      *)
JobsKnow ==
    \A j \in jobs :
        /\ j.own # None => j.handle = Handle(j.own) /\ arrival[j.own] = "accepted"
        /\ j.at # "queued" => j.dest \in Dest
        /\ j.at = "delete" =>
            backend = "s3" /\ \E o \in objects : name[o.file] = j.handle /\ o.folder # "watch"

(* What runs know and read at any moment.                                   *)
FolderConsistent == TypeOK /\ ArrivedOnly /\ JobsKnow /\ OwnContent

(* The inductive invariant. *)
IInv == FolderConsistent /\ NothingLost

(* While the user goes on importing, every file is filed: the watch folder  *)
(* is empty again and again, whatever was left there by a run that stopped  *)
(* (import_pending_files is the way back for such files).                   *)
Filed == (backend # "ephemeral") ~> (Pending = {})
=============================================================================
