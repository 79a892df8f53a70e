--------------------------- MODULE WatchFolderProofs ---------------------------
(***************************************************************************)
(* No file is lost, for any files and names, with each of the four kinds   *)
(* of storage, whatever runs, failures and repeated imports there are.     *)
(***************************************************************************)
EXTENDS WatchFolder, TLAPS

(* What JobsKnow and OwnContent say of one run. *)
JobOK(j) ==
    /\ j.own # None => j.handle = Handle(j.own) /\ arrival[j.own] = "accepted"
    /\ j.at # "queued" => j.dest \in Dest
    /\ j.at = "delete" =>
        backend = "s3" /\ \E o \in objects : name[o.file] = j.handle /\ o.folder # "watch"
    /\ j.own # None /\ j.read # None => ~j.torn /\ (Alone(j.own) => j.read = j.own)

(* No two objects are one. *)
Apart ==
    \A o, p \in objects :
        o # p => Handle(o.file) # Handle(p.file) \/ (backend = "s3" /\ o.folder # p.folder)

(* Every variable has its type. *)
Sorts ==
    /\ backend \in Backend /\ name \in [File -> Name]
    /\ objects \subseteq Object /\ made \subseteq Dest /\ jobs \subseteq Job
    /\ arrival \in [File -> {"none", "created", "accepted", "dropped", "refused"}]
    /\ faults \in 0..MaxFaults

(* The invariant in these parts ...                                         *)
LEMMA Parts ==
    IInv <=> Sorts /\ Apart /\ ArrivedOnly /\ (\A j \in jobs : JobOK(j)) /\ NothingLost
BY DEF IInv, FolderConsistent, TypeOK, Sorts, Apart, JobsKnow, OwnContent, JobOK

(* ... and after a step.                                                    *)
LEMMA PartsNext ==
    ASSUME Sorts', Apart', ArrivedOnly', \A j \in jobs' : JobOK(j)', NothingLost'
    PROVE  IInv'
BY DEF IInv, FolderConsistent, TypeOK, Sorts, Apart, JobsKnow, OwnContent, JobOK

(* Nothing is there at first.                                               *)
LEMMA InitFolder == Init => IInv
<1> SUFFICES ASSUME Init PROVE IInv
  OBVIOUS
<1>1. Sorts
  <2>1. faults \in 0..MaxFaults
    BY NamingsAssumption DEF Init
  <2> QED
    BY <2>1, NamingsAssumption DEF Init, Sorts
<1>2. Apart /\ ArrivedOnly /\ (\A j \in jobs : JobOK(j)) /\ NothingLost
  BY DEF Init, Apart, ArrivedOnly, NothingLost, NeverLost, NameNeverLost
<1> QED
  BY <1>1, <1>2, Parts

-----------------------------------------------------------------------------
(* A run that a step leaves alone stays what it is, if the storage keeps    *)
(* the names that S3 has outside the watch folder.                          *)
LEMMA JobStays ==
    ASSUME IInv, NEW j \in jobs, UNCHANGED <<backend, name>>,
           \A f \in File : arrival[f] = "accepted" => arrival'[f] = "accepted",
           backend = "s3" => \A o \in objects : o.folder # "watch" =>
               \E p \in objects' : name[p.file] = name[o.file] /\ p.folder # "watch"
    PROVE  JobOK(j)'
<1>1. JobOK(j) /\ j \in Job
  BY Parts DEF Sorts
<1>2. Handle(j.own)' = Handle(j.own) /\ Alone(j.own)' = Alone(j.own)
  BY DEF Handle, Alone
<1> QED
  BY <1>1, <1>2 DEF JobOK, Job

(* A step of one run, or a new run, that leaves the storage alone.          *)
LEMMA JobStep ==
    ASSUME IInv, UNCHANGED <<backend, name, objects, arrival>>,
           NEW new \in SUBSET Job, jobs' \subseteq jobs \cup new, \A j \in new : JobOK(j),
           made' \subseteq Dest, faults' \in 0..MaxFaults
    PROVE  IInv'
<1>1. Sorts'
  BY Parts DEF Sorts
<1>2. Apart' /\ ArrivedOnly'
  BY Parts DEF Apart, ArrivedOnly, Handle
<1>3. NothingLost'
  BY Parts DEF NothingLost, NeverLost, NameNeverLost, Alone
<1>4. ASSUME NEW j \in jobs' PROVE JobOK(j)'
  <2>1. CASE j \in jobs
    BY <2>1, JobStays
  <2>2. CASE j \in new
    BY <2>2 DEF JobOK, Handle, Alone
  <2> QED
    BY <2>1, <2>2
<1> QED
  BY <1>1, <1>2, <1>3, <1>4, PartsNext

(* A step that keeps every object of the storages with ids, in whatever     *)
(* folder, and every name of S3, loses nothing: on S3, where every object   *)
(* is whole, a name that is kept keeps the file that alone has it.          *)
LEMMA StorageStep ==
    ASSUME IInv, UNCHANGED <<backend, name>>,
           backend = "s3" => \A o \in objects : \E p \in objects' : name[p.file] = name[o.file],
           backend \in {"google_drive", "dropbox"} =>
               \A o \in objects : \E p \in objects' : p.file = o.file /\ (o.whole => p.whole),
           \A f \in File : arrival'[f] \in {"accepted", "dropped"} =>
               \/ arrival[f] \in {"accepted", "dropped"}
               \/ \E o \in objects' : o.file = f /\ o.whole,
           objects' \subseteq Object, ArrivedOnly'
    PROVE  NothingLost'
<1>1. CASE backend = "s3"
  <2>1. NameNeverLost'
    BY <1>1, Parts DEF NothingLost, NameNeverLost
  <2>2. NeverLost'
    BY <1>1, <2>1 DEF ArrivedOnly, NameNeverLost, NeverLost, Alone, Object
  <2> QED
    BY <2>1, <2>2 DEF NothingLost
<1>2. CASE backend # "s3"
  BY <1>2, Parts DEF NothingLost, NameNeverLost, NeverLost, Alone, Sorts, Backend
<1> QED
  BY <1>1, <1>2

-----------------------------------------------------------------------------
(* A file put whole into the watch folder, and the run of its upload        *)
(* (upload_file, a user's drop).                                            *)
LEMMA PutStep ==
    ASSUME IInv, NEW f \in File, NEW outcome \in {"accepted", "dropped"}, Put(f, outcome),
           NEW new \in SUBSET {NewJob(Handle(f), f)}, jobs' \subseteq jobs \cup new,
           new # {} => outcome = "accepted"
    PROVE  IInv'
<1> DEFINE put == In(f, "watch", TRUE)
<1>1. /\ arrival[f] = "none" /\ UNCHANGED <<backend, name, made, faults>>
      /\ objects' = Kept(f, "watch") \cup {put}
      /\ arrival' = [arrival EXCEPT ![f] = outcome]
  BY DEF Put, settled
<1>2. put \in Object /\ put.file = f /\ put.folder = "watch" /\ put.whole
  BY DEF In, Object, Folder
<1>3. Sorts /\ Apart /\ ArrivedOnly /\ (\A j \in jobs : JobOK(j)) /\ NothingLost
  BY Parts
<1>4. /\ Kept(f, "watch") \subseteq objects
      /\ \A o \in Kept(f, "watch") : backend = "s3" => o.folder # "watch" \/ name[o.file] # name[f]
      /\ \A o \in objects \ Kept(f, "watch") :
            backend = "s3" /\ o.folder = "watch" /\ name[o.file] = name[f]
  BY DEF Kept
<1> HIDE DEF put
<1>5. \A g \in File : arrival'[g] = IF g = f THEN outcome ELSE arrival[g]
  BY <1>1, <1>3 DEF Sorts
<1>6. NewJob(Handle(f), f) \in Job
  <2>1. Handle(f) \in File \cup Name
    BY <1>3 DEF Handle, Sorts
  <2> QED
    BY <2>1 DEF NewJob, Job, Stage
<1>7. Sorts'
  BY <1>1, <1>2, <1>3, <1>4, <1>6 DEF Sorts
<1>8. Apart'
  <2>1. ASSUME NEW o \in Kept(f, "watch")
        PROVE  Handle(o.file) # Handle(f) \/ (backend = "s3" /\ o.folder # "watch")
    <3>1. o.file # f
      BY <1>1, <1>3, <1>4 DEF ArrivedOnly
    <3> QED
      BY <1>4, <3>1 DEF Handle
  <2>2. ASSUME NEW o \in objects', NEW p \in objects', o # p
        PROVE  Handle(o.file) # Handle(p.file) \/ (backend = "s3" /\ o.folder # p.folder)
    <3>1. CASE o = put
      BY <1>1, <1>2, <2>1, <2>2, <3>1
    <3>2. CASE p = put
      BY <1>1, <1>2, <2>1, <2>2, <3>2
    <3>3. CASE o \in objects /\ p \in objects
      BY <1>3, <2>2, <3>3 DEF Apart
    <3> QED
      BY <1>1, <1>4, <3>1, <3>2, <3>3
  <2> QED
    BY <1>1, <2>2 DEF Apart, Handle
<1>9. ArrivedOnly'
  BY <1>1, <1>2, <1>3, <1>4, <1>5 DEF ArrivedOnly, Sorts, Object
<1>10. NothingLost'
  <2>1. backend = "s3" => \A o \in objects : \E p \in objects' : name[p.file] = name[o.file]
    BY <1>1, <1>2, <1>4
  <2>2. backend # "s3" => objects \subseteq objects'
    BY <1>1, <1>4
  <2>3. \A g \in File : arrival'[g] \in {"accepted", "dropped"} =>
            arrival[g] \in {"accepted", "dropped"} \/ \E o \in objects' : o.file = g /\ o.whole
    BY <1>1, <1>2, <1>5
  <2> QED
    BY <1>1, <1>7, <1>9, <2>1, <2>2, <2>3, StorageStep DEF Sorts
<1>11. ASSUME NEW j \in jobs' PROVE JobOK(j)'
  <2>1. CASE j \in jobs
    <3>1. \A g \in File : arrival[g] = "accepted" => arrival'[g] = "accepted"
      BY <1>1, <1>5
    <3>2. backend = "s3" => \A o \in objects : o.folder # "watch" => o \in objects'
      BY <1>1, <1>4
    <3> QED
      BY <1>1, <2>1, <3>1, <3>2, JobStays
  <2>2. CASE j \in new
    BY <1>1, <1>5, <2>2 DEF JobOK, NewJob, Handle
  <2> QED
    BY <2>1, <2>2
<1> QED
  BY <1>7, <1>8, <1>9, <1>10, <1>11, PartsNext

(* Drive's upload makes an empty file (upload_file of google_drive.py).     *)
LEMMA CreateStep ==
    ASSUME IInv, NEW f \in File, CreateEmpty(f)
    PROVE  IInv'
<1> DEFINE made0 == In(f, "watch", FALSE)
<1>1. /\ backend = "google_drive" /\ arrival[f] = "none"
      /\ UNCHANGED <<backend, name, made, faults, jobs>>
      /\ objects' = objects \cup {made0}
      /\ arrival' = [arrival EXCEPT ![f] = "created"]
  BY DEF CreateEmpty, settled
<1>2. made0 \in Object /\ made0.file = f /\ made0.folder = "watch"
  BY DEF In, Object, Folder
<1>3. Sorts /\ Apart /\ ArrivedOnly /\ (\A j \in jobs : JobOK(j)) /\ NothingLost
  BY Parts
<1> HIDE DEF made0
<1>4. \A g \in File : arrival'[g] = IF g = f THEN "created" ELSE arrival[g]
  BY <1>1, <1>3 DEF Sorts
<1>5. Sorts'
  BY <1>1, <1>2, <1>3 DEF Sorts
<1>6. Apart'
  BY <1>1, <1>2, <1>3 DEF Apart, Handle, ArrivedOnly
<1>7. ArrivedOnly'
  BY <1>1, <1>2, <1>3, <1>4 DEF ArrivedOnly, Sorts, Object
<1>8. NothingLost'
  <2>1. \A g \in File : arrival'[g] \in {"accepted", "dropped"} => arrival[g] \in {"accepted", "dropped"}
    BY <1>4
  <2> QED
    BY <1>1, <1>5, <1>7, <2>1, StorageStep DEF Sorts
<1>9. ASSUME NEW j \in jobs' PROVE JobOK(j)'
  BY <1>1, <1>4, JobStays
<1> QED
  BY <1>5, <1>6, <1>7, <1>8, <1>9, PartsNext

(* The bytes follow, and the run (upload_file of google_drive.py).          *)
LEMMA SendStep ==
    ASSUME IInv, NEW f \in File, SendBytes(f)
    PROVE  IInv'
<1> DEFINE sent(o) == [o EXCEPT !.whole = @ \/ o.file = f]
<1>1. /\ arrival[f] = "created" /\ UNCHANGED <<backend, name, made, faults>>
      /\ objects' = {sent(o) : o \in objects}
      /\ arrival' = [arrival EXCEPT ![f] = "accepted"]
      /\ jobs' = jobs \cup {NewJob(Handle(f), f)}
  BY DEF SendBytes, settled, Starts
<1>2. Sorts /\ Apart /\ ArrivedOnly /\ (\A j \in jobs : JobOK(j)) /\ NothingLost
  BY Parts
<1>3. backend = "google_drive" /\ \E o \in objects : o.file = f
  BY <1>1, <1>2 DEF ArrivedOnly
<1>4. ASSUME NEW o \in objects
      PROVE  /\ sent(o) \in Object /\ sent(o).file = o.file /\ sent(o).folder = o.folder
             /\ (o.whole \/ o.file = f) => sent(o).whole
  BY <1>2 DEF Sorts, Object
<1> HIDE DEF sent
<1>5. \A g \in File : arrival'[g] = IF g = f THEN "accepted" ELSE arrival[g]
  BY <1>1, <1>2 DEF Sorts
<1>6. NewJob(Handle(f), f) \in Job
  BY <1>3 DEF NewJob, Job, Stage, Handle
<1>7. Sorts'
  BY <1>1, <1>2, <1>4, <1>6 DEF Sorts
<1>8. Apart'
  BY <1>1, <1>2, <1>3, <1>4 DEF Apart, Handle
<1>9. ArrivedOnly'
  <2>1. ASSUME NEW p \in objects'
        PROVE  /\ arrival'[p.file] # "none"
               /\ ~p.whole => backend' = "google_drive" /\ arrival'[p.file] \in {"created", "refused"}
    <3>1. PICK o \in objects : p = sent(o)
      BY <1>1
    <3>2. p.file = o.file /\ o.file \in File /\ (o.whole \/ o.file = f => p.whole)
      BY <1>2, <1>4, <3>1 DEF Sorts, Object
    <3> QED
      BY <1>1, <1>2, <1>5, <3>2 DEF ArrivedOnly
  <2>2. ASSUME NEW g \in File, arrival'[g] = "created"
        PROVE  backend' = "google_drive" /\ \E p \in objects' : p.file = g
    <3>1. PICK o \in objects : o.file = g
      BY <1>2, <1>5, <2>2 DEF ArrivedOnly
    <3> QED
      BY <1>1, <1>3, <1>4, <3>1
  <2> QED
    BY <2>1, <2>2 DEF ArrivedOnly
<1>10. NothingLost'
  <2>1. \A o \in objects : \E p \in objects' : p.file = o.file /\ (o.whole => p.whole)
    BY <1>1, <1>4
  <2>2. \E p \in objects' : p.file = f /\ p.whole
    BY <1>1, <1>3, <1>4
  <2>3. \A g \in File : arrival'[g] \in {"accepted", "dropped"} =>
            arrival[g] \in {"accepted", "dropped"} \/ \E o \in objects' : o.file = g /\ o.whole
    BY <1>5, <2>2
  <2> QED
    BY <1>1, <1>3, <1>7, <1>9, <2>1, <2>3, StorageStep DEF Sorts
<1>11. ASSUME NEW j \in jobs' PROVE JobOK(j)'
  <2>1. CASE j \in jobs
    BY <1>1, <1>3, <1>5, <2>1, JobStays
  <2>2. CASE j = NewJob(Handle(f), f)
    BY <1>1, <1>5, <2>2 DEF JobOK, NewJob, Handle
  <2> QED
    BY <1>1, <2>1, <2>2
<1> QED
  BY <1>7, <1>8, <1>9, <1>10, <1>11, PartsNext

(* A refused upload leaves what its first request made.                     *)
LEMMA RefuseStep ==
    ASSUME IInv, NEW f \in File, UploadFails(f)
    PROVE  IInv'
<1>1. /\ arrival[f] \in {"none", "created"} /\ UNCHANGED <<backend, name, objects, made, jobs>>
      /\ arrival' = [arrival EXCEPT ![f] = "refused"]
      /\ faults < MaxFaults /\ faults' = faults + 1
  BY DEF UploadFails, settled, Fault
<1>2. Sorts /\ Apart /\ ArrivedOnly /\ (\A j \in jobs : JobOK(j)) /\ NothingLost
  BY Parts
<1>3. \A g \in File : arrival'[g] = IF g = f THEN "refused" ELSE arrival[g]
  BY <1>1, <1>2 DEF Sorts
<1>4. Sorts'
  <2>1. faults' \in 0..MaxFaults
    BY <1>1, <1>2, NamingsAssumption DEF Sorts
  <2> QED
    BY <1>1, <1>2, <2>1 DEF Sorts
<1>5. Apart'
  BY <1>1, <1>2 DEF Apart, Handle
<1>6. ArrivedOnly'
  BY <1>1, <1>2, <1>3 DEF ArrivedOnly, Sorts, Object
<1>7. NothingLost'
  BY <1>1, <1>2, <1>3 DEF NothingLost, NeverLost, NameNeverLost, Alone
<1>8. ASSUME NEW j \in jobs' PROVE JobOK(j)'
  BY <1>1, <1>3, JobStays
<1> QED
  BY <1>4, <1>5, <1>6, <1>7, <1>8, PartsNext

-----------------------------------------------------------------------------
(* A run past its verdict. *)
LEMMA PastVerdict ==
    ASSUME NEW j \in Job, NEW location \in Stage
    PROVE  LET next == Past(j, location) IN
           /\ next \in Job /\ next.handle = j.handle /\ next.own = j.own /\ next.dest = j.dest
           /\ next.at = location /\ next.read = None
<1> DEFINE moved  == [j EXCEPT !.at = location]
           unread == [moved EXCEPT !.read = None]
           next   == [unread EXCEPT !.torn = FALSE]
<1>1. Past(j, location) = next
  BY DEF Past
<1>2. moved \in Job /\ moved.handle = j.handle /\ moved.own = j.own /\ moved.dest = j.dest
      /\ moved.at = location
  BY DEF Job
<1> HIDE DEF moved
<1>3. unread \in Job /\ unread.handle = j.handle /\ unread.own = j.own /\ unread.dest = j.dest
      /\ unread.at = location /\ unread.read = None
  BY <1>2 DEF Job
<1> HIDE DEF unread
<1>4. next \in Job /\ next.handle = j.handle /\ next.own = j.own /\ next.dest = j.dest
      /\ next.at = location /\ next.read = None
  BY <1>3 DEF Job
<1> HIDE DEF next
<1> QED
  BY <1>1, <1>4

(* A run that only learns something (download_file, the folders).           *)
LEMMA LearnStep ==
    ASSUME IInv, NEW j \in jobs,
           \/ \E o \in Found(j), dest \in Dest : Download(j, o, dest)
           \/ DownloadMissing(j) \/ DownloadFails(j)
           \/ SeekFolder(j) \/ MakeFolder(j) \/ EnsureFolder(j)
    PROVE  IInv'
<1>1. Sorts /\ ArrivedOnly /\ j \in Job /\ JobOK(j)
  BY Parts DEF Sorts
<1>2. UNCHANGED <<backend, name, objects, arrival>> /\ made' \subseteq Dest /\ faults' \in 0..MaxFaults
  <2>1. UNCHANGED <<backend, name, objects, arrival>>
    BY DEF Download, DownloadMissing, DownloadFails, SeekFolder, MakeFolder, EnsureFolder, settled
  <2>2. made' \subseteq Dest
    BY <1>1 DEF Sorts, JobOK, Download, DownloadMissing, DownloadFails, SeekFolder, MakeFolder, EnsureFolder
  <2>3. faults' = faults \/ Fault
    BY DEF Download, DownloadMissing, DownloadFails, SeekFolder, MakeFolder, EnsureFolder
  <2> QED
    BY <1>1, <2>1, <2>2, <2>3, NamingsAssumption DEF Sorts, Fault
<1>3. \E next \in Job : JobOK(next) /\ Goto(j, next)
  <2>1. ASSUME NEW o \in Found(j), NEW dest \in Dest, Download(j, o, dest)
        PROVE  \E next \in Job : JobOK(next) /\ Goto(j, next)
    <3> DEFINE sought == [j EXCEPT !.at = "seek"]
               judged == [sought EXCEPT !.dest = dest]
               read   == [judged EXCEPT !.read = o.file]
               next   == [read EXCEPT !.torn = ~o.whole]
    <3>1. Goto(j, next)
      BY <2>1 DEF Download
    <3>2. o \in objects /\ o \in Object /\ Handle(o.file) = j.handle
      BY <1>1 DEF Found, Sorts
    <3>3. /\ next \in Job /\ next.handle = j.handle /\ next.own = j.own /\ next.at = "seek"
          /\ next.dest = dest /\ next.read = o.file /\ next.torn = ~o.whole
      <4>1. sought \in Job /\ sought.handle = j.handle /\ sought.own = j.own /\ sought.at = "seek"
        BY <1>1 DEF Job, Stage
      <4> HIDE DEF sought
      <4>2. /\ judged \in Job /\ judged.handle = j.handle /\ judged.own = j.own
            /\ judged.at = "seek" /\ judged.dest = dest
        BY <4>1 DEF Job
      <4> HIDE DEF judged
      <4>3. /\ read \in Job /\ read.handle = j.handle /\ read.own = j.own
            /\ read.at = "seek" /\ read.dest = dest /\ read.read = o.file
        BY <3>2, <4>2 DEF Job, Object
      <4> HIDE DEF read
      <4> QED
        BY <4>3 DEF Job
    <3> HIDE DEF next
    <3>4. ASSUME j.own # None PROVE o.whole /\ (Alone(j.own) => o.file = j.own)
      <4>1. j.handle = Handle(j.own) /\ arrival[j.own] = "accepted" /\ j.own \in File
        BY <1>1, <3>4 DEF JobOK, Job
      <4> QED
        BY <1>1, <3>2, <4>1 DEF ArrivedOnly, Handle, Alone, Object
    <3>5. JobOK(next)
      BY <1>1, <3>3, <3>4 DEF JobOK
    <3> QED
      BY <3>1, <3>3, <3>5
  <2>2. CASE DownloadMissing(j) \/ DownloadFails(j)
    <3> DEFINE sought == [j EXCEPT !.at = "seek"]
               next   == [sought EXCEPT !.dest = "failed"]
    <3>1. Goto(j, next)
      BY <2>2 DEF DownloadMissing, DownloadFails
    <3>2. /\ sought \in Job /\ sought.handle = j.handle /\ sought.own = j.own /\ sought.at = "seek"
          /\ sought.read = j.read /\ sought.torn = j.torn
      BY <1>1 DEF Job, Stage
    <3> HIDE DEF sought
    <3>3. /\ next \in Job /\ next.handle = j.handle /\ next.own = j.own /\ next.at = "seek"
          /\ next.dest \in Dest /\ next.read = j.read /\ next.torn = j.torn
      BY <3>2 DEF Job, Dest
    <3> HIDE DEF next
    <3>4. JobOK(next)
      BY <1>1, <3>3 DEF JobOK
    <3> QED
      BY <3>1, <3>3, <3>4
  <2>3. CASE SeekFolder(j) \/ MakeFolder(j) \/ EnsureFolder(j)
    <3>1. PICK location \in {"move", "make"} : Goto(j, Past(j, location))
      BY <2>3 DEF SeekFolder, MakeFolder, EnsureFolder
    <3>2. j.at # "queued"
      BY <2>3 DEF SeekFolder, MakeFolder, EnsureFolder
    <3> DEFINE next == Past(j, location)
    <3>3. /\ next \in Job /\ next.handle = j.handle /\ next.own = j.own /\ next.dest = j.dest
          /\ next.at = location /\ next.read = None
      BY <1>1, PastVerdict DEF Stage
    <3> HIDE DEF next
    <3>4. JobOK(next)
      BY <1>1, <3>2, <3>3 DEF JobOK
    <3> QED
      BY <3>1, <3>3, <3>4 DEF next
  <2> QED
    BY <2>1, <2>2, <2>3
<1>4. PICK next \in Job : JobOK(next) /\ Goto(j, next)
  BY <1>3
<1> DEFINE new == {next}
<1>5. jobs' \subseteq jobs \cup new /\ new \in SUBSET Job /\ \A k \in new : JobOK(k)
  BY <1>4 DEF Goto
<1> HIDE DEF new
<1> QED
  BY <1>2, <1>5, JobStep

(* An import makes runs that own no upload (import_pending_files).          *)
LEMMA ImportStep == ASSUME IInv, Import PROVE IInv'
<1> DEFINE new == {NewJob(h, None) : h \in Pending}
<1>1. Sorts
  BY Parts
<1>2. UNCHANGED <<backend, name, objects, arrival, made, faults>> /\ jobs' = jobs \cup new
  BY DEF Import, settled, Starts
<1>3. ASSUME NEW h \in Pending PROVE NewJob(h, None) \in Job /\ JobOK(NewJob(h, None))
  <2>1. h \in File \cup Name
    BY <1>1 DEF Pending, Handle, Sorts, Object
  <2> QED
    BY <2>1 DEF NewJob, Job, Stage, JobOK
<1>4. new \in SUBSET Job /\ \A j \in new : JobOK(j)
  BY <1>3
<1> HIDE DEF new
<1>5. made' \subseteq Dest /\ faults' \in 0..MaxFaults
  BY <1>1, <1>2 DEF Sorts
<1> QED
  BY <1>2, <1>4, <1>5, JobStep

(* A run is over; only an in-memory provider forgets its file with it.      *)
LEMMA OverStep ==
    ASSUME IInv, NEW j \in jobs, Over(j),
           UNCHANGED <<backend, name, made, arrival>>, faults' \in 0..MaxFaults
    PROVE  IInv'
<1>1. Sorts /\ Apart /\ ArrivedOnly /\ NothingLost
  BY Parts
<1>2. jobs' \subseteq jobs /\ objects' \subseteq objects
      /\ (backend # "ephemeral" => objects' = objects)
  BY DEF Over
<1>3. Sorts'
  BY <1>1, <1>2 DEF Sorts
<1>4. Apart'
  BY <1>1, <1>2 DEF Apart, Handle
<1>5. ArrivedOnly'
  BY <1>1, <1>2 DEF ArrivedOnly
<1>6. NothingLost'
  BY <1>1, <1>2, <1>3, <1>5, StorageStep DEF Sorts
<1>7. ASSUME NEW k \in jobs' PROVE JobOK(k)'
  BY <1>2, JobStays
<1> QED
  BY <1>3, <1>4, <1>5, <1>6, <1>7, PartsNext

(* One request moves the file, or finds that it has been moved (move_file   *)
(* of google_drive.py and dropbox.py).                                      *)
LEMMA RelocateStep ==
    ASSUME IInv, NEW j \in jobs, Relocate(j)
    PROVE  IInv'
<1> DEFINE filed(o) == [o EXCEPT !.folder = j.dest]
           now(o)   == IF o \in Found(j) THEN filed(o) ELSE o
<1>1. /\ backend \in {"google_drive", "dropbox"} /\ j.at = "move"
      /\ UNCHANGED <<backend, name, made, arrival, faults>> /\ jobs' = jobs \ {j}
      /\ objects' = {now(o) : o \in objects} \/ objects' = objects
  BY DEF Relocate, settled
<1>2. Sorts /\ Apart /\ ArrivedOnly /\ NothingLost /\ j.dest \in Dest
  BY <1>1, Parts DEF JobOK
<1>3. ASSUME NEW o \in objects
      PROVE  now(o) \in Object /\ now(o).file = o.file /\ now(o).whole = o.whole
  BY <1>2 DEF Sorts, Object, Folder
<1> HIDE DEF now, filed
<1>4. Sorts'
  BY <1>1, <1>2, <1>3 DEF Sorts
<1>5. Apart'
  BY <1>1, <1>2, <1>3 DEF Apart, Handle
<1>6. ArrivedOnly'
  BY <1>1, <1>2, <1>3 DEF ArrivedOnly
<1>7. NothingLost'
  <2>1. \A o \in objects : \E p \in objects' : p.file = o.file /\ (o.whole => p.whole)
    BY <1>1, <1>3
  <2> QED
    BY <1>1, <1>4, <1>6, <2>1, StorageStep DEF Sorts
<1>8. ASSUME NEW k \in jobs' PROVE JobOK(k)'
  BY <1>1, JobStays
<1> QED
  BY <1>4, <1>5, <1>6, <1>7, <1>8, PartsNext

(* S3 copies first: the name is in the destination before its key goes      *)
(* (move_file of s3.py).                                                    *)
LEMMA CopyStep ==
    ASSUME IInv, NEW j \in jobs, NEW o \in Found(j), backend = "s3", j.at = "seek",
           Goto(j, Past(j, "delete")), UNCHANGED <<settled, made, arrival, faults>>,
           objects' = Kept(o.file, j.dest) \cup {In(o.file, j.dest, o.whole)}
    PROVE  IInv'
<1> DEFINE copy == In(o.file, j.dest, o.whole)
           next == Past(j, "delete")
<1>1. Sorts /\ Apart /\ ArrivedOnly /\ NothingLost /\ j \in Job /\ JobOK(j) /\ j.dest \in Dest
  BY Parts DEF Sorts, JobOK
<1>2. UNCHANGED <<backend, name, made, arrival, faults>>
  BY DEF settled
<1>3. o \in objects /\ o \in Object /\ name[o.file] = j.handle /\ o.folder = "watch" /\ o.whole
  BY <1>1 DEF Found, Sorts, Handle, ArrivedOnly
<1>4. copy \in Object /\ copy.file = o.file /\ copy.folder = j.dest /\ copy.whole
  BY <1>1, <1>3 DEF In, Object, Folder
<1>5. /\ next \in Job /\ next.handle = j.handle /\ next.own = j.own /\ next.dest = j.dest
      /\ next.at = "delete" /\ next.read = None
  BY <1>1, PastVerdict DEF Stage
<1>6. /\ Kept(o.file, j.dest) \subseteq objects
      /\ \A p \in Kept(o.file, j.dest) : p.folder # j.dest \/ name[p.file] # name[o.file]
      /\ \A p \in objects \ Kept(o.file, j.dest) : name[p.file] = name[o.file]
  BY DEF Kept
<1>7. objects' = Kept(o.file, j.dest) \cup {copy} /\ jobs' \subseteq jobs \cup {next}
  BY DEF Goto
<1> HIDE DEF copy, next
<1>8. j.dest # "watch"
  BY <1>1 DEF Dest
<1>9. Sorts'
  BY <1>1, <1>2, <1>4, <1>5, <1>6, <1>7 DEF Sorts
<1>10. Apart'
  <2>1. ASSUME NEW p \in objects', NEW q \in objects', p # q
        PROVE  name[p.file] # name[q.file] \/ p.folder # q.folder
    <3>1. CASE p = copy \/ q = copy
      BY <1>4, <1>6, <1>7, <2>1, <3>1
    <3>2. CASE p \in objects /\ q \in objects
      BY <1>1, <2>1, <3>2 DEF Apart, Handle
    <3> QED
      BY <1>6, <1>7, <3>1, <3>2
  <2> QED
    BY <1>2, <2>1 DEF Apart, Handle
<1>11. ArrivedOnly'
  BY <1>1, <1>2, <1>3, <1>4, <1>6, <1>7 DEF ArrivedOnly
<1>12. NothingLost'
  <2>1. \A p \in objects : \E q \in objects' : name[q.file] = name[p.file]
    BY <1>4, <1>6, <1>7
  <2> QED
    BY <1>2, <1>9, <1>11, <2>1, StorageStep DEF Sorts
<1>13. ASSUME NEW k \in jobs' PROVE JobOK(k)'
  <2>1. CASE k \in jobs
    <3>1. \A p \in objects : p.folder # "watch" =>
              \E q \in objects' : name[q.file] = name[p.file] /\ q.folder # "watch"
      BY <1>4, <1>6, <1>7, <1>8
    <3> QED
      BY <1>2, <2>1, <3>1, JobStays
  <2>2. CASE k = next
    <3>1. \E p \in objects' : name[p.file] = next.handle /\ p.folder # "watch"
      BY <1>3, <1>4, <1>5, <1>7, <1>8
    <3> QED
      BY <1>1, <1>2, <1>5, <2>2, <3>1 DEF JobOK, Handle
  <2> QED
    BY <1>7, <2>1, <2>2
<1> QED
  BY <1>9, <1>10, <1>11, <1>12, <1>13, PartsNext

(* ... and then deletes the key, whose name is elsewhere by now.            *)
LEMMA DeleteStep ==
    ASSUME IInv, NEW j \in jobs, Delete(j)
    PROVE  IInv'
<1>1. /\ j.at = "delete" /\ jobs' = jobs \ {j} /\ objects' = objects \ Found(j)
      /\ UNCHANGED <<backend, name, made, arrival, faults>>
  BY DEF Delete, settled
<1>2. Sorts /\ Apart /\ ArrivedOnly /\ NothingLost
  BY Parts
<1>3. backend = "s3" /\ \E o \in objects : name[o.file] = j.handle /\ o.folder # "watch"
  BY <1>1, Parts DEF JobOK
<1>4. Found(j) = {o \in objects : name[o.file] = j.handle /\ o.folder = "watch"}
  BY <1>3 DEF Found, Handle
<1>5. Sorts' /\ Apart'
  BY <1>1, <1>2 DEF Sorts, Apart, Handle
<1>6. ArrivedOnly'
  BY <1>1, <1>2, <1>3 DEF ArrivedOnly
<1>7. NothingLost'
  <2>1. \A o \in objects : \E p \in objects' : name[p.file] = name[o.file]
    BY <1>1, <1>3, <1>4
  <2> QED
    BY <1>1, <1>3, <1>5, <1>6, <2>1, StorageStep DEF Sorts
<1>8. ASSUME NEW k \in jobs' PROVE JobOK(k)'
  <2>1. \A o \in objects : o.folder # "watch" => o \in objects'
    BY <1>1, <1>4
  <2> QED
    BY <1>1, <2>1, JobStays
<1> QED
  BY <1>5, <1>6, <1>7, <1>8, PartsNext

-----------------------------------------------------------------------------
(* Every step keeps the invariant.                                          *)
LEMMA NextFolder == IInv /\ [Next]_vars => IInv'
<1> SUFFICES ASSUME IInv, [Next]_vars PROVE IInv'
  OBVIOUS
<1>1. ASSUME NEW f \in File, Arrive(f) PROVE IInv'
  <2> DEFINE none == {}
             own  == {NewJob(Handle(f), f)}
  <2>1. CASE Upload(f)
    <3>1. Put(f, "accepted") /\ jobs' \subseteq jobs \cup own
      BY <2>1 DEF Upload, Starts
    <3> QED
      BY <3>1, PutStep
  <2>2. CASE UserDrops(f)
    <3>1. /\ Put(f, "dropped") /\ jobs' \subseteq jobs \cup none
          /\ none \in SUBSET {NewJob(Handle(f), f)} /\ none = {}
      BY <2>2 DEF UserDrops
    <3> HIDE DEF none
    <3> QED
      BY <3>1, PutStep
  <2> QED
    BY <1>1, <2>1, <2>2, CreateStep, SendStep, RefuseStep DEF Arrive
<1>2. ASSUME NEW j \in jobs,
             \/ \E o \in Found(j), dest \in Dest : Download(j, o, dest)
             \/ DownloadMissing(j) \/ DownloadFails(j)
             \/ SeekFolder(j) \/ MakeFolder(j) \/ EnsureFolder(j)
      PROVE  IInv'
  BY <1>2, LearnStep
<1>3. ASSUME NEW j \in jobs, Copy(j) PROVE IInv'
  <2>1. /\ backend = "s3" /\ j.at = "seek" /\ UNCHANGED <<settled, made, arrival, faults>>
        /\ faults' \in 0..MaxFaults /\ UNCHANGED <<backend, name>>
    BY <1>3, Parts DEF Copy, Sorts, settled
  <2>2. CASE Over(j)
    BY <2>1, <2>2, OverStep
  <2>3. ASSUME NEW o \in Found(j), Goto(j, Past(j, "delete")),
               objects' = Kept(o.file, j.dest) \cup {In(o.file, j.dest, o.whole)}
        PROVE  IInv'
    BY <2>1, <2>3, CopyStep
  <2> QED
    BY <1>3, <2>2, <2>3 DEF Copy
<1>4. ASSUME NEW j \in jobs, Forget(j) \/ Stop(j) PROVE IInv'
  <2>1. Over(j) /\ UNCHANGED <<backend, name, made, arrival>> /\ (faults' = faults \/ Fault)
    BY <1>4 DEF Forget, Stop, settled
  <2>2. faults' \in 0..MaxFaults
    BY <2>1, Parts, NamingsAssumption DEF Sorts, Fault
  <2> QED
    BY <2>1, <2>2, OverStep
<1>5. CASE UNCHANGED vars
  <2>1. made' \subseteq Dest /\ faults' \in 0..MaxFaults /\ jobs' \subseteq jobs
        /\ UNCHANGED <<backend, name, objects, arrival>>
    BY <1>5, Parts DEF vars, Sorts
  <2> DEFINE none == {}
  <2>2. none \in SUBSET Job /\ (\A j \in none : JobOK(j)) /\ jobs' \subseteq jobs \cup none
    BY <2>1
  <2> HIDE DEF none
  <2> QED
    BY <2>1, <2>2, JobStep
<1> QED
  BY <1>1, <1>2, <1>3, <1>4, <1>5, ImportStep, RelocateStep, DeleteStep DEF Next

(* What is in the storage and what runs know of it is consistent at any     *)
(* moment; the run of an upload reads the file uploaded, and all of it.     *)
THEOREM FolderIsConsistent == Spec => []FolderConsistent
<1>1. IInv => FolderConsistent
  BY DEF IInv
<1> QED
  BY <1>1, InitFolder, NextFolder, PTL DEF Spec

(* No failing call, no death and no other run makes an accepted file        *)
(* vanish, for any files and names and each kind of storage.                *)
THEOREM NoFileLost == Spec => []NothingLost
<1>1. IInv => NothingLost
  BY DEF IInv
<1> QED
  BY <1>1, InitFolder, NextFolder, PTL DEF Spec
=============================================================================
