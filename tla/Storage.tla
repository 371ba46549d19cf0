------------------------------ MODULE Storage ------------------------------
(***************************************************************************)
(* The storage service (src/services/filesystem/iec_service.c with         *)
(* cbm_file.c, cbm_write.c, mutation_6502.s and iec_context.s): two mounts,*)
(* one descriptor and one bus, shared by every program of the machine.     *)
(*                                                                         *)
(* Requests are serialised, so one request is one action.  What a drive    *)
(* answers is a choice: any request that uses the bus may fail.  A file is *)
(* a name, without contents.  Requests have the newest minor version, and  *)
(* a refusal that changes nothing is no step.                              *)
(*                                                                         *)
(* A request's caller is the pair of its context tag and that tag's        *)
(* generation, which the gate supplies.  handle.file, the file a handle    *)
(* was opened on, and touched, the unit the last request wrote to, are     *)
(* history variables.                                                      *)
(***************************************************************************)
EXTENDS Integers

CONSTANTS
    Units,       \* device numbers, 8..11
    Files,       \* names
    Tags,        \* context tags, 1..10
    Loader,      \* the tag of the boot loader, 10, which never ends
    Generations, \* how many generations a tag has before it wraps, 256
    None

ASSUME StorageAssumption ==
    /\ Generations \in Nat \ {0}
    /\ None \notin Units \cup Files
    /\ Loader \in Tags

VARIABLES
    mounted,    \* volumes: the unit of each mount
    writable,   \* the mounts that may be written
    bootSource, \* the loader has told where the shell came from
    cwd,        \* the current directory, one for all programs
    generation, \* of each tag
    handle,     \* the descriptor, Closed or a record
    bus,        \* what the transport has open, and on which unit
    device,     \* scratch: the unit the last path resolved to
    saved,      \* saved_entry: the last directory entry found
    touched

mounts == <<mounted, writable, bootSource, cwd>>
scratch == <<device, saved>>
vars == <<mounts, generation, handle, bus, scratch, touched>>

Volumes == {"root", "data"}
(* "/" stands for /bin too, which a machine without a root also has.       *)
Directories == {"/", "/etc", "/mnt"}
Mutations == {"rename", "copy", "unlink"}

Volume(directory) == IF directory = "/mnt" THEN "data" ELSE "root"
Other(volume) == IF volume = "root" THEN "data" ELSE "root"

Closed == [kind |-> "closed"]
Instances == Tags \X (0 .. Generations - 1)
Handles ==
    [kind : {"directory", "file", "stream"} \cup Mutations,
     by : Instances, volume : Volumes, file : Files \cup {None},
     channel : BOOLEAN, eof : BOOLEAN, error : BOOLEAN]
Idle == [use |-> "idle", unit |-> None]
Buses == [use : {"read", "write", "command"}, unit : Units] \cup {Idle}

Opened == handle # Closed
Caller(tag) == <<tag, generation[tag]>>

Init ==
    /\ mounted = [v \in Volumes |-> None]
    /\ writable = {}
    /\ bootSource = FALSE
    /\ cwd = "/"
    /\ generation = [tag \in Tags |-> 0]
    /\ handle = Closed
    /\ bus = Idle
    /\ device = None
    /\ saved = None
    /\ touched = None

-----------------------------------------------------------------------------
(* The transport.  A file transaction that finds another one's channel     *)
(* open is refused, and udeks_cbm_begin then closes the channel it found.  *)
(* Between requests only the descriptor's transaction may be open.         *)
Free == bus.use \in {"idle", "command"}

(* find_unique and the other scans open and close within the request.      *)
Scan == bus' = Idle

(* find_unique keeps the entry of the last match, also when a second match *)
(* or the drive makes it fail.                                             *)
FindUnique ==
    /\ Scan
    /\ saved' \in Files \cup {saved}

(* Mutant: a pending mutation keeps its command.                           *)
CloseHandleForgetful ==
    /\ handle' = Closed
    /\ bus' = IF handle.channel \/ handle.kind = "stream" THEN Idle ELSE bus
    /\ touched' = IF handle.kind = "stream" THEN bus.unit ELSE None

(* close_handle.  The drive finishes a stream's file; a channel is closed, *)
(* and a command whose answer is still due is abandoned.                   *)
CloseHandle ==
    /\ handle' = Closed
    /\ bus' = IF handle.channel \/ handle.kind \in {"stream"} \cup Mutations
              THEN Idle ELSE bus
    /\ touched' = IF handle.kind = "stream" THEN bus.unit ELSE None

-----------------------------------------------------------------------------
(* A read-only alias of a mount is allowed if neither can be written.      *)
Aliases(volume, unit, rw) ==
    /\ mounted[Other(volume)] = unit
    /\ rw \/ Other(volume) \in writable

MayMount(volume, unit, rw, remount) ==
    /\ ~Opened
    /\ ~Aliases(volume, unit, rw)
    /\ IF remount THEN mounted[volume] = unit
       ELSE mounted[volume] = None /\ ~(volume = "root" /\ bootSource)

Permit(volume, rw) ==
    writable' = IF rw THEN writable \cup {volume} ELSE writable \ {volume}

(* REMOUNT changes the permission only: no probe.                          *)
Remount(volume, unit, rw) ==
    /\ MayMount(volume, unit, rw, TRUE)
    /\ Permit(volume, rw)
    /\ touched' = None
    /\ UNCHANGED <<mounted, bootSource, cwd, generation, handle, bus, scratch>>

(* MOUNT: the first directory sector must answer.  The root is the         *)
(* loader's to mount: no session request mounts or unmounts it.            *)
Mount(volume, unit, rw) ==
    /\ MayMount(volume, unit, rw, FALSE)
    /\ Scan
    /\ \/ /\ mounted' = [mounted EXCEPT ![volume] = unit]
          /\ Permit(volume, rw)
          /\ cwd' = IF volume = "root" THEN "/" ELSE cwd
       \/ UNCHANGED <<mounted, writable, cwd>>
    /\ touched' = None
    /\ UNCHANGED <<bootSource, generation, handle, scratch>>

(* Mutant: an open descriptor does not hold its mount.                     *)
MayUmountOpened(volume) ==
    /\ mounted[volume] # None
    /\ ~(volume = "root" /\ bootSource)
    /\ ~(volume = "data" /\ cwd = "/mnt")

MayUmount(volume) ==
    /\ mounted[volume] # None
    /\ ~(volume = "root" /\ bootSource)
    /\ ~(Opened /\ handle.volume = volume)
    /\ ~(volume = "data" /\ cwd = "/mnt")

Umount(volume) ==
    /\ MayUmount(volume)
    /\ mounted' = [mounted EXCEPT ![volume] = None]
    /\ writable' = writable \ {volume}
    /\ touched' = None
    /\ UNCHANGED <<bootSource, cwd, generation, handle, bus, scratch>>

-----------------------------------------------------------------------------
(* A path that resolves leaves its unit in device whatever comes of the    *)
(* request.  STAT of a directory does nothing else.                        *)
Resolve(directory) ==
    /\ mounted[Volume(directory)] # None
    /\ device' = mounted[Volume(directory)]

Stat(directory) ==
    /\ Resolve(directory)
    /\ touched' = None
    /\ UNCHANGED <<mounts, generation, handle, bus, saved>>

Statfs(directory) ==
    /\ Resolve(directory)
    /\ IF Opened THEN UNCHANGED bus ELSE Scan
    /\ touched' = None
    /\ UNCHANGED <<mounts, generation, handle, saved>>

(* CHDIR to a directory; without a root / and /bin are still there.        *)
Chdir(directory) ==
    /\ IF mounted["root"] = None /\ directory = "/"
       THEN UNCHANGED device ELSE Resolve(directory)
    /\ cwd' = directory
    /\ touched' = None
    /\ UNCHANGED <<mounted, writable, bootSource, generation, handle, bus, saved>>

(* CHDIR to a name looks whether it is there, and fails in any case.       *)
ChdirName(directory) ==
    /\ Resolve(directory)
    /\ IF Opened THEN UNCHANGED <<bus, saved>> ELSE FindUnique
    /\ touched' = None
    /\ UNCHANGED <<mounts, generation, handle>>

-----------------------------------------------------------------------------
NewHandle(tag, directory, kind, file) ==
    [kind |-> kind, by |-> Caller(tag), volume |-> Volume(directory),
     file |-> file, channel |-> kind = "file", eof |-> FALSE, error |-> FALSE]

(* OPEN while the descriptor is open: EMFILE, after the path.              *)
OpenRefused(directory) ==
    /\ Opened
    /\ Resolve(directory)
    /\ touched' = None
    /\ UNCHANGED <<mounts, generation, handle, bus, saved>>

OpenDirectory(tag, directory) ==
    /\ ~Opened
    /\ Resolve(directory)
    /\ handle' = NewHandle(tag, directory, "directory", None)
    /\ touched' = None
    /\ UNCHANGED <<mounts, generation, bus, saved>>

(* The name is found, begin opens a channel, select accepts the entry.  A  *)
(* failure on the way leaves the bus as it was and nothing open.           *)
OpenFile(tag, directory, file) ==
    /\ ~Opened
    /\ Resolve(directory)
    /\ \/ /\ Free
          /\ saved' = file
          /\ bus' = [use |-> "read", unit |-> device']
          /\ handle' = NewHandle(tag, directory, "file", file)
       \/ FindUnique /\ UNCHANGED handle
    /\ touched' = None
    /\ UNCHANGED <<mounts, generation>>

(* CREATE: the physical name goes to saved_entry, where a scan that finds  *)
(* no match leaves it.  Once OPEN is sent the drive may have made the file.*)
OpenCreate(tag, directory, file) ==
    /\ ~Opened
    /\ Resolve(directory)
    /\ Volume(directory) \in writable
    /\ saved' = file
    /\ \/ /\ Free
          /\ bus' = [use |-> "write", unit |-> device']
          /\ handle' = NewHandle(tag, directory, "stream", file)
          /\ touched' = device'
       \/ /\ Scan
          /\ touched' \in {device', None}
          /\ UNCHANGED handle
    /\ UNCHANGED <<mounts, generation>>

-----------------------------------------------------------------------------
Holds(tag, kind) ==
    /\ Opened
    /\ handle.by = Caller(tag)
    /\ handle.kind = kind

(* READ.  The chain goes on, ends, or breaks; only the first keeps the     *)
(* channel.  A channel that does not close is an error for the next READ.  *)
Read(tag) ==
    /\ Holds(tag, "file")
    /\ ~handle.error /\ ~handle.eof
    /\ \E error \in BOOLEAN, eof \in BOOLEAN :
        /\ error \/ eof
        /\ handle' = [handle EXCEPT !.error = error, !.eof = eof, !.channel = FALSE]
    /\ bus' = Idle
    /\ touched' = None
    /\ UNCHANGED <<mounts, generation, scratch>>

(* GETDENTS of a disk's entry.  The virtual ones of / use no bus.          *)
Getdents(tag) ==
    /\ Holds(tag, "directory")
    /\ ~handle.error /\ ~handle.eof
    /\ device' = mounted[handle.volume]
    /\ FindUnique
    /\ \/ UNCHANGED handle
       \/ \E error \in BOOLEAN :
            handle' = [handle EXCEPT !.eof = TRUE, !.error = error]
    /\ touched' = None
    /\ UNCHANGED <<mounts, generation>>

(* WRITE.  The first failure stays.                                        *)
Write(tag) ==
    /\ Holds(tag, "stream")
    /\ ~handle.error
    /\ \E error \in BOOLEAN : handle' = [handle EXCEPT !.error = error]
    /\ touched' = bus.unit
    /\ UNCHANGED <<mounts, generation, bus, scratch>>

Close(tag) ==
    /\ Opened
    /\ handle.by = Caller(tag)
    /\ CloseHandle
    /\ UNCHANGED <<mounts, generation, scratch>>

-----------------------------------------------------------------------------
(* Mutant: the unit of the last path, whoever asked for it.                *)
SourceUnitStale == device
SourceUnit == mounted[handle.volume]

(* RENAME, COPY and UNLINK of the open file.  Refusals up to the path of   *)
(* the new name keep the handle.  Then the handle is consumed: its channel *)
(* closed, the new name looked for, the command sent; if the drive is not  *)
(* done the same caller gets the handle back to ask again.                 *)
Mutate(tag, operation) ==
    /\ Holds(tag, "file")
    /\ ~handle.error
    /\ handle.volume \in writable
    /\ device' = SourceUnit
    /\ \/ touched' = None /\ UNCHANGED <<handle, bus, saved>>
       \/ /\ handle' = Closed
          /\ bus' = Idle
          /\ touched' \in {device', None}
          /\ IF operation = "unlink" THEN UNCHANGED saved ELSE saved' \in Files \cup {saved}
       \/ /\ handle' = [handle EXCEPT !.kind = operation, !.channel = FALSE]
          /\ bus' = [use |-> "command", unit |-> device']
          /\ touched' = device'
          /\ UNCHANGED saved
    /\ UNCHANGED <<mounts, generation>>

(* The answer has come, or was waited for too often.                       *)
MutationEnds(tag) ==
    /\ \E operation \in Mutations : Holds(tag, operation)
    /\ handle' = Closed
    /\ bus' = Idle
    /\ touched' = bus.unit
    /\ UNCHANGED <<mounts, generation, scratch>>

-----------------------------------------------------------------------------
NextGeneration(tag) ==
    generation' = [generation EXCEPT ![tag] = (@ + 1) % Generations]

(* Mutant: the generation first, so that nothing is this instance's.       *)
RetireLate(tag) ==
    /\ NextGeneration(tag)
    /\ touched' = None
    /\ UNCHANGED <<mounts, handle, bus, scratch>>

(* A program ends: what it left open is closed, then its tag is reborn.    *)
Retire(tag) ==
    /\ IF Opened /\ handle.by = Caller(tag)
       THEN CloseHandle
       ELSE touched' = None /\ UNCHANGED <<handle, bus>>
    /\ NextGeneration(tag)
    /\ UNCHANGED <<mounts, scratch>>

(* The loader mounts the root read/write, loads the shell from it, gives   *)
(* the root back if that failed, and opens the session.                    *)
BootEnds ==
    /\ ~Opened
    /\ bootSource' = TRUE
    /\ touched' = None
    /\ UNCHANGED <<mounted, writable, cwd, generation, handle, bus, scratch>>

Boot ==
    /\ ~bootSource
    /\ \/ \E unit \in Units : Mount("root", unit, TRUE)
       \/ \E file \in Files : OpenFile(Loader, "/", file)
       \/ Read(Loader) \/ Close(Loader) \/ Umount("root")
       \/ BootEnds

Administer ==
    \E volume \in Volumes :
        \/ Umount(volume)
        \/ \E unit \in Units, rw \in BOOLEAN :
             Mount(volume, unit, rw) \/ Remount(volume, unit, rw)

Look ==
    \E directory \in Directories :
        \/ Stat(directory) \/ Statfs(directory)
        \/ Chdir(directory) \/ ChdirName(directory)

Open ==
    \E directory \in Directories :
        \/ OpenRefused(directory)
        \/ \E tag \in Tags :
             \/ OpenDirectory(tag, directory)
             \/ \E file \in Files :
                  OpenFile(tag, directory, file) \/ OpenCreate(tag, directory, file)

Use ==
    \E tag \in Tags :
        \/ Read(tag) \/ Getdents(tag) \/ Write(tag) \/ Close(tag)
        \/ MutationEnds(tag)
        \/ \E operation \in Mutations : Mutate(tag, operation)

Session ==
    /\ bootSource
    /\ \/ Administer \/ Look \/ Open \/ Use
       \/ \E tag \in Tags \ {Loader} : Retire(tag)

Next == Boot \/ Session

Spec == Init /\ [][Next]_vars

-----------------------------------------------------------------------------
TypeOK ==
    /\ mounted \in [Volumes -> Units \cup {None}]
    /\ writable \subseteq Volumes
    /\ bootSource \in BOOLEAN
    /\ cwd \in Directories
    /\ generation \in [Tags -> 0 .. Generations - 1]
    /\ handle \in Handles \cup {Closed}
    /\ bus \in Buses
    /\ device \in Units \cup {None}
    /\ saved \in Files \cup {None}
    /\ touched \in Units \cup {None}

(* A handle belongs to a program that runs: no end of a program leaves it  *)
(* open, and the next program with the same tag cannot use it.             *)
HandleIsCurrent ==
    Opened => handle.by[1] \in Tags /\ handle.by = Caller(handle.by[1])

(* The bus is held exactly by the open descriptor, and for what it is      *)
(* for: no request leaves a channel behind or starts a transaction inside  *)
(* another's.                                                              *)
BusIsAccountedFor ==
    bus.use = CASE ~Opened -> "idle"
                [] Opened /\ handle.kind = "directory" -> "idle"
                [] Opened /\ handle.kind = "file" -> IF handle.channel THEN "read" ELSE "idle"
                [] Opened /\ handle.kind = "stream" -> "write"
                [] Opened /\ handle.kind \in Mutations -> "command"

(* Whatever is asked in between, an open descriptor keeps its mount, its   *)
(* unit and its directory entry, and the current directory its mount.      *)
InUseStays ==
    /\ Opened => mounted[handle.volume] # None
    /\ Opened /\ bus # Idle => bus.unit = mounted[handle.volume]
    /\ Opened /\ handle.kind = "file" => saved = handle.file
    /\ cwd = "/mnt" => mounted["data"] # None

Granted(unit) ==
    \E volume \in Volumes :
        /\ mounted[volume] = unit
        /\ volume \in writable
        /\ mounted[Other(volume)] # unit

(* Nothing is written to a disk but through a mount that allows it, and    *)
(* not while the other mount shows the same disk.                          *)
WritesAreGranted == [][touched' # None => Granted(touched')]_vars
=============================================================================
