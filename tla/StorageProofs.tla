--------------------------- MODULE StorageProofs ---------------------------
(* What holds of the storage service for any number of units, names, tags  *)
(* and generations, and, with variables of its own, of the lease it runs   *)
(* under.                                                                  *)
EXTENDS Storage, StorageLease, TLAPS

(* A disk that both mounts show is written through neither.                *)
AliasesAreReadOnly ==
    mounted["root"] = mounted["data"] /\ mounted["root"] # None => writable = {}

(* Only a regular file's handle has a channel, and what a handle writes    *)
(* was granted when it began to, which nothing can take back.              *)
HandleIsSound ==
    Opened =>
        /\ handle.channel => handle.kind = "file"
        /\ handle.kind \in {"stream"} \cup Mutations => handle.volume \in writable

Inv ==
    /\ TypeOK
    /\ HandleIsCurrent
    /\ BusIsAccountedFor
    /\ InUseStays
    /\ AliasesAreReadOnly
    /\ HandleIsSound

USE StorageAssumption DEF Volumes, Directories, Mutations, Closed, Idle, mounts, scratch

-----------------------------------------------------------------------------
LEMMA ClosedIsNoHandle == Closed \notin Handles
BY DEF Handles

LEMMA IdleIsIdle == \A b \in Buses : b = Idle <=> b.use = "idle"
BY DEF Buses

(* A unit that is mounted where writing is allowed is granted.             *)
LEMMA WritableIsGranted ==
    ASSUME Inv, NEW volume \in Volumes, volume \in writable, mounted[volume] # None
    PROVE  Granted(mounted[volume])
BY DEF Inv, TypeOK, AliasesAreReadOnly, Granted, Other

(* The invariants about the bus and the handle when both are at rest.      *)
LEMMA AtRest ==
    ASSUME Inv, handle' = Closed, bus' = Idle
    PROVE  /\ handle' \in Handles \cup {Closed}
           /\ bus' \in Buses
           /\ HandleIsCurrent'
           /\ BusIsAccountedFor'
           /\ HandleIsSound'
BY DEF Buses, Opened, HandleIsCurrent, BusIsAccountedFor, HandleIsSound

THEOREM InitInv == Init => Inv
<1> SUFFICES ASSUME Init PROVE Inv
  OBVIOUS
<1>1. 0 \in 0 .. Generations - 1
  OBVIOUS
<1>2. TypeOK
  BY <1>1 DEF Init, TypeOK, Buses
<1>3. QED
  BY <1>2 DEF Init, Inv, HandleIsCurrent, BusIsAccountedFor, InUseStays,
     AliasesAreReadOnly, HandleIsSound, Opened

-----------------------------------------------------------------------------
(* Requests that need a closed descriptor find the bus idle.               *)
LEMMA ClosedIsFree ==
    ASSUME Inv, ~Opened
    PROVE  bus = Idle /\ handle = Closed
BY IdleIsIdle DEF Inv, TypeOK, BusIsAccountedFor, Opened

LEMMA RemountKeepsInv ==
    ASSUME Inv, NEW volume \in Volumes, NEW unit \in Units, NEW rw \in BOOLEAN,
           Remount(volume, unit, rw)
    PROVE  Inv'
<1>1. bus = Idle /\ handle = Closed
  BY ClosedIsFree DEF Remount, MayMount
<1>2. AliasesAreReadOnly'
  BY DEF Inv, TypeOK, Remount, MayMount, Aliases, Other, Permit, AliasesAreReadOnly
<1>3. TypeOK'
  BY DEF Inv, TypeOK, Remount, Permit
<1>4. HandleIsCurrent' /\ BusIsAccountedFor' /\ HandleIsSound'
  BY <1>1, AtRest DEF Remount
<1>5. InUseStays'
  BY <1>1 DEF Inv, InUseStays, Remount, Opened
<1>6. QED
  BY <1>2, <1>3, <1>4, <1>5 DEF Inv

LEMMA MountKeepsInv ==
    ASSUME Inv, NEW volume \in Volumes, NEW unit \in Units, NEW rw \in BOOLEAN,
           Mount(volume, unit, rw)
    PROVE  Inv'
<1>1. bus = Idle /\ handle = Closed
  BY ClosedIsFree DEF Mount, MayMount
<1>2. AliasesAreReadOnly'
  BY DEF Inv, TypeOK, Mount, MayMount, Aliases, Other, Permit, AliasesAreReadOnly
<1>3. TypeOK'
  <2>1. /\ mounted' \in [Volumes -> Units \cup {None}]
        /\ writable' \subseteq Volumes
        /\ cwd' \in Directories
    BY DEF Inv, TypeOK, Mount, Permit
  <2>2. bus' \in Buses
    BY DEF Mount, Scan, Buses
  <2>3. QED
    BY <2>1, <2>2 DEF Inv, TypeOK, Mount
<1>4. HandleIsCurrent' /\ BusIsAccountedFor' /\ HandleIsSound'
  BY <1>1, AtRest DEF Mount, Scan
<1>5. InUseStays'
  BY <1>1 DEF Inv, TypeOK, InUseStays, Mount, Opened
<1>6. QED
  BY <1>2, <1>3, <1>4, <1>5 DEF Inv

LEMMA UmountKeepsInv ==
    ASSUME Inv, NEW volume \in Volumes, Umount(volume)
    PROVE  Inv'
<1>1. TypeOK'
  BY DEF Inv, TypeOK, Umount
<1>2. AliasesAreReadOnly'
  BY DEF Inv, TypeOK, Umount, AliasesAreReadOnly
<1>3. InUseStays'
  BY DEF Inv, TypeOK, Handles, InUseStays, Umount, MayUmount, Opened
<1>4. HandleIsCurrent' /\ BusIsAccountedFor'
  BY DEF Inv, Umount, HandleIsCurrent, BusIsAccountedFor, Opened, Caller
<1>5. HandleIsSound'
  BY DEF Inv, Umount, MayUmount, HandleIsSound, Opened
<1>6. QED
  BY <1>1, <1>2, <1>3, <1>4, <1>5 DEF Inv

-----------------------------------------------------------------------------
(* A request that only looks leaves the descriptor and the bus as they are:*)
(* it finds either the bus idle or the descriptor open.                    *)
LEMMA LookingKeepsInv ==
    ASSUME Inv, TypeOK', UNCHANGED <<mounted, writable, generation, handle, bus>>,
           Opened => saved' = saved,
           cwd' = "/mnt" => mounted["data"] # None
    PROVE  Inv'
<1>1. HandleIsCurrent' /\ BusIsAccountedFor' /\ HandleIsSound' /\ AliasesAreReadOnly'
  BY DEF Inv, HandleIsCurrent, BusIsAccountedFor, HandleIsSound, AliasesAreReadOnly,
     Opened, Caller
<1>2. InUseStays'
  BY DEF Inv, InUseStays, Opened
<1>3. QED
  BY <1>1, <1>2 DEF Inv

LEMMA LookKeepsInv == Inv /\ Look => Inv'
<1> SUFFICES ASSUME Inv, NEW directory \in Directories,
                    \/ Stat(directory) \/ Statfs(directory)
                    \/ Chdir(directory) \/ ChdirName(directory)
             PROVE  Inv'
  BY DEF Look
<1>1. CASE Stat(directory)
  <2>1. TypeOK'
    BY <1>1 DEF Inv, TypeOK, Stat, Resolve, Volume
  <2>2. QED
    BY <1>1, <2>1, LookingKeepsInv DEF Inv, InUseStays, Stat
<1>2. CASE Statfs(directory)
  <2>1. bus' = bus
    BY <1>2, ClosedIsFree DEF Statfs, Scan
  <2>2. TypeOK'
    BY <1>2, <2>1 DEF Inv, TypeOK, Statfs, Resolve, Volume
  <2>3. QED
    BY <1>2, <2>1, <2>2, LookingKeepsInv DEF Inv, InUseStays, Statfs
<1>3. CASE Chdir(directory)
  <2>1. TypeOK'
    BY <1>3 DEF Inv, TypeOK, Chdir, Resolve, Volume
  <2>2. cwd' = "/mnt" => mounted["data"] # None
    BY <1>3 DEF Chdir, Resolve, Volume
  <2>3. QED
    BY <1>3, <2>1, <2>2, LookingKeepsInv DEF Chdir
<1>4. CASE ChdirName(directory)
  <2>1. bus' = bus /\ saved' \in Files \cup {None} /\ (Opened => saved' = saved)
    BY <1>4, ClosedIsFree DEF Inv, TypeOK, ChdirName, FindUnique, Scan
  <2>2. TypeOK'
    BY <1>4, <2>1 DEF Inv, TypeOK, ChdirName, Resolve, Volume
  <2>3. QED
    BY <1>4, <2>1, <2>2, LookingKeepsInv DEF Inv, InUseStays, ChdirName
<1>5. QED
  BY <1>1, <1>2, <1>3, <1>4

-----------------------------------------------------------------------------
LEMMA NewHandleIsSound ==
    ASSUME Inv, NEW tag \in Tags, NEW directory \in Directories,
           NEW kind \in {"directory", "file", "stream"}, NEW file \in Files \cup {None},
           handle' = NewHandle(tag, directory, kind, file)
    PROVE  /\ handle' \in Handles
           /\ handle' # Closed
           /\ handle'.by = Caller(tag)
           /\ handle'.volume = Volume(directory)
           /\ handle'.kind = kind
           /\ handle'.file = file
           /\ handle'.channel = (kind = "file")
<1>1. Caller(tag) \in Instances
  BY DEF Inv, TypeOK, Caller, Instances
<1>2. handle' \in Handles
  BY <1>1 DEF NewHandle, Handles, Volume
<1>3. QED
  BY <1>2, ClosedIsNoHandle DEF NewHandle

LEMMA OpenKeepsInv ==
    ASSUME Inv, NEW tag \in Tags, NEW directory \in Directories,
           NEW file \in Files \cup {None},
           OpenDirectory(tag, directory) \/ file \in Files,
           \/ OpenDirectory(tag, directory)
           \/ OpenFile(tag, directory, file)
           \/ OpenCreate(tag, directory, file)
    PROVE  Inv'
<1>1. /\ bus = Idle /\ handle = Closed
      /\ device' = mounted[Volume(directory)] /\ device' \in Units
      /\ UNCHANGED <<mounts, generation>>
  <2>1. ~Opened /\ Resolve(directory) /\ UNCHANGED <<mounts, generation>>
    BY DEF OpenDirectory, OpenFile, OpenCreate
  <2>2. QED
    BY <2>1, ClosedIsFree DEF Inv, TypeOK, Resolve, Volume
<1>2. AliasesAreReadOnly'
  BY <1>1 DEF Inv, AliasesAreReadOnly
<1>3. saved' \in Files \cup {None} /\ touched' \in Units \cup {None}
  BY <1>1 DEF Inv, TypeOK, OpenDirectory, OpenFile, OpenCreate, FindUnique
<1>4. ASSUME handle' = Closed, bus' = Idle
      PROVE  Inv'
  <2>1. TypeOK'
    BY <1>1, <1>3, <1>4, AtRest DEF Inv, TypeOK
  <2>2. InUseStays'
    BY <1>1, <1>4 DEF Inv, InUseStays, Opened
  <2>3. QED
    BY <1>2, <1>4, <2>1, <2>2, AtRest DEF Inv
<1>5. ASSUME NEW kind \in {"directory", "file", "stream"}, NEW name \in Files \cup {None},
             handle' = NewHandle(tag, directory, kind, name),
             bus' = CASE kind = "directory" -> Idle
                      [] kind = "file" -> [use |-> "read", unit |-> device']
                      [] kind = "stream" -> [use |-> "write", unit |-> device'],
             kind = "file" => saved' = name,
             kind = "stream" => Volume(directory) \in writable
      PROVE  Inv'
  <2>1. /\ handle' \in Handles
        /\ handle' # Closed
        /\ handle'.by = Caller(tag)
        /\ handle'.volume = Volume(directory)
        /\ handle'.kind = kind
        /\ handle'.file = name
        /\ handle'.channel = (kind = "file")
    BY <1>5, NewHandleIsSound
  <2>2. bus' \in Buses
    BY <1>1, <1>5 DEF Buses
  <2>3. TypeOK'
    BY <1>1, <1>3, <2>1, <2>2 DEF Inv, TypeOK
  <2>4. HandleIsCurrent'
    BY <1>1, <2>1 DEF HandleIsCurrent, Caller
  <2>5. BusIsAccountedFor'
    BY <1>5, <2>1 DEF BusIsAccountedFor, Opened
  <2>6. InUseStays'
    BY <1>1, <1>5, <2>1 DEF Inv, InUseStays, Opened
  <2>7. HandleIsSound'
    BY <1>1, <1>5, <2>1 DEF HandleIsSound, Opened
  <2>8. QED
    BY <1>2, <2>3, <2>4, <2>5, <2>6, <2>7 DEF Inv
<1>6. CASE OpenDirectory(tag, directory)
  BY <1>1, <1>5, <1>6 DEF OpenDirectory
<1>7. CASE OpenFile(tag, directory, file)
  BY <1>1, <1>4, <1>5, <1>7 DEF OpenFile, FindUnique, Scan
<1>8. CASE OpenCreate(tag, directory, file)
  BY <1>1, <1>4, <1>5, <1>8 DEF OpenCreate, Scan
<1>9. QED
  BY <1>6, <1>7, <1>8

-----------------------------------------------------------------------------
(* What a handle's holder may change of it: whether it has ended, whether  *)
(* it failed, and that it lost its channel, which the bus then shows.      *)
LEMMA UsingKeepsInv ==
    ASSUME Inv, Opened, UNCHANGED <<mounts, generation>>,
           handle' \in Handles,
           handle'.by = handle.by, handle'.volume = handle.volume,
           handle'.kind = handle.kind, handle'.file = handle.file,
           \/ handle'.channel = handle.channel /\ bus' = bus
           \/ ~handle'.channel /\ bus' = Idle /\ handle.kind \in {"file", "directory"},
           handle.kind # "directory" => saved' = saved,
           saved' \in Files \cup {None},
           device' \in Units \cup {None},
           touched' \in Units \cup {None}
    PROVE  Inv'
<1>1. handle' # Closed /\ handle' \in Handles \cup {Closed}
  BY ClosedIsNoHandle
<1>2. bus' \in Buses
  BY DEF Inv, TypeOK, Buses
<1>3. TypeOK'
  BY <1>1, <1>2 DEF Inv, TypeOK
<1>4. HandleIsCurrent' /\ HandleIsSound' /\ AliasesAreReadOnly'
  BY <1>1 DEF Inv, HandleIsCurrent, HandleIsSound, AliasesAreReadOnly, Opened, Caller
<1>5. BusIsAccountedFor'
  <2>1. CASE handle'.channel = handle.channel /\ bus' = bus
    BY <1>1, <2>1 DEF Inv, BusIsAccountedFor, Opened
  <2>2. CASE ~handle'.channel /\ bus' = Idle /\ handle.kind \in {"file", "directory"}
    BY <1>1, <2>2 DEF BusIsAccountedFor, Opened
  <2>3. QED
    BY <2>1, <2>2
<1>6. InUseStays'
  BY <1>1 DEF Inv, InUseStays, Opened
<1>7. QED
  BY <1>3, <1>4, <1>5, <1>6 DEF Inv

(* The descriptor is given up and the bus is idle.                         *)
LEMMA ClosingKeepsInv ==
    ASSUME Inv, UNCHANGED mounts, handle' = Closed, bus' = Idle,
           generation' \in [Tags -> 0 .. Generations - 1],
           device' \in Units \cup {None},
           saved' \in Files \cup {None},
           touched' \in Units \cup {None}
    PROVE  Inv'
<1>1. TypeOK'
  BY AtRest DEF Inv, TypeOK
<1>2. InUseStays' /\ AliasesAreReadOnly'
  BY DEF Inv, InUseStays, AliasesAreReadOnly, Opened
<1>3. QED
  BY <1>1, <1>2, AtRest DEF Inv

(* close_handle always leaves the bus idle.                                *)
LEMMA CloseHandleFrees ==
    ASSUME Inv, Opened, CloseHandle
    PROVE  /\ handle' = Closed
           /\ bus' = Idle
           /\ touched' \in Units \cup {None}
<1>1. handle \in Handles
  BY DEF Inv, TypeOK, Opened
<1>2. bus \in Buses /\ bus.unit \in Units \cup {None}
  BY DEF Inv, TypeOK, Buses
<1>3. handle.channel \/ handle.kind \in {"stream"} \cup Mutations \/ bus.use = "idle"
  BY <1>1 DEF Inv, BusIsAccountedFor, Handles, Opened
<1>4. QED
  BY <1>2, <1>3, IdleIsIdle DEF CloseHandle

LEMMA ReadKeepsInv ==
    ASSUME Inv, NEW tag \in Tags, Read(tag)
    PROVE  Inv'
<1>1. handle \in Handles /\ Opened
  BY DEF Inv, TypeOK, Read, Holds, Opened
<1>2. PICK error \in BOOLEAN, eof \in BOOLEAN :
        handle' = [handle EXCEPT !.error = error, !.eof = eof, !.channel = FALSE]
  BY DEF Read
<1>3. /\ handle' \in Handles
      /\ handle'.by = handle.by /\ handle'.volume = handle.volume
      /\ handle'.kind = handle.kind /\ handle'.file = handle.file
      /\ ~handle'.channel
  BY <1>1, <1>2 DEF Handles
<1>4. QED
  BY <1>1, <1>3, UsingKeepsInv DEF Inv, TypeOK, Read, Holds

LEMMA GetdentsKeepsInv ==
    ASSUME Inv, NEW tag \in Tags, Getdents(tag)
    PROVE  Inv'
<1>1. handle \in Handles /\ Opened /\ handle.kind = "directory" /\ bus = Idle
  BY IdleIsIdle DEF Inv, TypeOK, Getdents, Holds, Opened, BusIsAccountedFor
<1>2. /\ handle' \in Handles
      /\ handle'.by = handle.by /\ handle'.volume = handle.volume
      /\ handle'.kind = handle.kind /\ handle'.file = handle.file
      /\ handle'.channel = handle.channel
  BY <1>1 DEF Getdents, Handles
<1>3. bus' = bus /\ saved' \in Files \cup {None}
  BY <1>1 DEF Inv, TypeOK, Getdents, FindUnique, Scan
<1>4. device' \in Units \cup {None}
  BY <1>1 DEF Inv, TypeOK, Getdents, Handles
<1>5. QED
  BY <1>1, <1>2, <1>3, <1>4, UsingKeepsInv DEF Getdents

LEMMA WriteKeepsInv ==
    ASSUME Inv, NEW tag \in Tags, Write(tag)
    PROVE  Inv'
<1>1. handle \in Handles /\ Opened
  BY DEF Inv, TypeOK, Write, Holds, Opened
<1>2. /\ handle' \in Handles
      /\ handle'.by = handle.by /\ handle'.volume = handle.volume
      /\ handle'.kind = handle.kind /\ handle'.file = handle.file
      /\ handle'.channel = handle.channel
  BY <1>1 DEF Write, Handles
<1>3. bus.unit \in Units \cup {None}
  BY DEF Inv, TypeOK, Buses
<1>4. QED
  BY <1>1, <1>2, <1>3, UsingKeepsInv DEF Inv, TypeOK, Write

LEMMA CloseKeepsInv ==
    ASSUME Inv, NEW tag \in Tags, Close(tag) \/ MutationEnds(tag)
    PROVE  Inv'
<1>1. bus.unit \in Units \cup {None}
  BY DEF Inv, TypeOK, Buses
<1>2. CASE Close(tag)
  BY <1>2, CloseHandleFrees, ClosingKeepsInv DEF Inv, TypeOK, Close
<1>3. CASE MutationEnds(tag)
  BY <1>1, <1>3, ClosingKeepsInv DEF Inv, TypeOK, MutationEnds
<1>4. QED
  BY <1>2, <1>3

LEMMA MutateKeepsInv ==
    ASSUME Inv, NEW tag \in Tags, NEW op \in Mutations, Mutate(tag, op)
    PROVE  Inv'
<1>1. handle \in Handles /\ Opened /\ handle.kind = "file"
  BY DEF Inv, TypeOK, Mutate, Holds, Opened
<1>2. device' = mounted[handle.volume] /\ device' \in Units
  BY <1>1 DEF Inv, TypeOK, InUseStays, Mutate, SourceUnit, Handles
<1>3. CASE UNCHANGED <<handle, bus, saved>> /\ touched' = None
  BY <1>1, <1>2, <1>3, UsingKeepsInv DEF Inv, TypeOK, Mutate
<1>4. CASE handle' = Closed
  <2>1. handle' # handle /\ handle' # [handle EXCEPT !.kind = op, !.channel = FALSE]
    BY <1>1, <1>4, ClosedIsNoHandle DEF Handles
  <2>2. /\ bus' = Idle /\ saved' \in Files \cup {saved}
        /\ touched' \in {device', None}
    BY <2>1 DEF Mutate
  <2>3. QED
    BY <1>2, <1>4, <2>2, ClosingKeepsInv DEF Inv, TypeOK, Mutate
<1>5. CASE /\ handle' = [handle EXCEPT !.kind = op, !.channel = FALSE]
           /\ bus' = [use |-> "command", unit |-> device']
           /\ touched' = device'
           /\ UNCHANGED saved
  <2>1. /\ handle' \in Handles
        /\ handle' # Closed
        /\ handle'.by = handle.by /\ handle'.volume = handle.volume
        /\ handle'.kind = op /\ ~handle'.channel
    BY <1>1, <1>5, ClosedIsNoHandle DEF Handles
  <2>2. bus' \in Buses /\ bus'.use = "command" /\ bus'.unit = device'
    BY <1>2, <1>5 DEF Buses
  <2>3. UNCHANGED <<mounts, generation>>
    BY DEF Mutate
  <2>4. TypeOK'
    BY <1>2, <1>5, <2>1, <2>2, <2>3 DEF Inv, TypeOK
  <2>5. HandleIsCurrent'
    BY <1>1, <2>1, <2>3 DEF Inv, HandleIsCurrent, Opened, Caller
  <2>6. BusIsAccountedFor'
    BY <2>1, <2>2 DEF BusIsAccountedFor, Opened
  <2>7. InUseStays'
    BY <1>1, <1>2, <2>1, <2>2, <2>3 DEF Inv, InUseStays, Opened
  <2>8. HandleIsSound' /\ AliasesAreReadOnly'
    BY <1>1, <2>1, <2>3 DEF Inv, HandleIsSound, AliasesAreReadOnly, Mutate
  <2>9. QED
    BY <2>4, <2>5, <2>6, <2>7, <2>8 DEF Inv
<1>6. QED
  BY <1>3, <1>4, <1>5 DEF Mutate

-----------------------------------------------------------------------------
(* A handle that is not the dying tag's belongs to another tag, because a  *)
(* handle's generation is its tag's.                                       *)
LEMMA RetireKeepsInv ==
    ASSUME Inv, NEW tag \in Tags, Retire(tag)
    PROVE  Inv'
<1>1. generation' \in [Tags -> 0 .. Generations - 1]
  BY DEF Inv, TypeOK, Retire, NextGeneration
<1>2. CASE Opened /\ handle.by = Caller(tag)
  BY <1>1, <1>2, CloseHandleFrees, ClosingKeepsInv DEF Inv, TypeOK, Retire
<1>3. CASE ~(Opened /\ handle.by = Caller(tag))
  <2>1. UNCHANGED <<mounts, handle, bus, scratch>> /\ touched' = None
    BY <1>3 DEF Retire
  <2>2. TypeOK'
    BY <1>1, <2>1 DEF Inv, TypeOK
  <2>3. HandleIsCurrent'
    BY <1>3, <2>1 DEF Inv, TypeOK, HandleIsCurrent, Opened, Caller, Retire, NextGeneration
  <2>4. BusIsAccountedFor' /\ InUseStays' /\ AliasesAreReadOnly' /\ HandleIsSound'
    BY <2>1 DEF Inv, BusIsAccountedFor, InUseStays, AliasesAreReadOnly, HandleIsSound, Opened
  <2>5. QED
    BY <2>2, <2>3, <2>4 DEF Inv
<1>4. QED
  BY <1>2, <1>3

LEMMA RestingKeepsInv ==
    ASSUME Inv, UNCHANGED <<mounted, writable, cwd, generation, handle, bus, scratch>>,
           bootSource' \in BOOLEAN, touched' \in Units \cup {None}
    PROVE  Inv'
<1>1. TypeOK'
  BY DEF Inv, TypeOK
<1>2. QED
  BY <1>1, LookingKeepsInv DEF Inv, InUseStays

LEMMA BootKeepsInv == Inv /\ Boot => Inv'
<1> SUFFICES ASSUME Inv, Boot PROVE Inv'
  OBVIOUS
<1>1. ASSUME NEW unit \in Units, Mount("root", unit, TRUE) PROVE Inv'
  BY <1>1, MountKeepsInv
<1>2. ASSUME NEW file \in Files, OpenFile(Loader, "/", file) PROVE Inv'
  BY <1>2, OpenKeepsInv
<1>3. CASE Read(Loader)
  BY <1>3, ReadKeepsInv
<1>4. CASE Close(Loader)
  BY <1>4, CloseKeepsInv
<1>5. CASE Umount("root")
  BY <1>5, UmountKeepsInv
<1>6. CASE BootEnds
  BY <1>6, RestingKeepsInv DEF BootEnds
<1>7. QED
  BY <1>1, <1>2, <1>3, <1>4, <1>5, <1>6 DEF Boot

LEMMA SessionKeepsInv == Inv /\ Session => Inv'
<1> SUFFICES ASSUME Inv, Session PROVE Inv'
  OBVIOUS
<1>1. CASE Administer
  BY <1>1, UmountKeepsInv, MountKeepsInv, RemountKeepsInv DEF Administer
<1>2. CASE Look
  BY <1>2, LookKeepsInv
<1>3. CASE Open
  <2>1. ASSUME NEW directory \in Directories, OpenRefused(directory) PROVE Inv'
    <3>1. TypeOK'
      BY <2>1 DEF Inv, TypeOK, OpenRefused, Resolve, Volume
    <3>2. QED
      BY <2>1, <3>1, LookingKeepsInv DEF Inv, InUseStays, OpenRefused
  <2>2. ASSUME NEW directory \in Directories, NEW tag \in Tags,
               OpenDirectory(tag, directory)
        PROVE  Inv'
    BY <2>2, OpenKeepsInv
  <2>3. QED
    BY <1>3, <2>1, <2>2, OpenKeepsInv DEF Open
<1>4. CASE Use
  BY <1>4, ReadKeepsInv, GetdentsKeepsInv, WriteKeepsInv, CloseKeepsInv, MutateKeepsInv
     DEF Use
<1>5. ASSUME NEW tag \in Tags \ {Loader}, Retire(tag) PROVE Inv'
  BY <1>5, RetireKeepsInv
<1>6. QED
  BY <1>1, <1>2, <1>3, <1>4, <1>5 DEF Session

THEOREM NextInv == Inv /\ [Next]_vars => Inv'
<1> SUFFICES ASSUME Inv, [Next]_vars PROVE Inv'
  OBVIOUS
<1>1. CASE UNCHANGED vars
  <2>1. touched' \in Units \cup {None} /\ bootSource' \in BOOLEAN
    BY <1>1 DEF Inv, TypeOK, vars
  <2>2. QED
    BY <1>1, <2>1, RestingKeepsInv DEF vars
<1>2. QED
  BY <1>1, BootKeepsInv, SessionKeepsInv DEF Next

THEOREM StorageIsSound == Spec => []Inv
BY InitInv, NextInv, PTL DEF Spec

(* However programs end and tags are reused, an open handle is that of the *)
(* program now running under its tag.                                      *)
THEOREM HandlesAreCurrent == Spec => []HandleIsCurrent
<1>1. Inv => HandleIsCurrent
  BY DEF Inv
<1>2. QED
  BY <1>1, StorageIsSound, PTL

(* The transport is held by the open descriptor or by nobody.              *)
THEOREM BusIsAlwaysAccountedFor == Spec => []BusIsAccountedFor
<1>1. Inv => BusIsAccountedFor
  BY DEF Inv
<1>2. QED
  BY <1>1, StorageIsSound, PTL

(* An open descriptor keeps its mount, its unit and its directory entry.   *)
THEOREM WhatIsInUseStays == Spec => []InUseStays
<1>1. Inv => InUseStays
  BY DEF Inv
<1>2. QED
  BY <1>1, StorageIsSound, PTL

-----------------------------------------------------------------------------
(* The unit a stream or a pending mutation is writing to is granted.       *)
LEMMA HeldUnitIsGranted ==
    ASSUME Inv, Opened, handle.kind \in {"stream"} \cup Mutations
    PROVE  Granted(bus.unit)
<1>1. handle \in Handles /\ handle.volume \in Volumes
  BY DEF Inv, TypeOK, Opened, Handles
<1>2. bus # Idle
  BY IdleIsIdle DEF Inv, TypeOK, BusIsAccountedFor
<1>3. bus.unit = mounted[handle.volume] /\ mounted[handle.volume] # None
  BY <1>2 DEF Inv, InUseStays
<1>4. handle.volume \in writable
  BY DEF Inv, HandleIsSound
<1>5. QED
  BY <1>1, <1>3, <1>4, WritableIsGranted

LEMMA ClosingWritesGranted ==
    ASSUME Inv, Opened, CloseHandle, touched' # None
    PROVE  Granted(touched')
BY HeldUnitIsGranted DEF CloseHandle

(* Nothing is written but through a mount that allows it and is the disk's *)
(* only one.                                                               *)
LEMMA StepWritesGranted ==
    ASSUME Inv, Next, touched' # None
    PROVE  Granted(touched')
<1>1. ASSUME NEW tag \in Tags, NEW directory \in Directories, NEW file \in Files,
             OpenCreate(tag, directory, file)
      PROVE  Granted(touched')
  <2>1. touched' = mounted[Volume(directory)] /\ mounted[Volume(directory)] # None
    BY <1>1 DEF OpenCreate, Resolve
  <2>2. Volume(directory) \in writable
    BY <1>1 DEF OpenCreate
  <2>3. QED
    BY <2>1, <2>2, WritableIsGranted DEF Volume
<1>2. ASSUME NEW tag \in Tags, Write(tag) PROVE Granted(touched')
  BY <1>2, HeldUnitIsGranted DEF Write, Holds
<1>3. ASSUME NEW tag \in Tags, MutationEnds(tag) PROVE Granted(touched')
  BY <1>3, HeldUnitIsGranted DEF MutationEnds, Holds
<1>4. ASSUME NEW tag \in Tags, Close(tag) \/ Retire(tag) PROVE Granted(touched')
  BY <1>4, ClosingWritesGranted DEF Close, Retire
<1>5. ASSUME NEW tag \in Tags, NEW op \in Mutations, Mutate(tag, op)
      PROVE  Granted(touched')
  <2>1. handle \in Handles /\ handle.volume \in Volumes
    BY <1>5 DEF Inv, TypeOK, Opened, Mutate, Holds, Handles
  <2>2. touched' = mounted[handle.volume] /\ handle.volume \in writable
    BY <1>5 DEF Mutate, SourceUnit
  <2>3. QED
    BY <2>1, <2>2, WritableIsGranted
<1>6. CASE Boot
  BY <1>4, <1>6 DEF Boot, Mount, OpenFile, Read, Umount, BootEnds
<1>7. CASE Session
  <2>1. CASE Administer
    BY <2>1 DEF Administer, Umount, Mount, Remount
  <2>2. CASE Look
    BY <2>2 DEF Look, Stat, Statfs, Chdir, ChdirName
  <2>3. CASE Open
    BY <1>1, <2>3 DEF Open, OpenRefused, OpenDirectory, OpenFile
  <2>4. CASE Use
    BY <1>2, <1>3, <1>4, <1>5, <2>4 DEF Use, Read, Getdents
  <2>5. QED
    BY <1>4, <1>7, <2>1, <2>2, <2>3, <2>4 DEF Session
<1>8. QED
  BY <1>6, <1>7 DEF Next

THEOREM StorageWritesAreGranted == Spec => WritesAreGranted
<1>1. Inv /\ [Next]_vars => [touched' # None => Granted(touched')]_vars
  BY StepWritesGranted
<1>2. QED
  BY <1>1, StorageIsSound, PTL DEF Spec, WritesAreGranted

-----------------------------------------------------------------------------
(* The lease the requests are made under.  No edge of the NMI line is lost *)
(* around it.  The inductive invariant says where an unacknowledged edge   *)
(* may be recorded at each instruction: in the visible flag; in the hidden *)
(* one, from the moment the map hides the common page until it has been    *)
(* forwarded; or nowhere but in the drain that has cleared the flag and is *)
(* about to read the device.                                               *)
HIDE StorageAssumption
     DEF Volumes, Directories, Mutations, Closed, Idle, mounts, scratch

(* Interrupts are masked in a lease: it never meets a drain.               *)
Masked == drain # "idle" => lease = "idle"

(* The common page is hidden exactly between the two writes to the MMU.    *)
Hidden == map = "hidden" <=> lease \in {"serve", "leave"}

Recorded ==
    owed => \/ visible
            \/ drain = "ack"
            \/ hidden /\ lease \in {"serve", "leave", "sample", "forward"}

LeaseInv == LeaseTypeOK /\ Masked /\ Hidden /\ Recorded

LEMMA InitLeaseInv == LeaseInit => LeaseInv
BY DEF LeaseInit, LeaseInv, LeaseTypeOK, Masked, Hidden, Recorded

LEMMA LeaseStepKeepsTypes == LeaseTypeOK /\ [LeaseNext]_leaseVars => LeaseTypeOK'
<1> SUFFICES ASSUME LeaseTypeOK, [LeaseNext]_leaseVars PROVE LeaseTypeOK'
  OBVIOUS
<1> USE DEF lines, LeaseStep
<1>1. CASE Nmi \/ Raster
  BY <1>1 DEF LeaseTypeOK, Nmi, Raster
<1>2. CASE Lease
  BY <1>2 DEF LeaseTypeOK, Lease, Enter, Check, Reject, Prepare, Hide, Serve, Leave,
              Sample, Forward, Forwarded, Forget, Publish
<1>3. CASE Drain
  BY <1>3 DEF LeaseTypeOK, Drain, Interrupt, Transfer, Test, ClearFlag,
              Acknowledge, Done
<1>4. CASE UNCHANGED leaseVars
  BY <1>4 DEF LeaseTypeOK, leaseVars
<1> QED BY <1>1, <1>2, <1>3, <1>4 DEF LeaseNext

LEMMA StepKeepsLease == LeaseInv /\ [LeaseNext]_leaseVars => LeaseInv'
<1> SUFFICES ASSUME LeaseInv, [LeaseNext]_leaseVars PROVE LeaseInv'
  OBVIOUS
<1>1. LeaseTypeOK'
  BY LeaseStepKeepsTypes DEF LeaseInv
<1> USE DEF LeaseInv, Masked, Hidden, Recorded, lines, LeaseStep
<1>2. CASE Nmi \/ Raster
  BY <1>1, <1>2 DEF Nmi, Raster, LeaseTypeOK
<1>3. CASE Enter \/ Check \/ Reject \/ Prepare \/ Hide \/ Serve
  BY <1>1, <1>3 DEF Enter, Check, Reject, Prepare, Hide, Serve
<1>4. CASE Leave \/ Sample
  BY <1>1, <1>4 DEF Leave, Sample
<1>5. CASE Forward \/ Forget \/ Publish
  BY <1>1, <1>5 DEF Forward, Forwarded, Forget, Publish
<1>6. CASE Interrupt \/ Transfer \/ Test \/ Done
  BY <1>1, <1>6 DEF Interrupt, Transfer, Test, Done
<1>7. CASE ClearFlag \/ Acknowledge
  BY <1>1, <1>7 DEF ClearFlag, Acknowledge
<1>8. CASE UNCHANGED leaseVars
  BY <1>1, <1>8 DEF leaseVars
<1> QED
  BY <1>2, <1>3, <1>4, <1>5, <1>6, <1>7, <1>8 DEF LeaseNext, Lease, Drain

THEOREM LeaseIsInvariant == LeaseSpec => []LeaseInv
BY InitLeaseInv, StepKeepsLease, PTL DEF LeaseSpec

(* Whichever instruction an NMI interrupts, its edge shows in the flag as  *)
(* soon as neither lease nor drain is under way.                           *)
THEOREM EveryEdgeIsKept == LeaseSpec => []NoEdgeIsLost
<1>1. LeaseInv => NoEdgeIsLost
  BY DEF LeaseInv, Recorded, NoEdgeIsLost
<1> QED BY <1>1, LeaseIsInvariant, PTL
=============================================================================
