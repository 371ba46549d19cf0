----------------------------- MODULE DiskImage -----------------------------
(***************************************************************************)
(* The disk images of a release, as tools/build_d71.py and                 *)
(* tools/build_d81.py make them: the 1571 image with its boot sectors and  *)
(* files, the one-sided derivative built beside it, and the repacking of   *)
(* the finished 1571 image for the 1581.  A sector is named by its track   *)
(* and number, a block of a file by the file and its place in it.          *)
(***************************************************************************)
EXTENDS Integers, Sequences, FiniteSets, Functions

CONSTANTS
    SideOne,        \* D64_TRACK_COUNT
    D71, D81,       \* the two geometries, as records:
                    \*   count     sectors of each track
                    \*   dir       the directory's track
                    \*   first     its first sector, those after it may extend it
                    \*   reserved  sectors a formatted disk already uses
    Slots,          \* directory entries of a sector
    BootBlocks,     \* 1 + PAYLOAD_BLOCKS
    Files,          \* [name, blocks, last]: blocks needed, bytes in the last one
    Optional        \* names the one-sided image may leave out

VARIABLES
    full,       \* --d71-full-capacity: files may go to the second side
    lean,       \* --d64-no-xsprdef: the one-sided image omits the optional files
    installed,  \* the files asked for so far, in order
    d71,        \* the 1571 image
    source,     \* the image the one-sided one is derived from
    d64,        \* the one-sided image, as a set: empty until it is derived
    d81,        \* the 1581 image, with as many files as have been repacked
    repacked,   \* how many have
    stage       \* "building", "failed" (nothing is written), "written" (by
                \* build_d71), "stranded" (a derivation failed later), "repacked"

vars == <<full, lean, installed, d71, source, d64, d81, repacked, stage>>

----------------------------------------------------------------------------
(* Images: the allocation map and its counts, the link of every sector,    *)
(* what it holds, and the entries of directory sectors.                    *)

Tracks(g) == DOMAIN g.count
Sectors(g) == UNION {{t} \X (0 .. g.count[t] - 1) : t \in Tracks(g)}
EndShort(bytes) == <<0, bytes>>

(* The link of a last sector: where its last byte is.                      *)
End(bytes) == <<0, bytes + 1>>
Vacant == [name |-> "", start |-> <<0, 0>>, blocks |-> 0]
NoEntries == [n \in 1 .. Slots |-> Vacant]
Nothing == <<"", 0>>

(* Sectors in the order every loop of the tools visits them: by track, then *)
(* by number.  A directory is read in the same way, by sector, then by slot. *)
Before(s, t) == s[1] < t[1] \/ (s[1] = t[1] /\ s[2] < t[2])
Rank(s, S) == Cardinality({t \in S : Before(t, s)})
InOrder(S) == [n \in 1 .. Cardinality(S) |-> CHOOSE s \in S : Rank(s, S) = n - 1]
FirstOf(S) == InOrder(S)[1]

(* mark_used, of each of some sectors                                      *)
AllMarked(i, S) ==
    [i EXCEPT !.free = @ \ S,
              !.room = [t \in DOMAIN @ |->
                           @[t] - Cardinality({s \in S \cap i.free : s[1] = t})]]

(* blank_d71, blank_d81 *)
Blank(g) ==
    AllMarked([free |-> Sectors(g),
               room |-> g.count,
               link |-> [s \in Sectors(g) |-> IF s = <<g.dir, g.first>> THEN End(254)
                                              ELSE <<0, 0>>],
               block |-> [s \in Sectors(g) |-> Nothing],
               entries |-> [s \in Sectors(g) |-> NoEntries]],
              g.reserved)

(* boot_locations: the loader of the machine's ROM counts 1571 sectors on  *)
(* either disk.                                                            *)
BootSectors == SubSeq(InOrder(Sectors(D71)), 1, BootBlocks)

(* What is sound about a geometry: the directory starts behind what else   *)
(* its track has, and the boot sectors are on other tracks.                *)
GeometryIsSound(g) ==
    /\ g.count \in Seq(Nat)
    /\ g.reserved \subseteq Sectors(g)
    /\ <<g.dir, g.first>> \in g.reserved
    /\ \A s \in g.reserved : s[1] = g.dir => s[2] <= g.first
    /\ Range(BootSectors) \subseteq Sectors(g) \ g.reserved
    /\ \A s \in Range(BootSectors) : s[1] # g.dir

(* Where a directory may have its sectors, and where files may have theirs. *)
DirectorySectors(g) == {s \in Sectors(g) : s[1] = g.dir /\ s[2] >= g.first}
FileSectors(g) ==
    {s \in Sectors(g) \ (g.reserved \union Range(BootSectors)) : s[1] # g.dir}

(* The 1581 disk has more of both than the 1571: 37 sectors behind its     *)
(* header to 18, and 3200 sectors to 1366.  An empty file has a block of   *)
(* no bytes (install_prg_file).                                            *)
ASSUME DiskAssumption ==
    /\ SideOne \in Nat
    /\ Slots \in Nat \ {0}
    /\ BootBlocks \in 1 .. Cardinality(Sectors(D71))
    /\ \A g \in {D71, D81} : GeometryIsSound(g)
    /\ Cardinality(DirectorySectors(D71)) <= Cardinality(DirectorySectors(D81))
    /\ Cardinality(FileSectors(D71)) <= Cardinality(FileSectors(D81))
    /\ \A f \in Files : f.blocks \in Nat \ {0} /\ f.last \in 0 .. 254

(* The place of a sector in a sequence of sectors.                         *)
Place(at, s) == CHOOSE n \in DOMAIN at : at[n] = s

Bootable(i) ==
    [AllMarked(i, Range(BootSectors)) EXCEPT
        !.block = [s \in DOMAIN @ |-> IF s \in Range(BootSectors)
                                      THEN <<"boot", Place(BootSectors, s)>> ELSE @[s]]]

(* The sectors of a chain, in order; a chain has no more than the disk.    *)
Chain(i, start) ==
    LET size == Cardinality(DOMAIN i.link)
        at[n \in 1 .. size] ==
            IF n = 1 THEN start
            ELSE LET s == at[n - 1] IN IF s[1] = 0 THEN s ELSE i.link[s]
    IN  [n \in 1 .. Cardinality({k \in 1 .. size : at[k][1] # 0}) |-> at[n]]

Directory(g, i) == Chain(i, <<g.dir, g.first>>)

(* A slot of the directory: its sector's place in the chain, its number.   *)
Entry(g, i, p) == i.entries[Directory(g, i)[p[1]]][p[2]]
SlotsOf(g, i) == (DOMAIN Directory(g, i)) \X (1 .. Slots)
Taken(g, i) == {p \in SlotsOf(g, i) : Entry(g, i, p) # Vacant}
Vacancies(g, i) == SlotsOf(g, i) \ Taken(g, i)

(* entries: what the directory lists, in its order.                        *)
Listed(g, i) ==
    LET taken == InOrder(Taken(g, i)) IN [n \in DOMAIN taken |-> Entry(g, i, taken[n])]

(* file_bytes: the blocks of a chain and how many bytes the last one has.  *)
Contents(i, e) ==
    LET chain == Chain(i, e.start)
    IN  [blocks |-> [n \in DOMAIN chain |-> i.block[chain[n]]],
         last |-> i.link[chain[Len(chain)]][2] - 1,
         agrees |-> Len(chain) = e.blocks]

----------------------------------------------------------------------------
(* install_prg_file and install_file.                                      *)

Available(g, i, tracks) == {s \in i.free : s[1] \in tracks /\ s[1] # g.dir}

Extensions(g, i) == {s \in i.free : s[1] = g.dir /\ s[2] > g.first}

Linked(g, i, s) ==
    [i EXCEPT !.link = [@ EXCEPT ![Directory(g, i)[Len(Directory(g, i))]] = s, ![s] = End(254)],
              !.entries[s] = NoEntries]

ExtendedUnmarked(g, i) ==
    IF Vacancies(g, i) # {} THEN i ELSE Linked(g, i, FirstOf(Extensions(g, i)))

(* A full directory grows by the first free sector of its track.           *)
Extended(g, i) ==
    LET s == FirstOf(Extensions(g, i))
    IN  IF Vacancies(g, i) # {} THEN i ELSE AllMarked(Linked(g, i, s), {s})

(* The first vacant entry along the directory takes the file.              *)
Entered(g, i, e) ==
    LET p == FirstOf(Vacancies(g, i))
    IN  [i EXCEPT !.entries[Directory(g, i)[p[1]]][p[2]] = e]

(* The blocks go to the sectors in order, each linked to the next one.     *)
Written(i, f, at) ==
    [AllMarked(i, Range(at)) EXCEPT
        !.link = [s \in DOMAIN @ |->
            IF s \notin Range(at) THEN @[s]
            ELSE IF Place(at, s) < Len(at) THEN at[Place(at, s) + 1] ELSE End(f.last)],
        !.block = [s \in DOMAIN @ |->
            IF s \notin Range(at) THEN @[s] ELSE f.data[Place(at, s)]]]

(* What an installation asks of the image before it changes it.            *)
Fits(g, i, f, tracks) ==
    /\ Cardinality(Available(g, i, tracks)) >= f.blocks
    /\ Vacancies(g, i) # {} \/ Extensions(g, i) # {}

Install(g, i, f, tracks) ==
    LET at == SubSeq(InOrder(Available(g, i, tracks)), 1, f.blocks)
    IN  Entered(g, Written(Extended(g, i), f, at),
                [name |-> f.name, start |-> at[1], blocks |-> f.blocks])

Whole(f) == [name |-> f.name, blocks |-> f.blocks, last |-> f.last,
             data |-> [n \in 1 .. f.blocks |-> <<f.name, n>>]]

FileTracks == IF full THEN Tracks(D71) ELSE 1 .. SideOne
SourceTracksFull == FileTracks
SourceTracks == 1 .. SideOne

(* d64_compatibility_image reads every chain of its source.                *)
StaysOnSideOne(i) ==
    \A e \in Range(Listed(D71, i)) :
        /\ Contents(i, e).agrees
        /\ \A s \in Range(Chain(i, e.start)) : s[1] <= SideOne

OneSided(i) == [i EXCEPT !.free = {s \in @ : s[1] <= SideOne}]

(* A file as build_d81 reads it.                                           *)
Copy(i, e) ==
    LET c == Contents(i, e)
    IN  [name |-> e.name, blocks |-> Len(c.blocks), last |-> c.last, data |-> c.blocks]

----------------------------------------------------------------------------
(* main                                                                    *)

Init ==
    /\ full \in BOOLEAN
    /\ lean \in BOOLEAN
    /\ installed = <<>>
    /\ d71 = Bootable(Blank(D71))
    /\ source = Bootable(Blank(D71))
    /\ d64 = {}
    /\ d81 = Bootable(Blank(D81))
    /\ repacked = 0
    /\ stage = "building"

Omitted(f) == lean /\ f.name \in Optional

(* A file of the build, or of --data-file: a refusal ends the build and    *)
(* nothing is written.                                                     *)
AddFile(f) ==
    LET accepted ==
            /\ f.name \notin {installed[n].name : n \in DOMAIN installed}
            /\ Fits(D71, d71, f, FileTracks)
            /\ Omitted(f) \/ Fits(D71, source, f, SourceTracks)
    IN  /\ stage = "building"
        /\ IF accepted
           THEN /\ installed' = Append(installed, f)
                /\ d71' = Install(D71, d71, Whole(f), FileTracks)
                /\ source' = IF Omitted(f) THEN source
                             ELSE Install(D71, source, Whole(f), SourceTracks)
                /\ UNCHANGED stage
           ELSE /\ stage' = "failed"
                /\ UNCHANGED <<installed, d71, source>>
        /\ UNCHANGED <<full, lean, d64, d81, repacked>>

(* The 1571 image is written, then the one-sided one is derived.           *)
WriteImages ==
    /\ stage = "building"
    /\ IF StaysOnSideOne(source)
       THEN stage' = "written" /\ d64' = {OneSided(source)}
       ELSE stage' = "stranded" /\ UNCHANGED d64
    /\ UNCHANGED <<full, lean, installed, d71, source, d81, repacked>>

(* build_d81 reads the written image, one entry of its directory after the *)
(* other; a refusal leaves no 1581 image.                                  *)
RepackFile ==
    LET e == Listed(D71, d71)[repacked + 1]
        f == Copy(d71, e)
        accepted ==
            /\ Contents(d71, e).agrees
            /\ e.name \notin {Listed(D81, d81)[n].name : n \in DOMAIN Listed(D81, d81)}
            /\ Fits(D81, d81, f, Tracks(D81))
    IN  /\ stage = "written"
        /\ repacked < Len(Listed(D71, d71))
        /\ IF accepted
           THEN /\ d81' = Install(D81, d81, f, Tracks(D81))
                /\ repacked' = repacked + 1
                /\ UNCHANGED stage
           ELSE /\ stage' = "stranded"
                /\ UNCHANGED <<d81, repacked>>
        /\ UNCHANGED <<full, lean, installed, d71, source, d64>>

WriteRepacked ==
    /\ stage = "written"
    /\ repacked = Len(Listed(D71, d71))
    /\ stage' = "repacked"
    /\ UNCHANGED <<full, lean, installed, d71, source, d64, d81, repacked>>

Next == (\E f \in Files : AddFile(f)) \/ WriteImages \/ RepackFile \/ WriteRepacked

Spec == Init /\ [][Next]_vars

----------------------------------------------------------------------------
(* Properties.                                                             *)

(* The files that the one-sided image is to have.                          *)
Kept ==
    LET places == InOrder({<<n, 1>> : n \in {k \in DOMAIN installed : ~Omitted(installed[k])}})
    IN  [n \in DOMAIN places |-> installed[places[n][1]]]

(* A geometry, an image of it, and the files it ought to hold.             *)
Images ==
    {<<D71, d71, installed>>, <<D71, source, Kept>>,
     <<D81, d81, SubSeq(installed, 1, repacked)>>}

ReadsBack(g, i, files) ==
    LET listed == Listed(g, i)
    IN  /\ Len(listed) = Len(files)
        /\ \A n \in DOMAIN files :
              /\ listed[n].name = files[n].name
              /\ Contents(i, listed[n]) =
                    [blocks |-> Whole(files[n]).data, last |-> files[n].last, agrees |-> TRUE]

(* Every file reads back from every image as it was given, in the order of *)
(* installation, and the boot sectors are where the ROM looks for them: no *)
(* installation, growth of the directory or repacking writes over what an  *)
(* earlier one wrote (install_prg_file, install_file, build_image).        *)
FilesReadBack ==
    \A x \in Images :
        /\ ReadsBack(x[1], x[2], x[3])
        /\ \A n \in 1 .. BootBlocks : x[2].block[BootSectors[n]] = <<"boot", n>>

InUse(g, i) ==
    g.reserved \union Range(BootSectors) \union Range(Directory(g, i))
        \union UNION {Range(Chain(i, e.start)) : e \in Range(Listed(g, i))}

(* The allocation map frees exactly what nothing uses, and its counts are  *)
(* the map's: a drive that writes to the disk trusts them (mark_used).     *)
MapIsTrue ==
    \A x \in Images :
        /\ x[2].free = Sectors(x[1]) \ InUse(x[1], x[2])
        /\ \A t \in Tracks(x[1]) : x[2].room[t] = Cardinality({s \in x[2].free : s[1] = t})

(* Once the 1571 image is out no derivation is refused, and each has the   *)
(* files it ought to: main calls d64_compatibility_image outside the       *)
(* handler that reports a refusal, after it has written the first image,   *)
(* and build_d81 is run on what is already released.                       *)
DerivativesAreComplete ==
    /\ stage # "stranded"
    /\ stage \in {"written", "repacked"} =>
          d64 # {} /\ \A i \in d64 : ReadsBack(D71, i, Kept)
    /\ stage = "repacked" => ReadsBack(D81, d81, installed)
=============================================================================
