---------------------------- MODULE TapeIdentity ----------------------------
(***************************************************************************)
(* What tape is this?  identify.py answers from the first segments of a    *)
(* tape, as sectors or as an image: it finds a copy of the header and the  *)
(* volume table, and guesses the layout of the table's entries             *)
(* (volume_profile.py) and the cartridge (cartridge.py).  Whatever was     *)
(* lost, what is not complete is noted.                                    *)
(*                                                                         *)
(* Bytes are what the code asks of them: a record of the table is its      *)
(* signature, and of a VTBL record the hints and the plausible fields that *)
(* each layout reads in it; lengths are in tenths of a foot.               *)
(***************************************************************************)
EXTENDS Integers, Sequences, FiniteSets

CONSTANTS Catalogue, \* the cartridges, in catalogue() order: [standard, tracks, length, count],
                     \* count 0 where the standard does not fix the segments of a track
          Formats,   \* VARIABLE_FORMATS, in thousandths of an inch: standard -> [gap, segment]
          Profiles,  \* the volume profiles, by name: [name, vendor, mark, codes, layout, fields]
          Subjects   \* what is identified: [state, first, headers, records, vol, sources,
                     \* forced], and of its writer [volumes, by, cartridge]

\* "Within one standard and width the closest catalogued lengths are 307.5 and 425 ft (38%
\* apart) or 750 and 1,000 ft (33%), so 10% cannot confuse neighbours" (cartridge.py:77-79).
ASSUME CatalogueAssumption ==
  /\ DOMAIN Catalogue \subseteq Nat
  /\ \A k \in DOMAIN Catalogue :
       /\ Catalogue[k].length \in Nat \ {0} /\ Catalogue[k].count \in Nat
       /\ Catalogue[k].count = 0 => Catalogue[k].standard \in DOMAIN Formats
  /\ \A s \in DOMAIN Formats : Formats[s].gap \in Nat /\ Formats[s].segment \in Nat \ {0}
  /\ \A j, k \in DOMAIN Catalogue :
       /\ Catalogue[j].tracks = Catalogue[k].tracks
       /\ Catalogue[j].standard = Catalogue[k].standard /\ j # k
       => \/ 5 * Catalogue[j].length > 6 * Catalogue[k].length
          \/ 5 * Catalogue[j].length < 4 * Catalogue[k].length
  \* QIC-40, and nothing else, fixes its counts (cartridge.py:93), each for one length.
  /\ \A j, k \in DOMAIN Catalogue :
       Catalogue[j].tracks = Catalogue[k].tracks /\ j # k =>
         /\ Catalogue[j].count = 0 <=> Catalogue[k].count = 0
         /\ Catalogue[j].count # 0 => Catalogue[j].count # Catalogue[k].count

VARIABLES subject, info

identityVars == <<subject, info>>
-----------------------------------------------------------------------------
(***************************************************************************)
(* cartridge.py                                                            *)
(***************************************************************************)
\* How much tape a cartridge has for segments, 3% of it left to the speed's variation, and
\* how much n segments and the gaps take, in thousandths of an inch.
Usable(k) == 1164 * Catalogue[k].length
Taken(standard, n) == n * Formats[standard].segment + 1360 - Formats[standard].gap
MinSegments(k) ==
  LET format == Formats[Catalogue[k].standard]
  IN (Usable(k) - 1360 + format.gap) \div format.segment
Off(k, n) ==
  LET d == Usable(k) - Taken(Catalogue[k].standard, n) IN IF d < 0 THEN -d ELSE d
IsNear(k, n) == 10 * Off(k, n) <= Usable(k)

\* A hint narrows the choice, unless no cartridge of that many tracks is of its standard.
OfTracks(tracks) == {k \in DOMAIN Catalogue : Catalogue[k].tracks = tracks}
\* mutant
AllOfTracks(tracks, hint) == OfTracks(tracks)
Considered(tracks, hint) ==
  LET hinted == {k \in OfTracks(tracks) : Catalogue[k].standard = hint}
  IN IF hinted # {} THEN hinted ELSE OfTracks(tracks)

NearestOfStandard(k, n, among) ==
  \A j \in {j \in among : Catalogue[j].standard = Catalogue[k].standard} :
    Off(k, n) < Off(j, n) \/ (Off(k, n) = Off(j, n) /\ k <= j)

\* The cartridges that fit: one is the guess, several are its alternatives.
GuessedCartridges(tracks, n, hint) ==
  LET among == Considered(tracks, hint)
      fixed == {k \in among : Catalogue[k].count = n /\ Catalogue[k].count # 0}
  IN IF fixed # {} THEN {CHOOSE k \in fixed : \A j \in fixed : k <= j}
     ELSE IF \A k \in among : Catalogue[k].count # 0 THEN {}
     ELSE {k \in among : /\ Catalogue[k].standard \in DOMAIN Formats
                         /\ NearestOfStandard(k, n, among) /\ IsNear(k, n)}
-----------------------------------------------------------------------------
(***************************************************************************)
(* volume_profile.py                                                       *)
(***************************************************************************)
\* vtbl_records: the records of volumes, up to an empty record.
Reached(table, i) == \A j \in 1 .. i - 1 : table[j].sig # "zero"
VolumeRecords(table) == {i \in DOMAIN table : table[i].sig = "VTBL" /\ Reached(table, i)}
VolumesOf(table) == {table[i].volume : i \in VolumeRecords(table)}
\* _extension_notes
ContinuesElsewhere(table) == \E i \in DOMAIN table : table[i].sig = "EXVT" /\ Reached(table, i)

Points(ok, weight) == IF ok THEN weight ELSE -weight
\* mutant
HintsCountOnce(p, record) ==
  Points(record.vendor = p.vendor, 1)
    + (IF p.mark = "none" THEN 0 ELSE Points(record.mark = p.mark, 1))
    + (IF p.codes = {} THEN 0 ELSE Points(subject.vol.format_code \in p.codes, 1))
\* match_checks: a hint counts double.
MatchPoints(p, record) ==
  Points(record.vendor = p.vendor, 2)
    + (IF p.mark = "none" THEN 0 ELSE Points(record.mark = p.mark, 2))
    + (IF p.codes = {} THEN 0 ELSE Points(subject.vol.format_code \in p.codes, 2))
\* decode_entry: of the fields that a profile places, those that look right where it has them.
SoundFields(p, record) == p.fields \cap record.sound[p.layout]
\* entry_checks: only those fields are checked.
EntryPoints(p, record) ==
  Points(record.inRange, 1) + (IF record.date = "none" THEN 0 ELSE Points(record.date = "ok", 1))
    + Cardinality(SoundFields(p, record)) - Cardinality(p.fields \ SoundFields(p, record))
Score(p, table) ==
  LET sum[i \in 0 .. Len(table)] ==
        IF i = 0 THEN 0
        ELSE sum[i - 1] + (IF i \notin VolumeRecords(table) THEN 0
                           ELSE MatchPoints(p, table[i]) + EntryPoints(p, table[i]))
  IN sum[Len(table)]

\* guess: the best of the verdicts, the first of equals.
BestProfile(table) ==
  CHOOSE k \in DOMAIN Profiles : \A j \in DOMAIN Profiles :
    \/ Score(Profiles[j], table) < Score(Profiles[k], table)
    \/ Score(Profiles[j], table) = Score(Profiles[k], table) /\ k <= j
IsTied(table) ==
  \E j \in DOMAIN Profiles \ {BestProfile(table)} :
    Score(Profiles[j], table) = Score(Profiles[BestProfile(table)], table)
-----------------------------------------------------------------------------
(***************************************************************************)
(* identify.py                                                             *)
(***************************************************************************)
Recovered == {"clean", "corrected"}
Segments == DOMAIN subject.state
Captured == {n \in Segments : subject.state[n] # "missing"}
\* _image_state, classify
StateOf(n) == subject.state[n]
NoInfo == [at |-> "none"]
RefusedInfo == [at |-> "refused"]

\* reporting_drive: the first capture that holds any report of the drive.
DriveOf(sources) ==
  LET speaking == {i \in DOMAIN sources : sources[i] # "silent"}
  IN IF speaking = {} THEN "silent"
     ELSE sources[CHOOSE i \in speaking : \A j \in speaking : i <= j]
\* _standard_hint
StandardHint ==
  LET told == DriveOf(subject.sources)
  IN IF told \notin {"silent", "untold", "other"} THEN told
     ELSE IF subject.vol.format_code = 6 THEN "QIC-3020" ELSE "none"

\* The guess's standard, if it settled on one, and otherwise the hint.
StandardOf(fit) ==
  IF Cardinality(fit) = 1 THEN Catalogue[CHOOSE k \in fit : TRUE].standard ELSE StandardHint

\* _note_header_copy
CopyNotes(header) == IF subject.vol.header_seg # header THEN {"copy"} ELSE {}
\* mutant
NoNoteOfMissing(n) == IF StateOf(n) \in Recovered \cup {"missing"} THEN {} ELSE {"damaged"}
DamageNotes(n) == IF StateOf(n) \in Recovered THEN {} ELSE {"damaged"}
TableRead(n) == IF StateOf(n) \in Recovered THEN subject.records[n] ELSE <<>>

\* _assemble: table is <<>> where there is none that could be read.
Assembled(source, header, table, notes) ==
  LET guesses == subject.forced = 0 /\ VolumeRecords(table) # {}
      fit == GuessedCartridges(subject.vol.tracks, subject.vol.segments_per_track, StandardHint)
  IN [at |-> source, header |-> header,
      volumes |-> VolumesOf(table),
      profile |-> IF guesses THEN BestProfile(table) ELSE subject.forced,
      cartridges |-> fit,
      standard |-> StandardOf(fit),
      notes |-> CopyNotes(header) \cup notes
                  \cup (IF ContinuesElsewhere(table) THEN {"continues"} ELSE {})
                  \cup (IF guesses /\ IsTied(table) THEN {"tie"} ELSE {})]

Lowest(S) == CHOOSE n \in S : \A m \in S : n <= m

\* _find_header: the first segment whose data starts like a header's, as read or corrected.
Located == {n \in subject.headers \cap Captured : subject.first[n] \/ StateOf(n) \in Recovered}
\* find_volume_table_segment: the first whose data, as read, starts like a table's.
LookLikeTables ==
  {n \in Captured : /\ subject.first[n] /\ subject.records[n] # <<>>
                    /\ subject.records[n][1].sig \in {"VTBL", "XTBL"}}
Named == subject.vol.first_data_seg

\* from_sectors: the table is where the header has it, or wherever one is found.
IdentifySectors ==
  /\ info = NoInfo
  /\ LET header == Lowest(Located)
         isCaptured == Named # 0 /\ Named \in Captured
         found == IF isCaptured THEN Named ELSE Lowest(LookLikeTables)
         strange == IF isCaptured \/ Named = 0 THEN {} ELSE {"signature"}
     IN info' = IF Located = {} THEN RefusedInfo
                ELSE IF ~isCaptured /\ LookLikeTables = {}
                THEN Assembled("sectors", header, <<>>, {"missing"})
                ELSE Assembled("sectors", header, TableRead(found), strange \cup DamageNotes(found))
  /\ UNCHANGED subject

\* from_image: an image of the sectors, whose header build_image has located; either copy of
\* it, and the table where the header has it.
Copies == {n \in subject.headers \cap Segments : StateOf(n) \in Recovered}
IdentifyImage ==
  /\ info = NoInfo /\ Located # {}
  /\ LET vol == subject.vol
         header == IF vol.header_seg \in Copies THEN vol.header_seg ELSE vol.dup_header_seg
     IN info' = IF Copies = {} THEN RefusedInfo
                ELSE IF Named = 0 \/ Named \notin Segments
                THEN Assembled("image", header, <<>>, {"missing"})
                ELSE Assembled("image", header, TableRead(Named), DamageNotes(Named))
  /\ UNCHANGED subject

\* What a tape has whatever became of its segments: a header and a duplicate behind it, and
\* where the header names it a table of its volumes, which may continue elsewhere.
ASSUME SubjectsAssumption ==
  \A s \in Subjects :
    LET vol == s.vol
        table == s.records[vol.first_data_seg]
    IN /\ vol.segments_per_track \in Nat /\ s.cartridge \in {0} \cup DOMAIN Catalogue
       /\ DOMAIN s.state \subseteq Nat /\ s.headers \subseteq DOMAIN s.state
       /\ s.headers = {vol.header_seg, vol.dup_header_seg} /\ vol.header_seg < vol.dup_header_seg
       /\ vol.first_data_seg \in DOMAIN s.state \ {0} =>
            /\ VolumesOf(table) \subseteq s.volumes
            /\ VolumesOf(table) = s.volumes \/ ContinuesElsewhere(table)

IdentityInit == subject \in Subjects /\ info = NoInfo
IdentityNext == IdentifySectors \/ IdentifyImage
IdentitySpec == IdentityInit /\ [][IdentityNext]_identityVars
-----------------------------------------------------------------------------
Identified == info # NoInfo /\ info # RefusedInfo

(***************************************************************************)
(* A list of volumes that is not what was recorded is noted for what it    *)
(* is, a list that is not so noted holds no more and no less; a header     *)
(* that is not the first copy is noted, and the first copy then could not  *)
(* be read; a tape is refused only when no copy could.  The header names   *)
(* its first data segment (identify.py:207); of one that does not, the     *)
(* list is still part of what was recorded, or found in a file's bytes.    *)
(***************************************************************************)
NotesAreTrue ==
  /\ Identified =>
       /\ subject.vol.first_data_seg # 0 /\ info.volumes # subject.volumes
            => info.notes \cap {"missing", "damaged", "continues", "signature"} # {}
       /\ info.notes \cap {"missing", "damaged"} # {} => info.volumes = {}
       /\ subject.vol.first_data_seg # 0 /\ "signature" \notin info.notes
            => info.volumes \subseteq subject.volumes
       /\ ("copy" \in info.notes) <=> (info.header # subject.vol.header_seg)
       /\ "copy" \in info.notes => StateOf(subject.vol.header_seg) \notin Recovered
  /\ info = RefusedInfo => \A n \in subject.headers : StateOf(n) \notin Recovered

(***************************************************************************)
(* A volume table is read in the layout of the software that wrote it,     *)
(* whatever the bytes at the places of the other layouts look like.  Of an *)
(* unknown vendor's, nothing past byte 56 is read, unless at least three   *)
(* of four fields of QIC-113's layout look right in it; at three of four   *)
(* the tie is noted (vendor-unknown.toml:5).                               *)
(***************************************************************************)
LayoutIsTheWriters ==
  Identified /\ subject.forced = 0 /\ info.volumes # {} /\ info.volumes \subseteq subject.volumes =>
    LET chosen == Profiles[info.profile]
        records == {r \in UNION {{subject.records[n][i] : i \in DOMAIN subject.records[n]}
                                   : n \in Segments} : r.sig = "VTBL" /\ r.volume \in info.volumes}
    IN \/ chosen.name = subject.by /\ "tie" \notin info.notes
       \/ /\ subject.by = "vendor-unknown" /\ chosen.vendor
          /\ \E r \in records : Cardinality(r.sound[chosen.layout]) >= 3
          /\ (\A r \in records : Cardinality(r.sound[chosen.layout]) = 3) => "tie" \in info.notes

(***************************************************************************)
(* A tape whose segments per track are those of a cartridge, as far as     *)
(* tolerated, is called that cartridge: by itself if the drive, or format  *)
(* code 6, named its standard, and otherwise at least as an alternative.   *)
(***************************************************************************)
CartridgeIsNamed ==
  LET c == Catalogue[subject.cartridge]
      n == subject.vol.segments_per_track
      hintFits == StandardHint = c.standard
      noHint == \A k \in OfTracks(c.tracks) : Catalogue[k].standard # StandardHint
  IN Identified /\ subject.cartridge # 0 /\ c.tracks = subject.vol.tracks
       /\ (IF c.count = 0 THEN IsNear(subject.cartridge, n) ELSE n = c.count) =>
     /\ hintFits => info.cartridges = {subject.cartridge} /\ info.standard = c.standard
     /\ noHint => subject.cartridge \in info.cartridges
=============================================================================
