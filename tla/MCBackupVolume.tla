---------------------------- MODULE MCBackupVolume ----------------------------
(***************************************************************************)
(* The way from a tape image to files, for TLC: the streams of a compressed   *)
(* segment, the chunks and holes of a volume, the files they are kept in, the    *)
(* backup itself, and what identifies the tape.  The parts share no state: a       *)
(* behaviour is one part's.                                                        *)
(***************************************************************************)
EXTENDS BackupVolume, TapeIdentity

CONSTANTS RawBits, ShortBits, LongBits, GroupBits, RawFrame, TailFill, Cells, Bytes, Lengths,
          MaxOut, MaxFrames, MaxTokens, NoFrame,
          Stride, HeaderLen, Block, Images, Bodies, Frames

VARIABLES part, segment, expands, frame, frames, tokens, kind, whole, todo, disk

QC == INSTANCE Qic122
AF == INSTANCE ArchiveFiles

packedVars == <<segment, expands, frame, frames, tokens>>
fileVars == <<kind, whole, todo, disk>>
mcVars == <<part, allVars, volume, packedVars, fileVars, identityVars>>

NoPacked == segment = <<>> /\ expands = <<>> /\ frame = NoFrame /\ frames = 0 /\ tokens = 0
NoFiles == kind = "none" /\ whole = <<>> /\ todo = <<>> /\ disk = <<>>
NoSubject == subject = <<>> /\ info = NoInfo
NoJob ==
  /\ backup = <<>> /\ tape = <<>> /\ request = <<>> /\ recorded = <<>> /\ vtbl = <<>>
  /\ stage = "none" /\ at = 0 /\ pos = 0
  /\ lost = {} /\ twvl = <<>> /\ listing = {} /\ tar = <<>>

MCInit ==
  \/ part = "backup" /\ Init /\ volume = <<>> /\ NoPacked /\ NoFiles /\ NoSubject
  \/ part = "sparse" /\ SparseInit /\ NoJob /\ NoPacked /\ NoFiles /\ NoSubject
  \/ part = "packed" /\ QC!Init /\ NoJob /\ stream = <<>> /\ volume = <<>> /\ NoFiles /\ NoSubject
  \/ part = "files" /\ AF!Init /\ NoJob /\ stream = <<>> /\ volume = <<>> /\ NoPacked /\ NoSubject
  \/ part = "identity" /\ IdentityInit /\ NoJob /\ stream = <<>> /\ volume = <<>> /\ NoPacked /\ NoFiles

MCNext ==
  \/ part = "backup" /\ Next /\ UNCHANGED <<part, volume, packedVars, fileVars, identityVars>>
  \/ part = "sparse" /\ SparseNext
       /\ UNCHANGED <<part, jobVars, stage, at, pos, lost, twvl, listing, tar, packedVars, fileVars,
                      identityVars>>
  \/ part = "packed" /\ QC!Next /\ UNCHANGED <<part, allVars, volume, fileVars, identityVars>>
  \/ part = "files" /\ AF!Next /\ UNCHANGED <<part, allVars, volume, packedVars, identityVars>>
  \/ part = "identity" /\ IdentityNext /\ UNCHANGED <<part, allVars, volume, packedVars, fileVars>>

MCSpec == MCInit /\ [][MCNext]_mcVars
-----------------------------------------------------------------------------
(***************************************************************************)
(* The properties of the parts, each for the behaviours of its part.       *)
(***************************************************************************)
\* Whatever segments are lost, what the damage report does not name is whole, and the report
\* names what is damaged by how much (extract.py, qic113.py, entries.py, tar.py); and what is
\* said of the tape itself is complete or noted, read in its writer's layout, and of the
\* right cartridge (identify.py, volume_profile.py, cartridge.py).
ReportsAreTrue ==
  /\ part = "backup" => WholeIsWhole /\ DamageIsExact /\ RefusedIsUnwritten
  /\ part = "identity" => NotesAreTrue /\ LayoutIsTheWriters /\ CartridgeIsNamed

\* A frame, an image or a volume that was cut is refused, and one that was not is read back
\* (qic122.py, twti.py, twvl.py, twrf.py).
CutsAreRefused ==
  /\ part = "packed" => QC!ExtentIsRead /\ QC!CutIsRefused
  /\ part = "files" => AF!TornIsRefused
-----------------------------------------------------------------------------
(***************************************************************************)
(* Backups: directories with and without levels, two deep and side by side,   *)
(* an empty file, a file that holds a signature or a link's letters.              *)
(***************************************************************************)
Byte(name, k) == <<"byte", name, k>>
FileOf(path, data) == [path |-> path, dir |-> FALSE, data |-> data, bad |-> FALSE]
DirOf(path) == [path |-> path, dir |-> TRUE, data |-> <<>>, bad |-> FALSE]

SmallTree == <<
  DirOf(<<"e">>), DirOf(<<"d">>), FileOf(<<"f">>, <<<<"link">>, <<"sig">>, Byte("f", 3)>>),
  FileOf(<<"d", "g">>, <<Byte("g", 1), Byte("g", 2)>>) >>
DeepTree == <<
  DirOf(<<"a">>), DirOf(<<"c">>),
  DirOf(<<"a", "b">>), [FileOf(<<"a", "y">>, <<Byte("y", 1)>>) EXCEPT !.bad = TRUE],
  FileOf(<<"a", "b", "x">>, <<>>),
  FileOf(<<"c", "x">>, <<Byte("x", 1), Null>>) >>
Rooted(tree) ==
  <<DirOf(<<"C">>)>> \o [i \in DOMAIN tree |-> [tree[i] EXCEPT !.path = <<"C">> \o @]]
RootedSmall == Rooted(<<DirOf(<<"d">>), FileOf(<<"f">>, <<Byte("f", 1)>>),
                        FileOf(<<"d", "g">>, <<Byte("g", 1), Byte("g", 2)>>)>>)

Plain == [tree |-> SmallTree, extended |-> FALSE, dirLast |-> FALSE, compressed |-> FALSE,
          marked |-> TRUE, sized |-> TRUE, unknown |-> {}, misread |-> "no"]
MCBackups ==
  {[Plain EXCEPT !.tree = t, !.dirLast = l, !.compressed = c, !.marked = m] :
     t \in {SmallTree, DeepTree}, l \in BOOLEAN, c \in BOOLEAN, m \in BOOLEAN}
   \cup {[Plain EXCEPT !.dirLast = TRUE, !.sized = FALSE],
         [Plain EXCEPT !.tree = DeepTree, !.unknown = {<<"a", "y">>}],
         [Plain EXCEPT !.misread = "end"], [Plain EXCEPT !.misread = "size"],
         [Plain EXCEPT !.tree = RootedSmall, !.extended = TRUE, !.dirLast = TRUE],
         [Plain EXCEPT !.tree = RootedSmall, !.extended = TRUE, !.dirLast = TRUE, !.compressed = TRUE],
         [Plain EXCEPT !.tree = RootedSmall, !.extended = TRUE, !.dirLast = TRUE, !.sized = FALSE]}

(***************************************************************************)
(* Tapes: every segment of a whole room, the first one short, or the second   *)
(* mapped out and the third short; any one or two are lost, or do not decode.    *)
(***************************************************************************)
Rooms(n) == {[k \in 1 .. n |-> IF k = at0.bad THEN 0 ELSE IF k = at0.short THEN Seg - 1 ELSE Seg] :
               at0 \in {[bad |-> 0, short |-> 0], [bad |-> 0, short |-> 1], [bad |-> 2, short |-> 3]}}
Lost(n, most, fate) == {[k \in 1 .. n |-> IF k \in gone THEN fate ELSE "read"] :
                         gone \in {g \in SUBSET (1 .. n) : Cardinality(g) <= most}}
TapesOf(n, fates) ==
  {[k \in 1 .. n |-> [room |-> rooms[k], fate |-> IF rooms[k] = 0 THEN "bad" ELSE fate[k]]] :
     rooms \in Rooms(n), fate \in fates}
TapesFor(b) ==
  IF b.compressed THEN TapesOf(4, Lost(4, 2, "missing") \cup Lost(4, 2, "garbled"))
  ELSE TapesOf(6, Lost(6, 2, "uncorrectable"))

All == [volumes |-> {-1}, named |-> FALSE]
WholeTape == CHOOSE t \in TapesOf(6, Lost(6, 0, "read")) : \A k \in 1 .. 6 : t[k].room = Seg
MCCases ==
  UNION {{[backup |-> b, tape |-> t, request |-> All] : t \in TapesFor(b)} : b \in MCBackups}
   \cup {[backup |-> Plain, tape |-> WholeTape, request |-> [volumes |-> v, named |-> n]] :
            v \in {{-1}, {0}, {0, 2}}, n \in BOOLEAN}

\* Holes out of order, overlapping, empty, backwards and past the end.
MCHoleLists == {<<>>, <<<<1, 3>>>>, <<<<2, 4>>, <<1, 3>>>>, <<<<0, 9>>, <<2, 3>>>>,
                <<<<3, 1>>, <<2, 2>>, <<4, 5>>>>}

\* Images with empty slots, slots of zeros, and zeros at their ends.
Some(k) == <<"data", k>>
ZeroCell == <<"zero", 0>>
MCImages == {<<>>, <<<<>>>>, <<<<Some(1), Some(2)>>, <<>>, <<Some(2)>>>>,
             <<<<Some(1)>>, <<ZeroCell, ZeroCell>>>>, <<<<ZeroCell>>, <<Some(1), Some(2)>>>>,
             <<<<Some(1), ZeroCell>>, <<Some(2), Some(1)>>>>}
MCBodies == {<<>>, <<Some(1)>>, <<Some(1), ZeroCell, Some(2)>>}
-----------------------------------------------------------------------------
(***************************************************************************)
(* Tapes to identify: the cartridges and the volume profiles that qiclib     *)
(* holds.                                                                      *)
(***************************************************************************)
Cart(standard, tracks, length, count) ==
  [standard |-> standard, tracks |-> tracks, length |-> length, count |-> count]
MCCatalogue == <<
  Cart("QIC-40", 20, 2050, 68), Cart("QIC-40", 20, 3075, 102), Cart("QIC-40", 20, 11000, 365),
  Cart("QIC-80", 28, 2050, 0), Cart("QIC-80", 28, 3075, 0), Cart("QIC-80", 28, 4250, 0),
  Cart("QIC-80", 28, 10000, 0),
  Cart("QIC-80", 36, 4000, 0), Cart("QIC-80", 36, 7500, 0), Cart("QIC-80", 36, 10000, 0),
  Cart("QIC-3010", 40, 4000, 0), Cart("QIC-3010", 40, 10000, 0),
  Cart("QIC-3010", 50, 4000, 0), Cart("QIC-3010", 50, 7500, 0), Cart("QIC-3010", 50, 10000, 0),
  Cart("QIC-3020", 40, 4000, 0), Cart("QIC-3020", 40, 10000, 0),
  Cart("QIC-3020", 50, 4000, 0), Cart("QIC-3020", 50, 7500, 0)>>
MCFormats ==
  [s \in {"QIC-80", "QIC-3010", "QIC-3020"} |->
     CASE s = "QIC-80" -> [gap |-> 680, segment |-> 23880]
       [] s = "QIC-3010" -> [gap |-> 452, segment |-> 15936]
       [] s = "QIC-3020" -> [gap |-> 226, segment |-> 8131]]
Fields == {"label", "compression", "sequence", "size"}
Profile(name, vendor, mark, layout, fields) ==
  [name |-> name, vendor |-> vendor, mark |-> mark, codes |-> {}, layout |-> layout,
   fields |-> fields]
MCProfiles == <<
  Profile("cms-qic113", TRUE, "113", "rev-n", Fields), Profile("mtn", FALSE, "MTN", "mtn", Fields),
  Profile("qic80-rev-n", FALSE, "none", "rev-n", Fields),
  Profile("vendor-unknown", TRUE, "none", "base", {})>>

\* Records of a writer: its own layout reads as it should, the other's bytes may look like
\* anything; the cartridge of a set is at byte 57 in both.
Record(sig, v, by, revN, mtn) ==
  [sig |-> sig, volume |-> v, vendor |-> by \in {"cms-qic113", "vendor-unknown"},
   mark |-> IF by = "cms-qic113" THEN "113" ELSE IF by = "mtn" THEN "MTN" ELSE "other",
   inRange |-> TRUE, date |-> IF v = 1 THEN "ok" ELSE "none",
   sound |-> [l \in {"rev-n", "mtn", "base"} |->
                IF l = "rev-n" THEN revN ELSE IF l = "mtn" THEN mtn ELSE {}]]
RecordsOf(by, v) ==
  {Record("VTBL", v, by, s[1], s[2]) :
     s \in {s \in (SUBSET Fields) \X (SUBSET Fields) :
              /\ "sequence" \in s[1] <=> "sequence" \in s[2]
              /\ by = "mtn" => s[2] = Fields
              /\ by \in {"cms-qic113", "qic80-rev-n"} => s[1] = Fields}}
Vol(v) == Record("VTBL", v, "qic80-rev-n", Fields, {"sequence"})
Ext(sig) == [Vol(0) EXCEPT !.sig = sig]

\* A defect or none, the header, its duplicate, the table, a file, and where the table
\* continues; a file may begin with a table's letters.
Fates == {<<"clean", TRUE>>, <<"corrected", TRUE>>, <<"corrected", FALSE>>,
          <<"uncorrectable", TRUE>>, <<"uncorrectable", FALSE>>, <<"missing", FALSE>>}
Whole == <<"clean", TRUE>>
Torn == <<"uncorrectable", TRUE>>
Unread == <<"missing", FALSE>>
TapeOf(table, child, volumes, by, base, named, fates, letters) ==
  LET fate(n) == IF n < base THEN <<"bad", FALSE>>
                 ELSE IF n \in DOMAIN fates THEN fates[n] ELSE Whole
  IN [state |-> [n \in 0 .. base + 4 |-> fate(n)[1]], first |-> [n \in 0 .. base + 4 |-> fate(n)[2]],
      headers |-> {base, base + 1},
      records |-> [n \in 0 .. base + 4 |->
                     IF n = base + 2 THEN table ELSE IF n = base + 4 THEN child
                     ELSE IF n = base + 3 /\ letters THEN <<Vol(9), Ext("other")>> ELSE <<>>],
      vol |-> [header_seg |-> base, dup_header_seg |-> base + 1, first_data_seg |-> named,
               format_code |-> 4, tracks |-> 28, segments_per_track |-> 207],
      sources |-> <<>>, forced |-> 0, volumes |-> volumes, by |-> by, cartridge |-> 6]
Chained == <<<<Vol(1), Ext("XTBL"), Vol(2), Ext("EXVT")>>, <<Vol(3)>>, {1, 2, 3}>>
Ended == <<<<Ext("UTID"), Vol(1), Ext("other"), Vol(2), Ext("zero"), Vol(3)>>, <<>>, {1, 2}>>
NoVolume == <<<<Ext("zero")>>, <<>>, {}>>
LostTapes ==
  UNION {{TapeOf(t[1], t[2], t[3], "qic80-rev-n", b[1], IF b[2] THEN b[1] + 2 ELSE 0,
                 [k \in b[1] .. b[1] + 4 |->
                    IF k = b[1] + 3 THEN Whole ELSE f[IF k = b[1] + 4 THEN 4 ELSE k - b[1] + 1]],
                 b[3]) :
            f \in Fates \X {Whole, Torn, Unread} \X Fates
                    \X (IF t = Chained THEN {Whole, Torn, Unread} ELSE {Whole})} :
          t \in {Chained, Ended, NoVolume},
          b \in ({0} \X BOOLEAN \X BOOLEAN) \cup {<<1, TRUE, FALSE>>}}
WholeTapeOf(table, volumes, by) == TapeOf(table, <<>>, volumes, by, 0, 2, <<>>, FALSE)
WrittenTapes ==
  UNION {{WholeTapeOf(<<r>>, {1}, by) : r \in RecordsOf(by, 1)}
           \cup {WholeTapeOf(<<r, q>>, {1, 2}, by) :
                   r \in {r \in RecordsOf(by, 1) : by = "vendor-unknown" => r.sound["mtn"] \subseteq {"sequence"}},
                   q \in {q \in RecordsOf(by, 2) : by = "vendor-unknown" => q.sound["mtn"] \subseteq {"sequence"}}}
         : by \in {"cms-qic113", "mtn", "qic80-rev-n", "vendor-unknown"}}
   \cup {[WholeTapeOf(<<Vol(1)>>, {1}, "qic80-rev-n") EXCEPT !.forced = 2]}

\* Every count of segments about a cartridge's, with what the captures hold of the drive.
CountsOf(k) ==
  IF MCCatalogue[k].count # 0 THEN {MCCatalogue[k].count, MCCatalogue[k].count + 1}
  ELSE LET least == MinSegments(k)
       IN {least} \cup {n \in (least * 4) \div 5 .. (least * 6) \div 5 :
                          IsNear(k, n) # IsNear(k, n + 1) \/ IsNear(k, n) # IsNear(k, n - 1)}
CatalogueTapes ==
  UNION {{[WholeTapeOf(<<Vol(1)>>, {1}, "qic80-rev-n") EXCEPT
             !.cartridge = k, !.sources = told,
             !.vol = [@ EXCEPT !.tracks = MCCatalogue[k].tracks, !.segments_per_track = n,
                               !.format_code = code]] :
            n \in CountsOf(k),
            told \in {<<>>, <<"other">>, <<"untold", "QIC-40">>, <<"silent", MCCatalogue[k].standard>>,
                      <<"QIC-40">>, <<"QIC-80">>},
            code \in IF MCCatalogue[k].standard = "QIC-3020" THEN {4, 6} ELSE {4}} :
          k \in DOMAIN MCCatalogue}
MCSubjects == LostTapes \cup WrittenTapes \cup CatalogueTapes
=============================================================================
