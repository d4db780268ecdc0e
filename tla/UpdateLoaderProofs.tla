------------------------- MODULE UpdateLoaderProofs -------------------------
(***************************************************************************)
(* Theorems about the update of the two programs in flash, for images, flash,  *)
(* pages, buffers and packets of any size.                                   *)
(***************************************************************************)
EXTENDS UpdateLoader, TLAPS

Byte == (Images \cup {None}) \X Nat
Own(im) == {im} \X Nat

Packets ==
  {NoPacket, [op |-> "switch"]} \cup [op : {"update"}, len : Nat]
    \cup [op : {"data"}, bytes : Seq(Byte)]
Processor ==
  [mode : {"off", "boot", "main", "hung", "dead"}, state : {"wait", "update"}, ubuf : Seq(Byte),
   len : Nat, cur : Nat, page : Nat, replying : BOOLEAN, tries : 0..3, rx : Packets,
   tx : {None, "okay", "badCommand", "outOfFlash", "outOfSram", "zero", "one"}]
Updater ==
  [stage : {"idle", "left", "asked", "sending", "sent"}, im : Images \cup {None}, sent : Nat]
History ==
  [cut : BOOLEAN, torn : BOOLEAN, gaveUp : BOOLEAN, late : BOOLEAN, ran : BOOLEAN,
   acked : Images \cup {None}]

Typed ==
  /\ app \in [1..FlashSize -> Byte] /\ boot \in Images \cup {None}
  /\ dev \in Processor /\ host \in Updater /\ seen \in History

Updating == dev.state = "update"
Waiting == IF dev.rx.op = "data" THEN Len(dev.rx.bytes) ELSE 0

\* The host sends no more than the image, and only into an update; the watchdog is
\* what can end one behind its back.
HostKnows ==
  /\ host.stage \in {"asked", "sending", "sent"} => host.im \in Images
  /\ host.stage = "asked" => host.sent = 0
  /\ host.stage = "sending" => host.sent < Size[host.im] /\ (Updating \/ seen.late)
  /\ host.stage = "asked" /\ dev.tx = "okay" => Updating \/ seen.late

\* What has been sent of the image is in flash, in the buffer or on its way, in order:
\* so the last byte of the image is the last one that comes.
UpdateKnown == Updating =>
  /\ dev.mode \in {"boot", "main"}
  /\ host.stage \in {"asked", "sending", "sent"}
  /\ dev.len = Size[host.im] /\ dev.len <= FlashSize
  /\ dev.ubuf \in Seq(Own(host.im))
  /\ dev.tx = None \/ (dev.tx = "okay" /\ host.stage = "asked")
  /\ dev.cur + Len(dev.ubuf) + Waiting = host.sent
  /\ host.sent <= dev.len
  /\ host.stage = "sent" => host.sent = dev.len

\* What is on the line is what the host and the device are both at.
LineKnown ==
  /\ dev.mode \notin {"boot", "main"} => host.stage = "idle" /\ dev.rx = NoPacket /\ dev.tx = None
  /\ dev.rx.op = "update" =>
       host.stage = "asked" /\ dev.rx.len \in Announced(host.im) /\ ~Updating /\ dev.tx = None
  /\ dev.rx.op = "switch" => host.stage = "left" /\ ~Updating
  /\ dev.rx.op = "data" => Updating \/ seen.late
  /\ dev.rx.op = "data" /\ Updating => dev.rx.bytes \in Seq(Own(host.im))
  /\ ~Updating => dev.ubuf = <<>>
  /\ seen.late => dev.mode = "main" /\ ~Updating /\ dev.rx.op \in {None, "data"}
  /\ dev.mode # "boot" => dev.cur = 0
  /\ seen.ran => seen.late

\* Pages are erased before the length is acknowledged, or after a CRC that failed.
EraseKnown ==
  /\ Erasing => dev.mode = "boot" /\ dev.rx = NoPacket /\ dev.len <= FlashSize
  /\ Erasing /\ Updating => host.stage = "asked" /\ dev.tx = None
ReplyKnown == dev.replying = TRUE => Erasing /\ Updating

\* The bootloader is written from an image that is in RAM and verified.
CommitKnown ==
  /\ dev.tries > 0 =>
       /\ dev.mode = "main" /\ Updating /\ dev.rx = NoPacket
       /\ CrcOk(dev.ubuf) /\ host.stage = "sent"
  /\ ~Committing => boot \in Good \/ seen.torn \/ seen.gaveUp

\* The first byte in flash is the announced image's or none, so it is that image that
\* the CRC is right for; and no byte is written while an older image counts as installed.
FlashKnown ==
  /\ dev.mode = "boot" /\ Updating /\ dev.page > 0 =>
       app[1] \in {Blank} \cup Own(host.im) /\ seen.acked = None
  /\ dev.mode = "boot" /\ dev.tx = "zero" =>
       /\ host.stage = "sent" /\ ~Updating /\ ~Erasing /\ Holds(app, host.im)
  /\ seen.acked # None => seen.acked \in Images /\ Holds(app, seen.acked)

\* A flash that is not whole has no stack pointer, or was exposed to a cut.
BlankStart == app[1] = Blank /\ app[2] = Blank
StartKnown ==
  /\ Whole(app) \/ BlankStart \/ seen.cut \/ Exposed
  /\ dev.mode = "boot" /\ dev.page > 0 /\ (Erasing \/ (Updating /\ dev.cur = 0)) => BlankStart
  /\ dev.mode = "hung" => seen.cut

Inv ==
  /\ Typed /\ HostKnows /\ UpdateKnown /\ LineKnown /\ EraseKnown
  /\ ReplyKnown /\ CommitKnown /\ FlashKnown /\ StartKnown

-----------------------------------------------------------------------------
(* The parts of the state, and sequences of bytes. *)

LEMMA Fields ==
  ASSUME Typed
  PROVE  /\ dev.mode \in {"off", "boot", "main", "hung", "dead"}
         /\ dev.state \in {"wait", "update"} /\ dev.ubuf \in Seq(Byte)
         /\ dev.len \in Nat /\ dev.cur \in Nat /\ dev.page \in Nat
         /\ dev.replying \in BOOLEAN /\ dev.tries \in 0..3 /\ dev.rx \in Packets
         /\ dev.tx \in {None, "okay", "badCommand", "outOfFlash", "outOfSram", "zero", "one"}
         /\ host.stage \in {"idle", "left", "asked", "sending", "sent"}
         /\ host.im \in Images \cup {None} /\ host.sent \in Nat
BY DEF Typed, Processor, Updater

LEMMA PacketKinds ==
  ASSUME NEW p \in Packets
  PROVE  /\ p.op \in {None, "switch", "update", "data"}
         /\ p = NoPacket <=> p.op = None
         /\ p.op = "update" => p.len \in Nat
         /\ p.op = "data" => p.bytes \in Seq(Byte)
BY DEF Packets, NoPacket, None

LEMMA NoPacketIs ==
  NoPacket \in Packets /\ NoPacket.op = None /\ <<>> \in Seq(Byte)
BY DEF Packets, NoPacket

LEMMA Numbers ==
  /\ FlashSize \in Nat /\ PageSize \in Nat /\ 2 <= PageSize /\ PageSize <= FlashSize
  /\ BL_SIZE \in Nat /\ BL_SIZE <= FlashSize /\ U_BUF_SZ \in Nat
  /\ MaxPacket \in Nat /\ MaxPacket > 0
  /\ \A im \in Images : Size[im] \in Nat
  /\ \A im \in Good : im \in Images /\ Size[im] > 0
  /\ None \notin Images
BY SizeAssumption DEF None

LEMMA BytesAre ==
  ASSUME NEW im \in Images
  PROVE  /\ Bytes(im) \in Seq(Byte) /\ Bytes(im) \in Seq(Own(im))
         /\ Len(Bytes(im)) = Size[im]
         /\ \A i \in 1..Size[im] : Bytes(im)[i] = <<im, i>>
<1>1. Size[im] \in Nat
  BY Numbers
<1>2. \A i \in 1..Size[im] : <<im, i>> \in Byte /\ <<im, i>> \in Own(im)
  BY <1>1 DEF Byte, Own
<1> QED BY <1>1, <1>2 DEF Bytes

LEMMA FlashBytes ==
  ASSUME NEW flash \in [1..FlashSize -> Byte]
  PROVE  /\ flash \in Seq(Byte) /\ Len(flash) = FlashSize
         /\ \A len \in 0..FlashSize :
              /\ Len(SubSeq(flash, 1, len)) = len
              /\ \A i \in 1..len : SubSeq(flash, 1, len)[i] = flash[i]
<1>1. flash \in Seq(Byte) /\ Len(flash) = FlashSize
  BY Numbers
<1> QED BY <1>1, Numbers

LEMMA Verdict ==
  ASSUME NEW flash \in [1..FlashSize -> Byte], NEW len \in Nat, len <= FlashSize,
         CrcOk(SubSeq(flash, 1, len))
  PROVE  \E im \in Good : len = Size[im] /\ len > 0 /\ Holds(flash, im) /\ flash[1] = <<im, 1>>
<1>1. PICK im \in Good : SubSeq(flash, 1, len) = Bytes(im)
  BY DEF CrcOk
<1>2. im \in Images /\ Size[im] > 0 /\ Size[im] \in Nat
  BY Numbers
<1>3. len \in 0..FlashSize
  BY Numbers
<1>4. len = Size[im]
  BY <1>1, <1>2, <1>3, BytesAre, FlashBytes
<1>5. flash[1] = <<im, 1>>
  <2>1. 1 \in 1..len
    BY <1>2, <1>4
  <2>2. SubSeq(flash, 1, len)[1] = flash[1] /\ Bytes(im)[1] = <<im, 1>>
    BY <1>2, <1>3, <1>4, <2>1, BytesAre, FlashBytes
  <2> QED BY <2>2, <1>1
<1> QED BY <1>1, <1>2, <1>4, <1>5 DEF Holds

LEMMA WrittenIs ==
  ASSUME NEW flash \in [1..FlashSize -> Byte], NEW at \in Nat, NEW bytes \in Seq(Byte)
  PROVE  /\ Written(flash, at, bytes) \in [1..FlashSize -> Byte]
         /\ bytes = <<>> => Written(flash, at, bytes) = flash
         /\ at > 0 => Written(flash, at, bytes)[1] = flash[1]
         /\ at = 0 /\ Len(bytes) > 0 => Written(flash, at, bytes)[1] = bytes[1]
<1> DEFINE new == Written(flash, at, bytes)
<1>1. /\ new = [i \in 1..FlashSize |-> IF i > at /\ i <= at + Len(bytes) THEN bytes[i - at] ELSE flash[i]]
      /\ Len(bytes) \in Nat
  BY DEF Written
<1> HIDE DEF new
<1>2. \A i \in 1..FlashSize : i > at /\ i <= at + Len(bytes) => bytes[i - at] \in Byte
  BY <1>1
<1>3. new \in [1..FlashSize -> Byte]
  BY <1>1, <1>2
<1>4. 1 \in 1..FlashSize
  BY Numbers
<1>5. bytes = <<>> => new = flash
  <2> SUFFICES ASSUME bytes = <<>> PROVE new = flash
    OBVIOUS
  <2>1. Len(bytes) = 0
    OBVIOUS
  <2>2. \A i \in 1..FlashSize : new[i] = flash[i]
    BY <1>1, <2>1
  <2>3. new = [i \in 1..FlashSize |-> new[i]] /\ flash = [i \in 1..FlashSize |-> flash[i]]
    BY <1>3
  <2> QED BY <2>2, <2>3, Zenon
<1>6. at > 0 => new[1] = flash[1]
  BY <1>1, <1>4
<1>7. at = 0 /\ Len(bytes) > 0 => new[1] = bytes[1]
  BY <1>1, <1>4
<1> QED BY <1>3, <1>5, <1>6, <1>7 DEF new

LEMMA Blanks ==
  ASSUME NEW n \in Nat, NEW byte \in Byte
  PROVE  [i \in 1..n |-> byte] \in Seq(Byte) /\ Len([i \in 1..n |-> byte]) = n
<1> DEFINE s == [i \in 1..n |-> byte]
<1>1. s \in [1..n -> Byte]
  OBVIOUS
<1> HIDE DEF s
<1>2. s \in Seq(Byte) /\ Len(s) = n
  BY <1>1
<1> QED BY <1>2, Zenon DEF s

LEMMA Initially == Init => Inv
<1> SUFFICES ASSUME Init PROVE Inv
  OBVIOUS
<1>1. PICK im \in Good :
        /\ Size[im] <= FlashSize
        /\ app = Bytes(im) \o [i \in 1..(FlashSize - Size[im]) |-> Blank]
  BY DEF Init
<1> DEFINE rest == [i \in 1..(FlashSize - Size[im]) |-> Blank]
<1>2. /\ im \in Images /\ Size[im] \in Nat /\ FlashSize \in Nat
      /\ Blank \in Byte
  BY Numbers DEF Blank, Byte
<1>3. rest \in Seq(Byte) /\ Len(rest) = FlashSize - Size[im]
  <2>1. FlashSize - Size[im] \in Nat
    BY <1>1, <1>2
  <2> QED BY <2>1, <1>2, Blanks
<1>4. Bytes(im) \in Seq(Byte) /\ Len(Bytes(im)) = Size[im]
  BY <1>2, BytesAre
<1>5. app \in [1..FlashSize -> Byte] /\ SubSeq(app, 1, Size[im]) = Bytes(im)
  <2> HIDE DEF rest
  <2> DEFINE old == Bytes(im)
  <2>1. app = old \o rest
    BY <1>1 DEF rest
  <2> HIDE DEF old
  <2>2. old \in Seq(Byte) /\ Len(old) = Size[im]
    BY <1>4 DEF old
  <2>3. app \in Seq(Byte) /\ Len(app) = FlashSize
    <3>1. rest \in Seq(Byte) /\ Len(rest) = FlashSize - Size[im]
      BY <1>3
    <3>2. Len(app) = Len(old) + Len(rest)
      BY <2>1, <2>2, <3>1
    <3>3. app \in Seq(Byte)
      BY <2>1, <2>2, <3>1
    <3> QED BY <2>2, <3>1, <3>2, <3>3, <1>1, <1>2
  <2>4. app \in [1..FlashSize -> Byte]
    BY <2>3
  <2>5. SubSeq(app, 1, Size[im]) = old
    BY <2>1, <2>2, <1>2, <1>3
  <2> QED BY <2>4, <2>5 DEF old
<1>6. Whole(app)
  BY <1>5 DEF Whole, Holds
<1>7. dev = [Off EXCEPT !.mode = "main"] /\ host = Idle /\ boot \in Good
  BY DEF Init
<1>8. /\ dev.mode = "main" /\ dev.state = "wait" /\ dev.ubuf = <<>> /\ dev.len = 0
      /\ dev.cur = 0 /\ dev.page = 0 /\ dev.replying = FALSE /\ dev.tries = 0
      /\ dev.rx = NoPacket /\ dev.tx = None /\ dev.rx.op = None
      /\ host.stage = "idle"
  BY <1>7 DEF Off, Idle, NoPacket
<1>9. Typed
  <2>1. dev \in Processor
    <3>1. dev = [mode |-> "main", state |-> "wait", ubuf |-> <<>>, len |-> 0, cur |-> 0, page |-> 0,
                 replying |-> FALSE, tries |-> 0, rx |-> NoPacket, tx |-> None]
      BY <1>7 DEF Off
    <3>2. <<>> \in Seq(Byte) /\ 0 \in Nat /\ 0 \in 0..3 /\ NoPacket \in Packets /\ FALSE \in BOOLEAN
      BY DEF Packets
    <3> QED BY <3>1, <3>2, Zenon DEF Processor
  <2>2. host \in Updater /\ seen \in History
    BY <1>7 DEF Init, Idle, Updater, History
  <2> QED BY <2>1, <2>2, <1>5, <1>7, Numbers DEF Typed
<1>10. seen.late = FALSE /\ seen.ran = FALSE /\ seen.acked = None
  BY DEF Init
<1>11. HostKnows /\ UpdateKnown /\ LineKnown /\ EraseKnown /\ CommitKnown
  BY <1>7, <1>8, <1>10
     DEF HostKnows, UpdateKnown, LineKnown, EraseKnown, CommitKnown, Updating, Erasing, None
<1>13. ReplyKnown
  BY <1>8, Zenon DEF ReplyKnown
<1>12. FlashKnown /\ StartKnown
  BY <1>6, <1>8, <1>10 DEF FlashKnown, StartKnown, Updating, Erasing, None
<1> QED BY <1>9, <1>11, <1>12, <1>13 DEF Inv

-----------------------------------------------------------------------------
(* Commands. *)

LEMMA SameFlash ==
  ASSUME app' = app
  PROVE  /\ \A im \in Images \cup {None} : Holds(app, im) => Holds(app', im)
         /\ Whole(app) => Whole(app')
         /\ BlankStart => BlankStart'
BY DEF BlankStart

LEMMA UpdateKeeps ==
  ASSUME Inv, Update
  PROVE  Inv'
<1> USE DEF Inv
<1>1. /\ dev.mode \in {"boot", "main"} /\ ~Erasing /\ dev.tries = 0 /\ dev.state = "wait"
      /\ dev.tx = None /\ dev.rx.op = "update" /\ dev.rx.len \in Nat
      /\ dev.rx.len \in Announced(host.im) /\ host.stage = "asked" /\ seen.late = FALSE
      /\ host.im \in Images /\ host.sent = 0 /\ dev.ubuf = <<>> /\ seen.ran = FALSE
      /\ dev.replying # TRUE
  <2>1. dev.rx.op = "update" /\ Running /\ dev.state = "wait" /\ dev.tx = None
    BY DEF Update
  <2>2. dev.mode \in {"boot", "main"} /\ ~Erasing /\ dev.tries = 0 /\ dev.rx.len \in Nat
    BY <2>1, Fields, PacketKinds DEF Running, Committing, CommitKnown
  <2>3. /\ dev.rx.len \in Announced(host.im) /\ host.stage = "asked" /\ dev.ubuf = <<>>
        /\ host.im \in Images /\ host.sent = 0
    BY <2>1 DEF LineKnown, HostKnows, Updating
  <2>4. seen.late = FALSE /\ seen.ran = FALSE
    BY <2>1 DEF LineKnown, Typed, History, None
  <2>5. dev.replying # TRUE
    BY <2>1, <2>2 DEF ReplyKnown, Updating
  <2> QED BY <2>1, <2>2, <2>3, <2>4, <2>5
<1>2. UNCHANGED <<app, boot, host, seen>>
  BY DEF Update
<1>0. dev \in Processor
  BY DEF Typed
<1>3. ASSUME NEW tx \in {"badCommand", "outOfFlash", "outOfSram"},
             dev' = [dev EXCEPT !.rx = NoPacket, !.tx = tx]
      PROVE  Inv'
  <2>0. /\ dev' \in Processor
        /\ dev'.mode = dev.mode /\ dev'.state = dev.state /\ dev'.ubuf = dev.ubuf /\ dev'.len = dev.len
        /\ dev'.cur = dev.cur /\ dev'.page = dev.page /\ dev'.replying = dev.replying
        /\ dev'.tries = dev.tries /\ dev'.rx = NoPacket /\ dev'.tx = tx
    BY <1>0, <1>3, NoPacketIs DEF Processor
  <2>1. Typed'
    BY <1>2, <2>0 DEF Typed
  <2>2. dev'.state = "wait" /\ dev'.ubuf = <<>> /\ dev'.tries = 0 /\ dev'.rx.op = None
    BY <1>1, <2>0, NoPacketIs
  <2>3. HostKnows' /\ UpdateKnown' /\ LineKnown' /\ EraseKnown' /\ ReplyKnown' /\ CommitKnown'
    BY <1>1, <1>2, <2>0, <2>2
       DEF HostKnows, UpdateKnown, LineKnown, EraseKnown, ReplyKnown, CommitKnown, Updating, Erasing, Committing, None, Announced
  <2>4. FlashKnown' /\ StartKnown'
    BY <1>1, <1>2, <2>0, <2>2, SameFlash DEF FlashKnown, StartKnown, Updating, Erasing, Exposed
  <2> QED BY <2>1, <2>3, <2>4
<1>4. CASE dev.mode = "boot" /\ dev' = LoaderPrep(dev.rx.len)
  <2> DEFINE len == dev.rx.len
  <2>1. CASE len % 2 # 0 \/ len > FlashSize
    <3>1. \E tx \in {"badCommand", "outOfFlash", "outOfSram"} : dev' = [dev EXCEPT !.rx = NoPacket, !.tx = tx]
      BY <1>4, <2>1 DEF LoaderPrep
    <3> QED BY <3>1, <1>3
  <2>2. CASE len % 2 = 0 /\ len <= FlashSize
    <3>1. dev' = [dev EXCEPT !.rx = NoPacket, !.state = "update", !.cur = 0, !.len = len, !.page = 0,
                             !.replying = len > 0, !.tx = IF len > 0 THEN None ELSE "okay"]
      BY <1>1, <1>4, <2>2, Numbers DEF LoaderPrep
    <3>2. len = Size[host.im]
      BY <1>1, <2>2, Numbers DEF Announced
    <3> DEFINE r == len > 0
    <3> DEFINE x == IF len > 0 THEN None ELSE "okay"
    <3>10. r \in BOOLEAN /\ x \in {None, "okay"}
      OBVIOUS
    <3>11. dev' = [dev EXCEPT !.rx = NoPacket, !.state = "update", !.cur = 0, !.len = len, !.page = 0,
                              !.replying = r, !.tx = x]
      BY <3>1
    <3> HIDE DEF r, x
    <3>12. /\ dev' \in Processor
           /\ dev'.mode = dev.mode /\ dev'.state = "update" /\ dev'.ubuf = dev.ubuf /\ dev'.len = len
           /\ dev'.cur = 0 /\ dev'.page = 0
           /\ dev'.tries = dev.tries /\ dev'.rx = NoPacket /\ dev'.tx = x
      BY <1>0, <1>1, <3>10, <3>11, NoPacketIs DEF Processor
    <3>13. dev'.replying = r
      BY <1>0, <3>11 DEF Processor
    <3>0. /\ dev' \in Processor
          /\ dev'.mode = dev.mode /\ dev'.state = "update" /\ dev'.ubuf = dev.ubuf /\ dev'.len = len
          /\ dev'.cur = 0 /\ dev'.page = 0
          /\ dev'.tries = dev.tries /\ dev'.rx = NoPacket /\ dev'.tx = IF len > 0 THEN None ELSE "okay"
      BY <3>12 DEF x
    <3>9. dev'.replying = TRUE => len > 0
      BY <3>13 DEF r
    <3>8. ReplyKnown'
      BY <1>1, <3>0, <3>9 DEF ReplyKnown, Updating, Erasing
    <3>3. Typed'
      BY <1>2, <3>0 DEF Typed
    <3>4. dev'.mode = "boot" /\ dev'.ubuf = <<>> /\ dev'.tries = 0 /\ dev'.rx.op = None
      BY <1>1, <1>4, <3>0, NoPacketIs
    <3>5. HostKnows' /\ LineKnown' /\ EraseKnown' /\ CommitKnown'
      BY <1>1, <1>2, <1>4, <2>2, <3>2, <3>0, <3>4
         DEF HostKnows, LineKnown, EraseKnown, CommitKnown, Updating, Erasing, Committing, None
    <3>6. UpdateKnown'
      BY <1>1, <1>2, <2>2, <3>2, <3>0, <3>4 DEF UpdateKnown, Updating, Waiting, None
    <3>7. FlashKnown' /\ StartKnown'
      <4>1. Whole(app) \/ BlankStart \/ seen.cut
        BY <1>1 DEF StartKnown, Exposed
      <4> QED BY <1>1, <1>2, <3>0, <3>4, <4>1, SameFlash DEF FlashKnown, StartKnown, Updating, Erasing, None
    <3> QED BY <3>3, <3>5, <3>6, <3>7, <3>8
  <2> QED BY <2>1, <2>2, <1>1, Numbers
<1>5. CASE dev.mode = "main" /\ dev' = MainPrep(dev.rx.len)
  <2> DEFINE len == dev.rx.len
  <2>1. CASE len % 2 # 0 \/ len > BL_SIZE \/ len > U_BUF_SZ
    <3>1. \E tx \in {"badCommand", "outOfFlash", "outOfSram"} : dev' = [dev EXCEPT !.rx = NoPacket, !.tx = tx]
      BY <1>5, <2>1 DEF MainPrep
    <3> QED BY <3>1, <1>3
  <2>2. CASE len % 2 = 0 /\ len <= BL_SIZE /\ len <= U_BUF_SZ
    <3>1. dev' = [dev EXCEPT !.rx = NoPacket, !.state = "update", !.len = len, !.page = len, !.tx = "okay"]
      BY <1>1, <1>5, <2>2, Numbers DEF MainPrep
    <3>2. len = Size[host.im]
      BY <1>1, <2>2, Numbers DEF Announced
    <3>0. /\ dev' \in Processor
          /\ dev'.mode = dev.mode /\ dev'.state = "update" /\ dev'.ubuf = dev.ubuf /\ dev'.len = len
          /\ dev'.cur = dev.cur /\ dev'.page = len /\ dev'.replying = dev.replying
          /\ dev'.tries = dev.tries /\ dev'.rx = NoPacket /\ dev'.tx = "okay"
      BY <1>0, <1>1, <3>1, NoPacketIs DEF Processor
    <3>3. Typed'
      BY <1>2, <3>0 DEF Typed
    <3>4. dev'.mode = "main" /\ dev'.ubuf = <<>> /\ dev'.tries = 0 /\ dev'.rx.op = None
      BY <1>1, <1>5, <3>0, NoPacketIs
    <3>5. dev.cur = 0
      BY <1>5 DEF LineKnown
    <3>6. HostKnows' /\ LineKnown' /\ EraseKnown' /\ ReplyKnown' /\ CommitKnown'
      BY <1>1, <1>2, <1>5, <2>2, <3>2, <3>0, <3>4, <3>5
         DEF HostKnows, LineKnown, EraseKnown, ReplyKnown, CommitKnown, Updating, Erasing, Committing, None
    <3>7. UpdateKnown'
      BY <1>1, <1>2, <2>2, <3>2, <3>0, <3>4, <3>5, Numbers DEF UpdateKnown, Updating, Waiting, None
    <3>8. FlashKnown' /\ StartKnown'
      <4>1. Whole(app) \/ BlankStart \/ seen.cut
        BY <1>1 DEF StartKnown, Exposed
      <4> QED BY <1>1, <1>2, <3>0, <3>4, <4>1, SameFlash DEF FlashKnown, StartKnown, Updating, Erasing, None
    <3> QED BY <3>3, <3>6, <3>7, <3>8
  <2> QED BY <2>1, <2>2, <1>1, Numbers
<1> QED BY <1>1, <1>4, <1>5 DEF Update

-----------------------------------------------------------------------------
(* Power, restarts and the watchdog. *)

\* The processor out of reset.
Fresh(d, mode) ==
  /\ d \in Processor
  /\ d.mode = mode /\ d.state = "wait" /\ d.ubuf = <<>> /\ d.len = 0 /\ d.cur = 0
  /\ d.page = 0 /\ d.tries = 0 /\ d.rx = NoPacket /\ d.tx = None
  /\ d.replying # TRUE

LEMMA OffIsFresh ==
  /\ Fresh(Off, "off")
  /\ \A mode \in {"off", "boot", "main", "hung", "dead"} : Fresh([Off EXCEPT !.mode = mode], mode)
<1>1. Off \in Processor
  BY NoPacketIs DEF Processor, Off
<1>2. /\ Off.mode = "off" /\ Off.state = "wait" /\ Off.ubuf = <<>> /\ Off.len = 0 /\ Off.cur = 0
      /\ Off.page = 0 /\ Off.tries = 0 /\ Off.rx = NoPacket /\ Off.tx = None
  BY DEF Off
<1>3. Off.replying # TRUE
  BY DEF Off
<1>4. ASSUME NEW mode \in {"off", "boot", "main", "hung", "dead"}
      PROVE  Fresh([Off EXCEPT !.mode = mode], mode)
  <2> DEFINE d == [Off EXCEPT !.mode = mode]
  <2>1. /\ d \in Processor
        /\ d.mode = mode /\ d.state = "wait" /\ d.ubuf = <<>> /\ d.len = 0 /\ d.cur = 0
        /\ d.page = 0 /\ d.tries = 0 /\ d.rx = NoPacket /\ d.tx = None
    BY <1>1, <1>2 DEF Processor
  <2>2. d.replying # TRUE
    BY <1>1, <1>3 DEF Processor
  <2> HIDE DEF d
  <2> QED BY <2>1, <2>2, Zenon DEF Fresh, d
<1> QED BY <1>1, <1>2, <1>3, <1>4, Zenon DEF Fresh

LEMMA RestartKeeps ==
  ASSUME Inv, NEW mode \in {"off", "boot", "main", "hung", "dead"},
         Fresh(dev', mode), host' \in Updater, host'.stage = "idle", UNCHANGED <<app, boot>>,
         seen' \in History, seen'.acked = seen.acked,
         seen'.late = FALSE, seen'.ran = FALSE,
         Whole(app) \/ BlankStart \/ seen'.cut, mode = "hung" => seen'.cut,
         boot \in Good \/ seen'.torn \/ seen'.gaveUp
  PROVE  Inv'
<1>1. /\ dev' \in Processor
      /\ dev'.mode = mode /\ dev'.state = "wait" /\ dev'.ubuf = <<>> /\ dev'.len = 0 /\ dev'.cur = 0
      /\ dev'.page = 0 /\ dev'.tries = 0 /\ dev'.rx = NoPacket /\ dev'.tx = None
      /\ dev'.replying # TRUE
  BY Zenon DEF Fresh
<1>0. dev'.rx.op = None
  BY <1>1, NoPacketIs
<1>2. host' \in Updater /\ host'.stage = "idle"
  OBVIOUS
<1>3. Typed'
  BY <1>1, <1>2 DEF Inv, Typed
<1>4. HostKnows' /\ UpdateKnown' /\ LineKnown' /\ EraseKnown' /\ CommitKnown'
  BY <1>0, <1>1, <1>2
     DEF HostKnows, UpdateKnown, LineKnown, EraseKnown, CommitKnown, Updating, Erasing, None
<1>6. ReplyKnown'
  BY <1>1, Zenon DEF ReplyKnown
<1>5. FlashKnown' /\ StartKnown'
  BY <1>1, <1>2, SameFlash DEF Inv, FlashKnown, StartKnown, Updating, Erasing, None
<1> QED BY <1>3, <1>4, <1>5, <1>6 DEF Inv

LEMMA StartedIs ==
  ASSUME NEW requested \in BOOLEAN, NEW strapped \in BOOLEAN
  PROVE  /\ Started(requested, strapped) \in {"boot", "main", "hung", "dead"}
         /\ Started(requested, strapped) = "hung" => ~BlankStart /\ ~Whole(app)
BY DEF Started, BlankStart

LEMMA IdleIs == Idle \in Updater /\ Idle.stage = "idle"
BY DEF Idle, Updater

LEMMA SwitchKeeps ==
  ASSUME Inv, Switch
  PROVE  Inv'
<1>1. /\ dev.rx.op = "switch" /\ dev.state = "wait" /\ ~Erasing /\ ~Committing
      /\ dev.mode \in {"boot", "main"}
      /\ host' = Idle /\ UNCHANGED <<app, boot, seen>>
      /\ dev' = [Off EXCEPT !.mode = Started(dev.mode = "main", FALSE)]
  BY DEF Switch, Running, Restart
<1>2. seen.late = FALSE /\ seen.ran = FALSE /\ seen \in History
  BY <1>1 DEF Inv, LineKnown, Typed, History, None
<1>3. Whole(app) \/ BlankStart \/ seen.cut
  BY <1>1 DEF Inv, StartKnown, Exposed
<1>4. boot \in Good \/ seen.torn \/ seen.gaveUp
  BY <1>1 DEF Inv, CommitKnown
<1> QED BY <1>1, <1>2, <1>3, <1>4, IdleIs, StartedIs, OffIsFresh, RestartKeeps

LEMMA PowerOnKeeps ==
  ASSUME Inv, PowerOn
  PROVE  Inv'
<1>1. /\ dev.mode = "off" /\ UNCHANGED <<app, boot, host, seen>>
  BY DEF PowerOn
<1>2. PICK strapped \in BOOLEAN : dev' = [Off EXCEPT !.mode = Started(FALSE, strapped)]
  BY DEF PowerOn, Restart
<1>3. seen.late = FALSE /\ seen.ran = FALSE /\ seen \in History
  BY <1>1 DEF Inv, LineKnown, Typed, History
<1>4. Whole(app) \/ BlankStart \/ seen.cut
  BY <1>1 DEF Inv, StartKnown, Exposed
<1>5. boot \in Good \/ seen.torn \/ seen.gaveUp
  BY <1>1 DEF Inv, CommitKnown, Committing
<1>6. host' \in Updater /\ host'.stage = "idle"
  BY <1>1 DEF Inv, LineKnown, Typed
<1> QED BY <1>1, <1>2, <1>3, <1>4, <1>5, <1>6, StartedIs, OffIsFresh, RestartKeeps

LEMMA PowerLossKeeps ==
  ASSUME Inv, PowerLoss
  PROVE  Inv'
<1>1. /\ dev' = Off /\ host' = Idle /\ UNCHANGED <<app, boot>>
      /\ seen' = [seen EXCEPT !.cut = @ \/ Exposed, !.torn = @ \/ Committing, !.late = FALSE, !.ran = FALSE]
  BY DEF PowerLoss
<1>2. seen \in History
  BY DEF Inv, Typed
<1>3. Exposed \in BOOLEAN /\ Committing \in BOOLEAN
  BY DEF Exposed, Committing
<1>4. /\ seen' \in History /\ seen'.cut = (seen.cut \/ Exposed) /\ seen'.torn = (seen.torn \/ Committing)
      /\ seen'.late = FALSE /\ seen'.ran = FALSE /\ seen'.acked = seen.acked /\ seen'.gaveUp = seen.gaveUp
  BY <1>1, <1>2, <1>3 DEF History
<1>5. Whole(app) \/ BlankStart \/ seen'.cut
  BY <1>4 DEF Inv, StartKnown
<1>6. boot \in Good \/ seen'.torn \/ seen'.gaveUp
  BY <1>4 DEF Inv, CommitKnown
<1>7. Fresh(dev', "off")
  BY <1>1, OffIsFresh
<1> QED BY <1>1, <1>4, <1>5, <1>6, <1>7, IdleIs, RestartKeeps

LEMMA RunningIs ==
  ASSUME Inv, Running
  PROVE  /\ dev.mode \in {"boot", "main"} /\ ~Erasing /\ dev.tries = 0
         /\ dev.replying # TRUE
         /\ boot \in Good \/ seen.torn \/ seen.gaveUp
<1>1. dev.mode \in {"boot", "main"} /\ ~Erasing /\ dev.tries = 0
  BY Fields DEF Inv, Running, Committing, CommitKnown
<1>3. boot \in Good \/ seen.torn \/ seen.gaveUp
  BY <1>1 DEF Inv, CommitKnown, Committing
<1>2. dev.replying # TRUE
  BY <1>1 DEF Inv, ReplyKnown
<1> QED BY <1>1, <1>2, <1>3

LEMMA StillKnown ==
  ASSUME Inv, dev'.replying = dev.replying, Running
  PROVE  ReplyKnown'
BY RunningIs, Zenon DEF ReplyKnown

LEMMA MisreadKeeps ==
  ASSUME Inv, Misread
  PROVE  Inv'
<1>1. /\ dev.state = "wait" /\ dev.rx.op = "data" /\ Running
      /\ seen' = [seen EXCEPT !.ran = TRUE] /\ UNCHANGED <<app, boot, host>>
  BY DEF Misread
<1>2. PICK answer \in {"zero", "one"} : dev' = [dev EXCEPT !.rx = NoPacket, !.tx = answer]
  BY DEF Misread
<1>3. /\ dev' \in Processor
      /\ dev'.mode = dev.mode /\ dev'.state = dev.state /\ dev'.ubuf = dev.ubuf /\ dev'.len = dev.len
      /\ dev'.cur = dev.cur /\ dev'.page = dev.page
      /\ dev'.tries = dev.tries /\ dev'.rx = NoPacket /\ dev'.tx = answer
  BY <1>2, NoPacketIs DEF Inv, Typed, Processor
<1>4. dev'.replying = dev.replying
  BY <1>2 DEF Inv, Typed, Processor
<1>5. seen' \in History /\ seen'.acked = seen.acked
  BY <1>1 DEF Inv, Typed, History
<1>6. (seen'.cut <=> seen.cut) /\ (seen'.torn <=> seen.torn) /\ (seen'.gaveUp <=> seen.gaveUp)
      /\ (seen'.late <=> seen.late)
  BY <1>1 DEF Inv, Typed, History
<1>7. seen.late /\ dev.mode = "main" /\ ~Updating
  BY <1>1 DEF Inv, LineKnown, Updating
<1>8. dev'.rx.op = None
  BY <1>3, NoPacketIs
<1>9. Typed'
  BY <1>1, <1>3, <1>5 DEF Inv, Typed
<1>10. ReplyKnown'
  BY <1>1, <1>4, StillKnown
<1>11. HostKnows' /\ UpdateKnown' /\ LineKnown' /\ EraseKnown' /\ CommitKnown'
  BY <1>1, <1>3, <1>6, <1>7, <1>8, RunningIs
     DEF Inv, HostKnows, UpdateKnown, LineKnown, EraseKnown, CommitKnown, Updating, Erasing, Committing, None
<1>12. FlashKnown' /\ StartKnown'
  BY <1>1, <1>3, <1>5, <1>6, <1>7, SameFlash
     DEF Inv, FlashKnown, StartKnown, Updating, Erasing, Exposed, BlankStart
<1> QED BY <1>9, <1>10, <1>11, <1>12 DEF Inv

LEMMA WatchdogKeeps ==
  ASSUME Inv, Watchdog
  PROVE  Inv'
<1>1. /\ dev.mode = "main" /\ Running /\ Updating /\ UNCHANGED <<app, boot, host>>
      /\ dev' = [dev EXCEPT !.state = "wait", !.ubuf = <<>>]
      /\ seen' = [seen EXCEPT !.late = TRUE]
  BY DEF Watchdog, Updating
<1>2. /\ dev' \in Processor
      /\ dev'.mode = dev.mode /\ dev'.state = "wait" /\ dev'.ubuf = <<>> /\ dev'.len = dev.len
      /\ dev'.cur = dev.cur /\ dev'.page = dev.page
      /\ dev'.tries = dev.tries /\ dev'.rx = dev.rx /\ dev'.tx = dev.tx
  BY <1>1, NoPacketIs DEF Inv, Typed, Processor
<1>3. dev'.replying = dev.replying
  BY <1>1 DEF Inv, Typed, Processor
<1>4. seen' \in History /\ seen'.acked = seen.acked
  BY <1>1 DEF Inv, Typed, History
<1>5. (seen'.cut <=> seen.cut) /\ (seen'.torn <=> seen.torn) /\ (seen'.gaveUp <=> seen.gaveUp)
      /\ seen'.late
  BY <1>1 DEF Inv, Typed, History
<1>6. dev.rx.op \in {None, "data"}
  BY <1>1, Fields, PacketKinds DEF Inv, LineKnown
<1>7. Typed'
  BY <1>1, <1>2, <1>4 DEF Inv, Typed
<1>8. ReplyKnown'
  BY <1>1, <1>3, StillKnown
<1>9. HostKnows' /\ UpdateKnown'
  BY <1>1, <1>2, <1>5, <1>6 DEF Inv, HostKnows, UpdateKnown, Updating
<1>11. LineKnown'
  BY <1>1, <1>2, <1>5, <1>6, RunningIs DEF Inv, LineKnown, Updating, None
<1>12. EraseKnown'
  BY <1>1, <1>2, RunningIs DEF EraseKnown, Erasing
<1>13. CommitKnown'
  BY <1>1, <1>2, <1>5, RunningIs DEF CommitKnown
<1>10. FlashKnown' /\ StartKnown'
  BY <1>1, <1>2, <1>4, <1>5, SameFlash
     DEF Inv, FlashKnown, StartKnown, Updating, Erasing, Exposed, BlankStart
<1> QED BY <1>7, <1>8, <1>9, <1>10, <1>11, <1>12, <1>13 DEF Inv

LEMMA GiveUpKeeps ==
  ASSUME Inv, GiveUp
  PROVE  Inv'
<1>1. /\ Running /\ host' = Idle /\ UNCHANGED <<app, boot>>
      /\ dev' = [dev EXCEPT !.state = "wait", !.ubuf = <<>>, !.rx = NoPacket, !.tx = None]
      /\ seen' = [seen EXCEPT !.cut = @ \/ Exposed]
  BY DEF GiveUp, Configured
<1>2. /\ dev' \in Processor
      /\ dev'.mode = dev.mode /\ dev'.state = "wait" /\ dev'.ubuf = <<>> /\ dev'.len = dev.len
      /\ dev'.cur = dev.cur /\ dev'.page = dev.page
      /\ dev'.tries = dev.tries /\ dev'.rx = NoPacket /\ dev'.tx = None
  BY <1>1, NoPacketIs DEF Inv, Typed, Processor
<1>3. dev'.replying = dev.replying
  BY <1>1 DEF Inv, Typed, Processor
<1>4. seen' \in History /\ seen'.acked = seen.acked
  <2>1. (seen.cut \/ Exposed) \in BOOLEAN
    OBVIOUS
  <2> DEFINE c == seen.cut \/ Exposed
  <2>2. seen' = [seen EXCEPT !.cut = c] /\ c \in BOOLEAN
    BY <1>1, <2>1
  <2> HIDE DEF c
  <2> QED BY <2>2 DEF Inv, Typed, History
<1>5. /\ seen'.cut <=> (seen.cut \/ Exposed)
      /\ (seen'.torn <=> seen.torn) /\ (seen'.gaveUp <=> seen.gaveUp)
      /\ (seen'.late <=> seen.late) /\ (seen'.ran <=> seen.ran)
  BY <1>1 DEF Inv, Typed, History
<1>6. dev'.rx.op = None /\ host'.stage = "idle" /\ host' \in Updater
  BY <1>1, <1>2, NoPacketIs, IdleIs
<1>7. Typed'
  BY <1>1, <1>2, <1>4, <1>6 DEF Inv, Typed
<1>8. ReplyKnown'
  BY <1>1, <1>3, StillKnown
<1>9. HostKnows' /\ UpdateKnown'
  BY <1>1, <1>2, <1>5, <1>6 DEF Inv, HostKnows, UpdateKnown, Updating
<1>11. LineKnown'
  BY <1>1, <1>2, <1>5, <1>6, RunningIs DEF Inv, LineKnown, Updating, None
<1>12. EraseKnown'
  BY <1>1, <1>2, RunningIs DEF EraseKnown, Erasing
<1>13. CommitKnown'
  BY <1>1, <1>2, <1>5, RunningIs DEF CommitKnown
<1>10. FlashKnown' /\ StartKnown'
  BY <1>1, <1>2, <1>4, <1>5, SameFlash, RunningIs
     DEF Inv, FlashKnown, StartKnown, Updating, Erasing, Exposed, BlankStart, None
<1> QED BY <1>7, <1>8, <1>9, <1>10, <1>11, <1>12, <1>13 DEF Inv

-----------------------------------------------------------------------------
(* The bootloader is written. *)

LEMMA CommittingIs ==
  ASSUME Inv, Committing
  PROVE  /\ dev.mode = "main" /\ dev.tries \in 1..3 /\ Updating /\ dev.rx = NoPacket
         /\ CrcOk(dev.ubuf) /\ host.stage = "sent" /\ ~Erasing /\ ~Exposed
         /\ dev.replying # TRUE
<1>1. /\ dev.mode = "main" /\ dev.tries \in 1..3 /\ Updating /\ dev.rx = NoPacket
      /\ CrcOk(dev.ubuf) /\ host.stage = "sent" /\ ~Erasing /\ ~Exposed
  BY Fields DEF Inv, Committing, CommitKnown, EraseKnown, Exposed
<1>2. dev.replying # TRUE
  BY <1>1 DEF Inv, ReplyKnown
<1> QED BY <1>1, <1>2

LEMMA CommitEraseKeeps ==
  ASSUME Inv, CommitErase
  PROVE  Inv'
<1>1. Committing /\ boot' = None /\ UNCHANGED <<app, dev, host, seen>>
  BY DEF CommitErase
<1>2. Typed' /\ HostKnows' /\ UpdateKnown' /\ LineKnown'
  BY <1>1 DEF Inv, Typed, HostKnows, UpdateKnown, LineKnown, Updating, Waiting
<1>3. EraseKnown' /\ ReplyKnown' /\ CommitKnown'
  BY <1>1 DEF Inv, EraseKnown, ReplyKnown, CommitKnown, Updating, Erasing, Committing
<1>4. FlashKnown' /\ StartKnown'
  BY <1>1, SameFlash DEF Inv, FlashKnown, StartKnown, Updating, Erasing, Exposed
<1> QED BY <1>2, <1>3, <1>4 DEF Inv

LEMMA GoodHead ==
  ASSUME NEW bytes, CrcOk(bytes)
  PROVE  bytes[1][1] \in Good
<1>1. PICK im \in Good : bytes = Bytes(im)
  BY DEF CrcOk
<1>2. im \in Images /\ 1 \in 1..Size[im]
  BY Numbers
<1> QED BY <1>1, <1>2, BytesAre

LEMMA CommitWriteKeeps ==
  ASSUME Inv, CommitWrite
  PROVE  Inv'
<1>1. Committing /\ UNCHANGED <<app, host>>
  BY DEF CommitWrite
<1>2. PICK ok \in BOOLEAN :
        /\ boot' = IF ok THEN dev.ubuf[1][1] ELSE None
        /\ LET d == [dev EXCEPT !.state = "wait", !.ubuf = <<>>, !.tries = 0]
           IN  dev' = IF ok THEN [d EXCEPT !.tx = "zero"]
                      ELSE IF Retry(dev.tries) THEN [dev EXCEPT !.tries = @ + 1]
                      ELSE [d EXCEPT !.tx = "one"]
        /\ seen' = [seen EXCEPT !.gaveUp = @ \/ (~ok /\ dev.tries = 3)]
  BY DEF CommitWrite
<1>3. boot' \in Images \cup {None} /\ (ok => boot' \in Good)
  BY <1>1, <1>2, CommittingIs, GoodHead, Numbers
<1>4. seen' \in History /\ seen'.acked = seen.acked
  <2> DEFINE c == seen.gaveUp \/ (~ok /\ dev.tries = 3)
  <2>1. seen' = [seen EXCEPT !.gaveUp = c] /\ c \in BOOLEAN
    BY <1>2
  <2> HIDE DEF c
  <2> QED BY <2>1 DEF Inv, Typed, History
<1>5. /\ seen'.gaveUp <=> (seen.gaveUp \/ (~ok /\ dev.tries = 3))
      /\ (seen'.cut <=> seen.cut) /\ (seen'.torn <=> seen.torn)
      /\ (seen'.late <=> seen.late) /\ (seen'.ran <=> seen.ran)
  BY <1>2 DEF Inv, Typed, History
<1>6. ~seen.late /\ ~seen.ran
  BY <1>1, CommittingIs DEF Inv, LineKnown
<1>7. CASE ~ok /\ dev.tries < 3
  <2>1. dev' = [dev EXCEPT !.tries = dev.tries + 1]
    BY <1>2, <1>7 DEF Retry
  <2>2. dev.tries + 1 \in 0..3 /\ dev.tries + 1 > 0
    BY <1>1, <1>7, CommittingIs
  <2>3. /\ dev' \in Processor
        /\ dev'.mode = dev.mode /\ dev'.state = dev.state /\ dev'.ubuf = dev.ubuf /\ dev'.len = dev.len
        /\ dev'.cur = dev.cur /\ dev'.page = dev.page
        /\ dev'.tries = dev.tries + 1 /\ dev'.rx = dev.rx /\ dev'.tx = dev.tx
    BY <2>1, <2>2 DEF Inv, Typed, Processor
  <2>4. dev'.replying = dev.replying
    BY <2>1 DEF Inv, Typed, Processor
  <2>5. Typed' /\ HostKnows' /\ UpdateKnown'
    BY <1>1, <1>3, <1>4, <1>5, <2>3 DEF Inv, Typed, HostKnows, UpdateKnown, Updating, Waiting
  <2>6. LineKnown' /\ EraseKnown'
    BY <1>1, <1>5, <2>3 DEF Inv, LineKnown, EraseKnown, Updating, Erasing
  <2>7. CommitKnown'
    BY <1>1, <2>2, <2>3, CommittingIs DEF CommitKnown, Updating, Committing
  <2>8. ReplyKnown'
    BY <1>1, <2>4, CommittingIs DEF ReplyKnown
  <2>9. FlashKnown' /\ StartKnown'
    BY <1>1, <1>4, <1>5, <2>3, SameFlash, CommittingIs
       DEF Inv, FlashKnown, StartKnown, Updating, Erasing, Exposed
  <2> QED BY <2>5, <2>6, <2>7, <2>8, <2>9 DEF Inv
<1>8. CASE ok \/ dev.tries = 3
  <2>1. PICK tx \in {"zero", "one"} :
          dev' = [dev EXCEPT !.state = "wait", !.ubuf = <<>>, !.tries = 0, !.tx = tx]
    BY <1>2, <1>8 DEF Retry
  <2>11. tx \in {None, "okay", "badCommand", "outOfFlash", "outOfSram", "zero", "one"} /\ 0 \in 0..3
    BY <2>1
  <2>12. dev \in Processor /\ dev' = [dev EXCEPT !.state = "wait", !.ubuf = <<>>, !.tries = 0, !.tx = tx]
    BY <2>1 DEF Inv, Typed
  <2>10. dev' \in Processor
    BY <2>11, <2>12, NoPacketIs DEF Processor
  <2>2. /\ dev' \in Processor
        /\ dev'.mode = dev.mode /\ dev'.state = "wait" /\ dev'.ubuf = <<>> /\ dev'.len = dev.len
        /\ dev'.cur = dev.cur /\ dev'.page = dev.page
        /\ dev'.tries = 0 /\ dev'.rx = dev.rx /\ dev'.tx = tx
    BY <2>1, <2>10 DEF Inv, Typed, Processor
  <2>3. dev'.replying = dev.replying
    BY <2>1 DEF Inv, Typed, Processor
  <2>4. dev'.rx.op = None
    BY <1>1, <2>2, CommittingIs, NoPacketIs
  <2>5. Typed' /\ HostKnows' /\ UpdateKnown'
    BY <1>1, <1>3, <1>4, <2>2, CommittingIs DEF Inv, Typed, HostKnows, UpdateKnown, Updating
  <2>6. LineKnown' /\ EraseKnown'
    BY <1>1, <1>5, <1>6, <2>2, <2>4, CommittingIs DEF Inv, LineKnown, EraseKnown, Updating, Erasing, None
  <2>7. CommitKnown'
    BY <1>3, <1>5, <1>8, <2>2, CommittingIs, <1>1 DEF CommitKnown, Updating, Committing
  <2>8. ReplyKnown'
    BY <1>1, <2>3, CommittingIs DEF ReplyKnown
  <2>9. FlashKnown' /\ StartKnown'
    BY <1>1, <1>4, <1>5, <2>2, SameFlash, CommittingIs
       DEF Inv, FlashKnown, StartKnown, Updating, Erasing, Exposed
  <2> QED BY <2>5, <2>6, <2>7, <2>8, <2>9 DEF Inv
<1> QED BY <1>1, <1>7, <1>8, CommittingIs

-----------------------------------------------------------------------------
(* The host. *)

LEMMA RequestKeeps ==
  ASSUME Inv, Request
  PROVE  Inv'
<1>1. Running /\ host.stage = "idle" /\ dev.rx = NoPacket /\ dev.tx = None /\ UNCHANGED <<app, boot>>
  BY DEF Request
<1>2. seen' = [seen EXCEPT !.late = FALSE, !.ran = FALSE]
  BY DEF Request
<1>3. seen' \in History /\ seen'.acked = seen.acked
  BY <1>2 DEF Inv, Typed, History
<1>4. /\ (seen'.cut <=> seen.cut) /\ (seen'.torn <=> seen.torn) /\ (seen'.gaveUp <=> seen.gaveUp)
      /\ ~seen'.late /\ ~seen'.ran
  BY <1>2 DEF Inv, Typed, History
<1>5. ~Updating /\ dev.ubuf = <<>>
  BY <1>1 DEF Inv, UpdateKnown, LineKnown
<1>6. ASSUME NEW rx \in Packets, dev' = [dev EXCEPT !.rx = rx],
             host' \in Updater,
             \/ rx.op = "switch" /\ host'.stage = "left"
             \/ rx.op = "update" /\ host'.stage = "asked" /\ host'.im \in Images /\ host'.sent = 0
                /\ rx.len \in Announced(host'.im)
      PROVE  Inv'
  <2>1. /\ dev' \in Processor
        /\ dev'.mode = dev.mode /\ dev'.state = dev.state /\ dev'.ubuf = dev.ubuf /\ dev'.len = dev.len
        /\ dev'.cur = dev.cur /\ dev'.page = dev.page
        /\ dev'.tries = dev.tries /\ dev'.rx = rx /\ dev'.tx = dev.tx
    BY <1>6 DEF Inv, Typed, Processor
  <2>2. dev'.replying = dev.replying
    BY <1>6 DEF Inv, Typed, Processor
  <2>3. Typed' /\ HostKnows' /\ UpdateKnown'
    BY <1>1, <1>3, <1>5, <1>6, <2>1 DEF Inv, Typed, HostKnows, UpdateKnown, Updating, None
  <2>4. LineKnown'
    BY <1>1, <1>4, <1>5, <1>6, <2>1, RunningIs DEF Inv, LineKnown, Updating, Announced
  <2>5. EraseKnown' /\ CommitKnown'
    BY <1>1, <1>4, <2>1, RunningIs DEF EraseKnown, Erasing, CommitKnown
  <2>6. ReplyKnown'
    BY <1>1, <2>2, StillKnown
  <2>7. FlashKnown' /\ StartKnown'
    BY <1>1, <1>3, <1>4, <1>5, <2>1, SameFlash, RunningIs
       DEF Inv, FlashKnown, StartKnown, Updating, Erasing, Exposed, None
  <2> QED BY <2>3, <2>4, <2>5, <2>6, <2>7 DEF Inv
<1>7. CASE /\ dev' = [dev EXCEPT !.rx = [op |-> "switch"]]
           /\ host' = [Idle EXCEPT !.stage = "left"]
  <2>1. [op |-> "switch"] \in Packets /\ [op |-> "switch"].op = "switch"
    BY DEF Packets
  <2>2. host' \in Updater /\ host'.stage = "left"
    BY <1>7, IdleIs DEF Updater
  <2> QED BY <1>6, <1>7, <2>1, <2>2
<1>8. ASSUME NEW im \in Images, NEW len \in Announced(im),
             dev' = [dev EXCEPT !.rx = [op |-> "update", len |-> len]],
             host' = [stage |-> "asked", im |-> im, sent |-> 0]
      PROVE  Inv'
  <2> DEFINE rx == [op |-> "update", len |-> len]
  <2>1. len \in Nat
    BY Numbers DEF Announced
  <2>2. rx \in Packets /\ rx.op = "update" /\ rx.len = len
    BY <2>1 DEF Packets
  <2>3. host' \in Updater /\ host'.stage = "asked" /\ host'.im = im /\ host'.sent = 0
    BY <1>8 DEF Updater
  <2>4. dev' = [dev EXCEPT !.rx = rx]
    BY <1>8
  <2> HIDE DEF rx
  <2> QED BY <1>6, <2>2, <2>3, <2>4
<1> QED BY <1>7, <1>8 DEF Request

LEMMA AcknowledgedKeeps ==
  ASSUME Inv, Acknowledged
  PROVE  Inv'
<1>1. /\ host.stage = "asked" /\ dev.tx # None /\ UNCHANGED <<app, boot, seen>>
      /\ host.im \in Images /\ host.sent = 0
  BY DEF Inv, Acknowledged, HostKnows
<1>2. dev' = [dev EXCEPT !.tx = None]
  BY DEF Acknowledged
<1>3. /\ dev' \in Processor
      /\ dev'.mode = dev.mode /\ dev'.state = dev.state /\ dev'.ubuf = dev.ubuf /\ dev'.len = dev.len
      /\ dev'.cur = dev.cur /\ dev'.page = dev.page
      /\ dev'.tries = dev.tries /\ dev'.rx = dev.rx /\ dev'.tx = None
  BY <1>2 DEF Inv, Typed, Processor
<1>4. dev'.replying = dev.replying
  BY <1>2 DEF Inv, Typed, Processor
<1>5. /\ host' \in Updater
      /\ dev.tx # "okay" => host'.stage = "idle"
      /\ dev.tx = "okay" => /\ host'.stage \in {"sending", "sent"} /\ host'.im = host.im /\ host'.sent = 0
                            /\ Size[host.im] \in Nat
                            /\ host'.stage = "sent" <=> Size[host.im] = 0
  <2>1. CASE dev.tx # "okay"
    BY <2>1, IdleIs DEF Acknowledged
  <2>2. CASE dev.tx = "okay"
    <3>1. PICK stage \in {"sending", "sent"} :
            host' = [host EXCEPT !.stage = stage] /\ (stage = "sent" <=> Size[host.im] = 0)
      BY <2>2 DEF Acknowledged
    <3> QED BY <1>1, <2>2, <3>1, Numbers DEF Inv, Typed, Updater
  <2> QED BY <2>1, <2>2
<1>6. (dev.tx # "okay" => ~Updating) /\ (dev.tx = "okay" => Updating \/ seen.late)
      /\ ~(Erasing /\ Updating) /\ dev.tries = 0
      /\ dev.rx.op \notin {"update", "switch"} /\ dev.mode \in {"boot", "main"}
  BY <1>1, Fields DEF Inv, UpdateKnown, HostKnows, EraseKnown, CommitKnown, LineKnown
<1>7. Typed' /\ HostKnows'
  BY <1>1, <1>3, <1>5, <1>6, Numbers DEF Inv, Typed, HostKnows, Updating, None
<1>8. UpdateKnown'
  BY <1>1, <1>3, <1>5, <1>6 DEF Inv, UpdateKnown, Updating, Waiting
<1>9. LineKnown' /\ EraseKnown'
  BY <1>1, <1>3, <1>5, <1>6 DEF Inv, LineKnown, EraseKnown, Updating, Erasing
<1>10. CommitKnown'
  BY <1>1, <1>3, <1>6 DEF Inv, CommitKnown, Updating, Committing
<1>11. ReplyKnown'
  BY <1>3, <1>4 DEF Inv, ReplyKnown, Updating, Erasing
<1>12. FlashKnown'
  BY <1>1, <1>3, <1>5, <1>6, SameFlash DEF Inv, FlashKnown, Updating, Erasing, None
<1>13. StartKnown'
  BY <1>1, <1>3, SameFlash DEF Inv, StartKnown, Updating, Erasing, Exposed
<1> QED BY <1>7, <1>8, <1>9, <1>10, <1>11, <1>12, <1>13 DEF Inv

LEMMA Chunk ==
  ASSUME NEW im \in Images, NEW sent \in Nat, NEW n \in 1..(Size[im] - sent)
  PROVE  LET bytes == SubSeq(Bytes(im), sent + 1, sent + n)
         IN  bytes \in Seq(Byte) /\ bytes \in Seq(Own(im)) /\ Len(bytes) = n
<1> DEFINE all == Bytes(im)
<1>1. all \in Seq(Byte) /\ all \in Seq(Own(im)) /\ Len(all) = Size[im] /\ Size[im] \in Nat
  BY BytesAre, Numbers
<1> HIDE DEF all
<1>2. n \in Nat /\ sent + n <= Len(all) /\ n > 0
  BY <1>1
<1>3. SubSeq(all, sent + 1, sent + n) \in Seq(Byte) /\ Len(SubSeq(all, sent + 1, sent + n)) = n
  BY <1>1, <1>2
<1>4. SubSeq(all, sent + 1, sent + n) \in Seq(Own(im))
  BY <1>1, <1>2
<1> QED BY <1>3, <1>4 DEF all

LEMMA SendKeeps ==
  ASSUME Inv, Send
  PROVE  Inv'
<1>1. /\ host.stage = "sending" /\ dev.rx = NoPacket /\ UNCHANGED <<app, boot, seen>>
      /\ host.im \in Images /\ host.sent \in Nat /\ Size[host.im] \in Nat
      /\ host.sent < Size[host.im] /\ (Updating \/ seen.late)
  BY Fields, Numbers DEF Inv, Send, HostKnows
<1>2. PICK n \in 1..Smaller(MaxPacket, Size[host.im] - host.sent) :
        /\ dev' = [dev EXCEPT !.rx =
             [op |-> "data", bytes |-> SubSeq(Bytes(host.im), host.sent + 1, host.sent + n)]]
        /\ host' = [host EXCEPT !.sent = @ + n,
                                !.stage = IF host.sent + n = Size[host.im] THEN "sent" ELSE @]
  BY DEF Send
<1>3. n \in Nat /\ n > 0 /\ n \in 1..(Size[host.im] - host.sent) /\ host.sent + n \in Nat
  BY <1>1, Numbers DEF Smaller
<1> DEFINE bytes == SubSeq(Bytes(host.im), host.sent + 1, host.sent + n)
<1>4. bytes \in Seq(Byte) /\ bytes \in Seq(Own(host.im)) /\ Len(bytes) = n
  BY <1>1, <1>3, Chunk
<1> DEFINE rx == [op |-> "data", bytes |-> bytes]
<1>5. dev' = [dev EXCEPT !.rx = rx]
  BY <1>2
<1> HIDE DEF bytes
<1>6. rx \in Packets /\ rx.op = "data" /\ rx.bytes = bytes
  BY <1>4 DEF Packets
<1> HIDE DEF rx
<1>7. /\ dev' \in Processor
      /\ dev'.mode = dev.mode /\ dev'.state = dev.state /\ dev'.ubuf = dev.ubuf /\ dev'.len = dev.len
      /\ dev'.cur = dev.cur /\ dev'.page = dev.page
      /\ dev'.tries = dev.tries /\ dev'.rx = rx /\ dev'.tx = dev.tx
  BY <1>5, <1>6 DEF Inv, Typed, Processor
<1>8. dev'.replying = dev.replying
  BY <1>5 DEF Inv, Typed, Processor
<1>9. /\ host' \in Updater /\ host'.im = host.im /\ host'.sent = host.sent + n
      /\ host'.stage = IF host.sent + n = Size[host.im] THEN "sent" ELSE "sending"
  <2> DEFINE stage == IF host.sent + n = Size[host.im] THEN "sent" ELSE "sending"
  <2>1. host' = [host EXCEPT !.sent = host.sent + n, !.stage = stage]
    BY <1>1, <1>2
  <2>2. stage \in {"sent", "sending"}
    OBVIOUS
  <2> HIDE DEF stage
  <2>3. host' \in Updater /\ host'.im = host.im /\ host'.sent = host.sent + n /\ host'.stage = stage
    BY <1>3, <2>1, <2>2 DEF Inv, Typed, Updater
  <2> QED BY <2>3 DEF stage
<1>10. /\ ~Erasing /\ dev.tries = 0 /\ dev.mode \in {"boot", "main"}
       /\ dev'.rx.op = "data" /\ dev'.rx.bytes = bytes
  BY <1>1, <1>6, <1>7, Fields DEF Inv, EraseKnown, CommitKnown, LineKnown
<1>11. Typed' /\ HostKnows'
  BY <1>1, <1>3, <1>7, <1>9 DEF Inv, Typed, HostKnows, Updating
<1>12. UpdateKnown'
  <2> SUFFICES ASSUME Updating
               PROVE  UpdateKnown'
    BY <1>7 DEF UpdateKnown, Updating
  <2>1. Waiting = 0 /\ Waiting' = n
    BY <1>1, <1>4, <1>10, NoPacketIs DEF Waiting, None
  <2>2. dev.cur + Len(dev.ubuf) + 0 = host.sent /\ dev.cur \in Nat /\ Len(dev.ubuf) \in Nat
    BY <2>1, Fields DEF Inv, UpdateKnown
  <2>3. dev.cur + Len(dev.ubuf) + n = host.sent + n
    BY <2>2, <1>1, <1>3
  <2> QED BY <1>1, <1>3, <1>7, <1>9, <2>1, <2>3 DEF Inv, UpdateKnown, Updating
<1>13. LineKnown'
  BY <1>1, <1>4, <1>7, <1>9, <1>10 DEF Inv, LineKnown, Updating
<1>14. EraseKnown' /\ CommitKnown'
  BY <1>1, <1>7, <1>10 DEF Inv, EraseKnown, Erasing, CommitKnown, Committing
<1>15. ReplyKnown'
  BY <1>8, <1>10, Zenon DEF Inv, ReplyKnown
<1>16. FlashKnown' /\ StartKnown'
  BY <1>1, <1>7, <1>9, SameFlash DEF Inv, FlashKnown, StartKnown, Updating, Erasing, Exposed
<1> QED BY <1>11, <1>12, <1>13, <1>14, <1>15, <1>16 DEF Inv

LEMMA InformedKeeps ==
  ASSUME Inv, Informed
  PROVE  Inv'
<1>1. host.stage = "sent" /\ dev.tx # None /\ host' = Idle /\ UNCHANGED <<app, boot>>
  BY DEF Informed
<1>2. dev' = [dev EXCEPT !.tx = None]
  BY DEF Informed
<1>3. /\ dev' \in Processor
      /\ dev'.mode = dev.mode /\ dev'.state = dev.state /\ dev'.ubuf = dev.ubuf /\ dev'.len = dev.len
      /\ dev'.cur = dev.cur /\ dev'.page = dev.page
      /\ dev'.tries = dev.tries /\ dev'.rx = dev.rx /\ dev'.tx = None
  BY <1>2 DEF Inv, Typed, Processor
<1>4. dev'.replying = dev.replying
  BY <1>2 DEF Inv, Typed, Processor
<1>5. /\ ~Updating /\ dev.tries = 0 /\ dev.rx.op \notin {"update", "switch"}
      /\ dev.mode \in {"boot", "main"} /\ host.im \in Images
  BY <1>1, Fields DEF Inv, UpdateKnown, CommitKnown, LineKnown, HostKnows
<1>6. PICK acked \in Images \cup {None} :
        /\ seen' = [seen EXCEPT !.acked = acked]
        /\ acked # None => Holds(app, acked)
  <2>1. CASE dev.tx = "zero" /\ dev.mode = "boot"
    <3>1. seen' = [seen EXCEPT !.acked = host.im] /\ Holds(app, host.im)
      BY <2>1 DEF Informed, Inv, FlashKnown
    <3> QED BY <3>1, <1>5
  <2>2. CASE ~(dev.tx = "zero" /\ dev.mode = "boot")
    <3>1. seen' = [seen EXCEPT !.acked = seen.acked]
      BY <2>2 DEF Informed
    <3>2. seen.acked \in Images \cup {None} /\ (seen.acked # None => Holds(app, seen.acked))
      BY DEF Inv, Typed, History, FlashKnown
    <3> QED BY <3>1, <3>2
  <2> QED BY <2>1, <2>2
<1>7. seen' \in History /\ seen'.acked = acked
  BY <1>6 DEF Inv, Typed, History
<1>8. /\ (seen'.cut <=> seen.cut) /\ (seen'.torn <=> seen.torn) /\ (seen'.gaveUp <=> seen.gaveUp)
      /\ (seen'.late <=> seen.late) /\ (seen'.ran <=> seen.ran)
  BY <1>6 DEF Inv, Typed, History
<1>9. host' \in Updater /\ host'.stage = "idle"
  BY <1>1, IdleIs
<1>10. Typed' /\ HostKnows' /\ UpdateKnown'
  BY <1>1, <1>3, <1>5, <1>7, <1>9 DEF Inv, Typed, HostKnows, UpdateKnown, Updating
<1>11. LineKnown'
  BY <1>1, <1>3, <1>5, <1>8, <1>9 DEF Inv, LineKnown, Updating
<1>12. EraseKnown' /\ CommitKnown'
  BY <1>1, <1>3, <1>5, <1>8 DEF Inv, EraseKnown, CommitKnown, Updating, Erasing, Committing
<1>13. ReplyKnown'
  BY <1>4, <1>5, Zenon DEF Inv, ReplyKnown
<1>14. FlashKnown'
  BY <1>1, <1>3, <1>5, <1>6, <1>7, SameFlash DEF FlashKnown, Updating, None
<1>15. StartKnown'
  BY <1>1, <1>3, <1>8, SameFlash DEF Inv, StartKnown, Updating, Erasing, Exposed
<1> QED BY <1>10, <1>11, <1>12, <1>13, <1>14, <1>15 DEF Inv

-----------------------------------------------------------------------------
(* The main firmware's flash. *)

LEMMA EraseKeeps ==
  ASSUME Inv, Erase
  PROVE  Inv'
<1> DEFINE page == dev.page + PageSize
<1> DEFINE replying == dev.replying /\ page < dev.len
<1> DEFINE tx == IF dev.replying /\ page >= dev.len THEN "okay" ELSE dev.tx
<1>1. /\ dev.mode = "boot" /\ Erasing /\ UNCHANGED <<boot, host>>
      /\ app' = [i \in 1..FlashSize |-> IF i \in ErasedPage(dev.page, dev.len) THEN Blank ELSE app[i]]
  BY DEF Erase
<1>2. dev' = [dev EXCEPT !.page = page, !.replying = replying, !.tx = tx]
  BY DEF Erase
<1>3. seen' = [seen EXCEPT !.cut = FALSE, !.acked = None]
  BY DEF Erase
<1>4. page \in Nat /\ page > 0 /\ dev.page \in Nat /\ dev.len \in Nat /\ page > dev.page
  BY Fields, Numbers DEF Inv
<1>5. /\ replying \in BOOLEAN /\ (replying = TRUE => dev.replying = TRUE /\ page < dev.len)
      /\ tx \in {None, "okay", "badCommand", "outOfFlash", "outOfSram", "zero", "one"}
      /\ tx # dev.tx => tx = "okay" /\ dev.replying = TRUE
  BY Fields DEF Inv
<1> HIDE DEF replying, tx
<1>6. /\ dev' \in Processor
      /\ dev'.mode = dev.mode /\ dev'.state = dev.state /\ dev'.ubuf = dev.ubuf /\ dev'.len = dev.len
      /\ dev'.cur = dev.cur /\ dev'.page = page
      /\ dev'.tries = dev.tries /\ dev'.rx = dev.rx /\ dev'.tx = tx
  BY <1>2, <1>4, <1>5 DEF Inv, Typed, Processor
<1>7. dev'.replying = replying
  BY <1>2, <1>5 DEF Inv, Typed, Processor
<1>8. seen' \in History /\ seen'.acked = None /\ ~seen'.cut
      /\ (seen'.torn <=> seen.torn) /\ (seen'.gaveUp <=> seen.gaveUp)
      /\ (seen'.late <=> seen.late) /\ (seen'.ran <=> seen.ran)
  <2>1. None \in Images \cup {None}
    OBVIOUS
  <2> QED BY <1>3, <2>1 DEF Inv, Typed, History
<1>9. app' \in [1..FlashSize -> Byte]
  <2>1. Blank \in Byte
    BY DEF Blank, Byte
  <2> QED BY <1>1, <2>1 DEF Inv, Typed
<1>10. BlankStart'
  <2>1. 1 \in 1..FlashSize /\ 2 \in 1..FlashSize
    BY Numbers
  <2>2. CASE dev.page = 0
    <3>1. 1 \in ErasedPage(dev.page, dev.len) /\ 2 \in ErasedPage(dev.page, dev.len)
      BY <2>2, Numbers DEF ErasedPage
    <3> QED BY <1>1, <2>1, <3>1 DEF BlankStart
  <2>3. CASE dev.page # 0
    <3>1. app[1] = Blank /\ app[2] = Blank
      BY <1>1, <1>4, <2>3 DEF Inv, StartKnown, BlankStart
    <3> QED BY <1>1, <2>1, <3>1 DEF BlankStart
  <2> QED BY <2>2, <2>3
<1>11. /\ dev.tries = 0 /\ dev.rx = NoPacket /\ dev.len <= FlashSize
       /\ Updating => host.stage = "asked" /\ dev.tx = None
       /\ tx # dev.tx => Updating /\ page >= dev.len
       /\ tx # "zero"
  <2>1. dev.tries = 0
    BY <1>1, Fields DEF Inv, CommitKnown
  <2>2. dev.rx = NoPacket /\ dev.len <= FlashSize /\ (Updating => host.stage = "asked" /\ dev.tx = None)
    BY <1>1 DEF Inv, EraseKnown
  <2>3. tx # dev.tx => Updating
    BY <1>5 DEF Inv, ReplyKnown
  <2>4. tx # dev.tx => page >= dev.len
    BY <1>4 DEF tx
  <2>5. dev.tx # "zero"
    BY <1>1 DEF Inv, FlashKnown
  <2> QED BY <1>5, <2>1, <2>2, <2>3, <2>4, <2>5
<1>12. Typed' /\ HostKnows'
  BY <1>1, <1>5, <1>6, <1>8, <1>9, <1>11 DEF Inv, Typed, HostKnows, Updating
<1>13. UpdateKnown'
  BY <1>1, <1>5, <1>6, <1>11 DEF Inv, UpdateKnown, Updating, Waiting, None
<1>14. LineKnown'
  BY <1>1, <1>6, <1>8, <1>11, NoPacketIs DEF Inv, LineKnown, Updating, None
<1>15. EraseKnown' /\ CommitKnown'
  <2>1. boot \in Good \/ seen.torn \/ seen.gaveUp
    BY <1>11 DEF Inv, CommitKnown, Committing
  <2> QED BY <1>1, <1>4, <1>6, <1>8, <1>11, <2>1 DEF EraseKnown, CommitKnown, Updating, Erasing
<1>16. ReplyKnown'
  BY <1>5, <1>6, <1>7 DEF Inv, ReplyKnown, Updating, Erasing
<1>17. FlashKnown'
  BY <1>6, <1>8, <1>10, <1>11 DEF FlashKnown, BlankStart
<1>18. StartKnown'
  BY <1>1, <1>6, <1>10 DEF StartKnown
<1> QED BY <1>12, <1>13, <1>14, <1>15, <1>16, <1>17, <1>18 DEF Inv

LEMMA AllOf ==
  ASSUME NEW s \in Seq(Byte), NEW im \in Images, s \in Seq(Own(im)),
         NEW n \in Int, Len(s) <= n
  PROVE  LET got == SubSeq(s, 1, Smaller(Len(s), n))
         IN  got \in Seq(Byte) /\ got \in Seq(Own(im)) /\ Len(got) = Len(s)
<1>1. Len(s) \in Nat /\ Smaller(Len(s), n) = Len(s)
  BY DEF Smaller
<1>2. SubSeq(s, 1, Len(s)) \in Seq(Byte) /\ Len(SubSeq(s, 1, Len(s))) = Len(s)
  BY <1>1
<1>3. SubSeq(s, 1, Len(s)) \in Seq(Own(im))
  BY <1>1
<1> QED BY <1>1, <1>2, <1>3

LEMMA Joined ==
  ASSUME NEW s \in Seq(Byte), NEW t \in Seq(Byte), NEW im \in Images,
         s \in Seq(Own(im)), t \in Seq(Own(im))
  PROVE  s \o t \in Seq(Byte) /\ s \o t \in Seq(Own(im)) /\ Len(s \o t) = Len(s) + Len(t)
<1>1. s \o t \in Seq(Byte) /\ Len(s \o t) = Len(s) + Len(t)
  OBVIOUS
<1>2. s \o t \in Seq(Own(im))
  OBVIOUS
<1> QED BY <1>1, <1>2

\* What a program of the flash makes of the bytes that wait.
Gathered(got, n) ==
  got = IF dev.rx = NoPacket THEN <<>>
        ELSE SubSeq(dev.rx.bytes, 1, Smaller(Len(dev.rx.bytes), n))

LEMMA GatheredIs ==
  ASSUME Inv, Updating, NEW got, NEW n \in Int, Gathered(got, n), Waiting <= n
  PROVE  LET all == dev.ubuf \o got
         IN  /\ host.im \in Images
             /\ all \in Seq(Byte) /\ all \in Seq(Own(host.im))
             /\ Len(all) \in Nat /\ dev.cur + Len(all) = host.sent
             /\ host.sent <= dev.len /\ (host.stage = "sent" => host.sent = dev.len)
             /\ host.sent = dev.len => host.stage # "sending"
             /\ host.stage = "asked" => Len(all) = 0 /\ dev.len >= 0 /\ host.sent = 0
<1>1. /\ host.im \in Images /\ dev.ubuf \in Seq(Byte) /\ dev.ubuf \in Seq(Own(host.im))
      /\ dev.cur \in Nat /\ dev.len \in Nat /\ host.sent \in Nat /\ dev.len = Size[host.im]
      /\ dev.cur + Len(dev.ubuf) + Waiting = host.sent
      /\ host.sent <= dev.len /\ (host.stage = "sent" => host.sent = dev.len)
      /\ (host.stage = "sending" => host.sent < dev.len)
      /\ (host.stage = "asked" => host.sent = 0)
  BY Fields DEF Inv, UpdateKnown, HostKnows
<1>2. dev.rx = NoPacket \/ dev.rx.op = "data"
  BY Fields, PacketKinds DEF Inv, LineKnown
<1>3. got \in Seq(Byte) /\ got \in Seq(Own(host.im)) /\ Len(got) = Waiting /\ Waiting \in Nat
  <2>1. CASE dev.rx = NoPacket
    <3>1. got = <<>> /\ Waiting = 0
      BY <2>1, NoPacketIs DEF Gathered, Waiting, None
    <3> QED BY <3>1
  <2>2. CASE dev.rx # NoPacket
    <3>1. dev.rx.bytes \in Seq(Byte) /\ dev.rx.bytes \in Seq(Own(host.im)) /\ Waiting = Len(dev.rx.bytes)
      BY <1>2, <2>2, Fields, PacketKinds DEF Inv, LineKnown, Waiting
    <3>2. got = SubSeq(dev.rx.bytes, 1, Smaller(Len(dev.rx.bytes), n))
      BY <2>2 DEF Gathered
    <3> QED BY <1>1, <3>1, <3>2, AllOf
  <2> QED BY <2>1, <2>2
<1> DEFINE all == dev.ubuf \o got
<1>4. all \in Seq(Byte) /\ all \in Seq(Own(host.im)) /\ Len(all) = Len(dev.ubuf) + Len(got)
  BY <1>1, <1>3, Joined
<1> HIDE DEF all
<1>5. Len(all) \in Nat /\ Len(dev.ubuf) \in Nat
  BY <1>1, <1>4
<1>6. dev.cur + Len(all) = host.sent
  <2>1. \A a, b, c, d, e \in Nat : a + b + c = d /\ e = b + c => a + e = d
    OBVIOUS
  <2>2. dev.cur \in Nat /\ Len(dev.ubuf) \in Nat /\ Waiting \in Nat /\ host.sent \in Nat /\ Len(all) \in Nat
    BY <1>1, <1>3, <1>5
  <2>3. Len(all) = Len(dev.ubuf) + Waiting
    BY <1>3, <1>4
  <2>4. dev.cur + Len(dev.ubuf) + Waiting = host.sent
    BY <1>1
  <2> QED BY <2>1, <2>2, <2>3, <2>4
<1> QED BY <1>1, <1>4, <1>5, <1>6 DEF all

LEMMA EmptyIsBad ==
  ASSUME NEW bytes, CrcOk(bytes)
  PROVE  Len(bytes) > 0
<1>1. PICK im \in Good : bytes = Bytes(im)
  BY DEF CrcOk
<1> QED BY <1>1, BytesAre, Numbers

LEMMA CollectKeeps ==
  ASSUME Inv, Collect
  PROVE  Inv'
<1> DEFINE n == dev.len - Len(dev.ubuf)
<1> DEFINE got == IF dev.rx = NoPacket THEN <<>>
                  ELSE SubSeq(dev.rx.bytes, 1, Smaller(Len(dev.rx.bytes), n))
<1> DEFINE all == dev.ubuf \o got
<1>1. /\ dev.mode = "main" /\ Running /\ Updating /\ UNCHANGED <<app, boot, host, seen>>
  BY DEF Collect, Updating
<1>2. LET d == [dev EXCEPT !.rx = NoPacket, !.ubuf = all]
      IN  dev' = IF Len(all) < dev.len \/ dev.tx # None THEN d
                 ELSE IF Verified(all) THEN [d EXCEPT !.tries = 1]
                 ELSE [d EXCEPT !.state = "wait", !.ubuf = <<>>, !.tx = "one"]
  BY DEF Collect
<1>3. dev.cur = 0 /\ n \in Int /\ Waiting <= n /\ dev.len \in Nat /\ dev.len = Size[host.im]
      /\ host.sent \in Nat
  <2>1. /\ dev.cur = 0 /\ dev.cur + Len(dev.ubuf) + Waiting = host.sent /\ host.sent <= dev.len
        /\ dev.len \in Nat /\ Len(dev.ubuf) \in Nat /\ host.sent \in Nat /\ dev.len = Size[host.im]
    BY <1>1, Fields DEF Inv, LineKnown, UpdateKnown
  <2>2. Waiting \in Nat
    BY <1>1, Fields, PacketKinds DEF Inv, Waiting
  <2> QED BY <2>1, <2>2
<1>4. Gathered(got, n)
  BY DEF Gathered
<1> HIDE DEF got, n
<1>5. /\ host.im \in Images
      /\ all \in Seq(Byte) /\ all \in Seq(Own(host.im))
      /\ Len(all) \in Nat /\ dev.cur + Len(all) = host.sent
      /\ host.sent <= dev.len /\ (host.stage = "sent" => host.sent = dev.len)
      /\ host.sent = dev.len => host.stage # "sending"
      /\ host.stage = "asked" => Len(all) = 0 /\ dev.len >= 0 /\ host.sent = 0
  BY <1>1, <1>3, <1>4, GatheredIs
<1>6. Len(all) = host.sent
  BY <1>3, <1>5
<1> HIDE DEF all
<1>7. ~Erasing /\ dev.tries = 0 /\ dev.replying # TRUE /\ (boot \in Good \/ seen.torn \/ seen.gaveUp)
      /\ ~seen.late /\ ~seen.ran
  BY <1>1, RunningIs DEF Inv, LineKnown
<1>8. CASE Len(all) < dev.len \/ dev.tx # None \/ Verified(all)
  <2>1. PICK tries \in {0, 1} :
          /\ dev' = [dev EXCEPT !.rx = NoPacket, !.ubuf = all, !.tries = tries]
          /\ tries = 1 => Verified(all) /\ Len(all) >= dev.len
    <3>1. CASE Len(all) < dev.len \/ dev.tx # None
      <4>1. dev' = [dev EXCEPT !.rx = NoPacket, !.ubuf = all]
        BY <1>2, <3>1
      <4>2. [dev EXCEPT !.rx = NoPacket, !.ubuf = all]
              = [dev EXCEPT !.rx = NoPacket, !.ubuf = all, !.tries = 0]
        BY <1>5, <1>7, NoPacketIs DEF Inv, Typed, Processor
      <4> QED BY <4>1, <4>2
    <3>2. CASE ~(Len(all) < dev.len \/ dev.tx # None)
      <4>1. dev' = [dev EXCEPT !.rx = NoPacket, !.ubuf = all, !.tries = 1] /\ Verified(all)
        BY <1>2, <1>8, <3>2
      <4> QED BY <4>1, <3>2, <1>3, <1>5
    <3> QED BY <3>1, <3>2
  <2>2. dev \in Processor /\ tries \in 0..3
    BY DEF Inv, Typed
  <2>3. /\ dev' \in Processor
        /\ dev'.mode = dev.mode /\ dev'.state = dev.state /\ dev'.ubuf = all /\ dev'.len = dev.len
        /\ dev'.cur = dev.cur /\ dev'.page = dev.page
        /\ dev'.tries = tries /\ dev'.rx = NoPacket /\ dev'.tx = dev.tx
    BY <1>5, <2>1, <2>2, NoPacketIs DEF Processor
  <2>4. dev'.replying = dev.replying
    BY <2>1, <2>2 DEF Processor
  <2>5. dev'.rx.op = None
    BY <2>3, NoPacketIs
  <2>6. Typed' /\ HostKnows'
    BY <1>1, <2>3 DEF Inv, Typed, HostKnows, Updating
  <2>7. UpdateKnown'
    <3>1. Waiting' = 0
      BY <2>5 DEF Waiting, None
    <3>2. dev'.cur + Len(dev'.ubuf) + Waiting' = host'.sent
      BY <1>1, <1>3, <1>5, <1>6, <2>3, <3>1
    <3> QED BY <1>1, <1>5, <2>3, <3>2 DEF Inv, UpdateKnown, Updating
  <2>8. LineKnown'
    BY <1>1, <2>3, <2>5 DEF Inv, LineKnown, Updating, None
  <2>9. EraseKnown'
    BY <1>1, <1>7, <2>3 DEF EraseKnown, Erasing
  <2>10. CommitKnown'
    <3>1. CASE tries = 0
      BY <1>1, <1>7, <2>3, <3>1 DEF CommitKnown
    <3>2. CASE tries = 1
      <4>1. CrcOk(all) /\ host.sent = dev.len
        BY <1>3, <1>5, <1>6, <2>1, <3>2 DEF Verified
      <4>2. host.stage = "sent"
        <5>1. host.stage # "asked"
          BY <1>5, <4>1, EmptyIsBad
        <5> QED BY <1>1, <1>5, <4>1, <5>1 DEF Inv, UpdateKnown
      <4> QED BY <1>1, <2>3, <3>2, <4>1, <4>2 DEF CommitKnown, Updating, Committing
    <3> QED BY <3>1, <3>2
  <2>11. ReplyKnown'
    BY <1>7, <2>4, Zenon DEF ReplyKnown
  <2>12. FlashKnown' /\ StartKnown'
    BY <1>1, <1>7, <2>3, SameFlash DEF Inv, FlashKnown, StartKnown, Updating, Erasing, Exposed
  <2> QED BY <2>6, <2>7, <2>8, <2>9, <2>10, <2>11, <2>12 DEF Inv
<1>9. CASE ~(Len(all) < dev.len \/ dev.tx # None \/ Verified(all))
  <2>1. dev' = [dev EXCEPT !.rx = NoPacket, !.ubuf = all, !.state = "wait", !.ubuf = <<>>, !.tx = "one"]
    BY <1>2, <1>9
  <2>2. dev \in Processor
    BY DEF Inv, Typed
  <2>3. /\ dev' \in Processor
        /\ dev'.mode = dev.mode /\ dev'.state = "wait" /\ dev'.ubuf = <<>> /\ dev'.len = dev.len
        /\ dev'.cur = dev.cur /\ dev'.page = dev.page
        /\ dev'.tries = dev.tries /\ dev'.rx = NoPacket /\ dev'.tx = "one"
    BY <1>5, <2>1, <2>2, NoPacketIs DEF Processor
  <2>4. dev'.replying = dev.replying
    BY <2>1, <2>2 DEF Processor
  <2>5. dev'.rx.op = None
    BY <2>3, NoPacketIs
  <2>6. host.stage # "sending"
    BY <1>3, <1>5, <1>6, <1>9
  <2>7. Typed' /\ HostKnows' /\ UpdateKnown'
    BY <1>1, <2>3, <2>6 DEF Inv, Typed, HostKnows, UpdateKnown, Updating
  <2>8. LineKnown'
    BY <1>1, <1>7, <2>3, <2>5 DEF Inv, LineKnown, Updating, None
  <2>9. EraseKnown' /\ CommitKnown'
    BY <1>1, <1>7, <2>3 DEF EraseKnown, Erasing, CommitKnown
  <2>10. ReplyKnown'
    BY <1>7, <2>4, Zenon DEF ReplyKnown
  <2>11. FlashKnown' /\ StartKnown'
    BY <1>1, <1>7, <2>3, SameFlash DEF Inv, FlashKnown, StartKnown, Updating, Erasing, Exposed
  <2> QED BY <2>7, <2>8, <2>9, <2>10, <2>11 DEF Inv
<1> QED BY <1>8, <1>9

LEMMA Halves ==
  ASSUME NEW n \in Nat
  PROVE  2 * (n \div 2) \in Nat /\ 2 * (n \div 2) <= n
OBVIOUS

LEMMA Split ==
  ASSUME NEW s \in Seq(Byte), NEW im \in Images, s \in Seq(Own(im)), NEW k \in Nat, k <= Len(s)
  PROVE  /\ SubSeq(s, 1, k) \in Seq(Byte) /\ Len(SubSeq(s, 1, k)) = k
         /\ k > 0 => SubSeq(s, 1, k)[1] \in Own(im)
         /\ k = 0 => SubSeq(s, 1, k) = <<>>
         /\ Carry(s, k) \in Seq(Byte) /\ Carry(s, k) \in Seq(Own(im)) /\ Len(Carry(s, k)) = Len(s) - k
<1>1. SubSeq(s, 1, k) \in Seq(Byte) /\ Len(SubSeq(s, 1, k)) = k
  OBVIOUS
<1>2. ASSUME k > 0
      PROVE  SubSeq(s, 1, k)[1] \in Own(im)
  <2>1. 1 \in 1..Len(s) /\ SubSeq(s, 1, k)[1] = s[1]
    BY <1>2
  <2>2. \A S : s \in Seq(S) => s[1] \in S
    BY <2>1
  <2> QED BY <2>1, <2>2
<1>3. k = 0 => SubSeq(s, 1, k) = <<>>
  OBVIOUS
<1>4. Carry(s, k) \in Seq(Byte) /\ Len(Carry(s, k)) = Len(s) - k
  BY DEF Carry
<1>5. Carry(s, k) \in Seq(Own(im))
  BY DEF Carry
<1> QED BY <1>1, <1>2, <1>3, <1>4, <1>5

LEMMA ReceiveKeeps ==
  ASSUME Inv, Receive
  PROVE  Inv'
<1> DEFINE n == dev.len - dev.cur - Len(dev.ubuf)
<1> DEFINE got == IF dev.rx = NoPacket THEN <<>>
                  ELSE SubSeq(dev.rx.bytes, 1, Smaller(Len(dev.rx.bytes), n))
<1> DEFINE all == dev.ubuf \o got
<1> DEFINE even == 2 * (Len(all) \div 2)
<1> DEFINE cur == dev.cur + even
<1> DEFINE ends == Complete(cur, dev.len) /\ dev.tx = None
<1> DEFINE new == Written(app, dev.cur, SubSeq(all, 1, even))
<1>1. dev.mode = "boot" /\ Running /\ Updating /\ UNCHANGED <<boot, host, seen>>
  BY DEF Receive, Updating
<1>0. app' \in {new, app}
  BY DEF Receive
<1>2. LET ok == Verified(SubSeq(app', 1, dev.len))
          d  == [dev EXCEPT !.rx = NoPacket, !.cur = cur, !.ubuf = Carry(all, even)]
      IN  dev' = IF ~ends THEN d
                 ELSE [d EXCEPT !.state = "wait", !.ubuf = <<>>,
                                !.tx = IF ok THEN "zero" ELSE "one",
                                !.page = IF ok THEN dev.len ELSE 0]
  BY DEF Receive
<1>3. /\ n \in Int /\ Waiting <= n /\ dev.len \in Nat /\ dev.len = Size[host.im] /\ dev.len <= FlashSize
      /\ host.sent \in Nat /\ dev.cur \in Nat /\ dev.page \in Nat
  <2>1. /\ dev.cur + Len(dev.ubuf) + Waiting = host.sent /\ host.sent <= dev.len
        /\ dev.len \in Nat /\ Len(dev.ubuf) \in Nat /\ host.sent \in Nat /\ dev.len = Size[host.im]
        /\ dev.cur \in Nat /\ dev.len <= FlashSize /\ dev.page \in Nat
    BY <1>1, Fields DEF Inv, UpdateKnown
  <2>2. Waiting \in Nat
    BY <1>1, Fields, PacketKinds DEF Inv, Waiting
  <2> QED BY <2>1, <2>2
<1>4. Gathered(got, n)
  BY DEF Gathered
<1> HIDE DEF got, n
<1>5. /\ host.im \in Images
      /\ all \in Seq(Byte) /\ all \in Seq(Own(host.im))
      /\ Len(all) \in Nat /\ dev.cur + Len(all) = host.sent
      /\ host.sent <= dev.len /\ (host.stage = "sent" => host.sent = dev.len)
      /\ host.sent = dev.len => host.stage # "sending"
      /\ host.stage = "asked" => Len(all) = 0 /\ dev.len >= 0 /\ host.sent = 0
  BY <1>1, <1>3, <1>4, GatheredIs
<1> HIDE DEF all
<1>6. even \in Nat /\ even <= Len(all)
  BY <1>5, Halves
<1> HIDE DEF even
<1> DEFINE head == SubSeq(all, 1, even)
<1> DEFINE carry == Carry(all, even)
<1>7. /\ head \in Seq(Byte) /\ Len(head) = even
      /\ even > 0 => head[1] \in Own(host.im)
      /\ even = 0 => head = <<>>
      /\ carry \in Seq(Byte) /\ carry \in Seq(Own(host.im)) /\ Len(carry) = Len(all) - even
  BY <1>5, <1>6, Split
<1>8. /\ new \in [1..FlashSize -> Byte]
      /\ even = 0 => new = app
      /\ dev.cur > 0 => new[1] = app[1]
      /\ dev.cur = 0 /\ even > 0 => new[1] = head[1]
  <2> HIDE DEF head
  <2>1. app \in [1..FlashSize -> Byte] /\ new = Written(app, dev.cur, head)
    BY DEF Inv, Typed, head
  <2> HIDE DEF new
  <2> QED BY <1>3, <1>7, <2>1, WrittenIs, ZenonT(60)
<1> HIDE DEF new, head, carry
<1>9. app' \in [1..FlashSize -> Byte] /\ (even = 0 => app' = app)
      /\ app'[1] \in {app[1]} \cup Own(host.im)
  <2>1. app \in [1..FlashSize -> Byte]
    BY DEF Inv, Typed
  <2>2. new[1] \in {app[1]} \cup Own(host.im)
    <3>1. dev.cur \in Nat /\ even \in Nat
      BY <1>3, <1>6
    <3>2. CASE dev.cur > 0
      BY <1>8, <3>2
    <3>3. CASE even = 0
      BY <1>8, <3>3
    <3>4. CASE dev.cur = 0 /\ even > 0
      <4>1. new[1] = head[1] /\ head[1] \in Own(host.im)
        BY <1>7, <1>8, <3>4
      <4> QED BY <4>1
    <3> QED BY <3>1, <3>2, <3>3, <3>4
  <2>3. app' = new \/ app' = app
    BY <1>0
  <2>4. CASE app' = new
    BY <2>2, <2>4, <1>8
  <2>5. CASE app' = app
    BY <2>1, <2>5
  <2> QED BY <2>3, <2>4, <2>5
<1>10. cur \in Nat /\ cur + Len(carry) = host.sent /\ Len(carry) \in Nat /\ cur <= dev.len /\ dev.cur <= cur
  BY <1>3, <1>5, <1>6, <1>7
<1>11. /\ ~Erasing /\ dev.tries = 0 /\ dev.replying # TRUE /\ (boot \in Good \/ seen.torn \/ seen.gaveUp)
       /\ ~seen.late /\ ~seen.ran
  BY <1>1, RunningIs DEF Inv, LineKnown
<1>12. dev.len > 0 => dev.page > 0 /\ app[1] \in {Blank} \cup Own(host.im) /\ seen.acked = None
  BY <1>1, <1>3, <1>11 DEF Inv, FlashKnown, Erasing
<1>13. dev.len = 0 => app' = app /\ cur = 0
  BY <1>3, <1>5, <1>6, <1>9
<1>14. seen'.acked # None => seen'.acked \in Images /\ Holds(app', seen'.acked)
  <2>1. CASE dev.len > 0
    BY <1>1, <1>12, <2>1
  <2>2. CASE dev.len = 0
    BY <1>1, <1>13, <2>2, SameFlash DEF Inv, FlashKnown
  <2> QED BY <1>3, <2>1, <2>2
<1>15. dev \in Processor
  BY DEF Inv, Typed
<1>16. CASE ~ends
  <2>1. dev' = [dev EXCEPT !.rx = NoPacket, !.cur = cur, !.ubuf = carry]
    BY <1>2, <1>16 DEF carry
  <2>2. /\ dev' \in Processor
        /\ dev'.mode = dev.mode /\ dev'.state = dev.state /\ dev'.ubuf = carry /\ dev'.len = dev.len
        /\ dev'.cur = cur /\ dev'.page = dev.page
        /\ dev'.tries = dev.tries /\ dev'.rx = NoPacket /\ dev'.tx = dev.tx
    BY <1>7, <1>10, <1>15, <2>1, NoPacketIs DEF Processor
  <2>3. dev'.replying = dev.replying
    BY <1>15, <2>1 DEF Processor
  <2>4. dev'.rx.op = None
    BY <2>2, NoPacketIs
  <2>5. Typed' /\ HostKnows'
    BY <1>1, <1>9, <2>2 DEF Inv, Typed, HostKnows, Updating
  <2>6. UpdateKnown'
    <3>1. Waiting' = 0
      BY <2>4 DEF Waiting, None
    <3>2. dev'.cur + Len(dev'.ubuf) + Waiting' = host'.sent
      BY <1>1, <1>10, <2>2, <3>1
    <3> QED BY <1>1, <1>5, <1>7, <2>2, <3>2 DEF Inv, UpdateKnown, Updating
  <2>7. LineKnown'
    BY <1>1, <1>11, <2>2, <2>4 DEF Inv, LineKnown, Updating, None
  <2>8. EraseKnown' /\ CommitKnown'
    BY <1>1, <1>11, <2>2 DEF EraseKnown, Erasing, CommitKnown
  <2>9. ReplyKnown'
    BY <1>11, <2>3, Zenon DEF ReplyKnown
  <2>10. FlashKnown'
    <3>2. dev'.tx # "zero"
      BY <1>1, <2>2 DEF Inv, UpdateKnown, None
    <3>3. dev'.page > 0 => app'[1] \in {Blank} \cup Own(host.im) /\ seen.acked = None
      BY <1>1, <1>3, <1>9, <2>2 DEF Inv, FlashKnown
    <3> QED BY <1>1, <1>14, <3>2, <3>3 DEF FlashKnown
  <2>11. StartKnown'
    <3>1. CASE cur = 0
      <4>1. even = 0 /\ dev.cur = 0
        BY <1>3, <1>6, <3>1
      <4>2. app' = app
        BY <1>9, <4>1
      <4>3. Whole(app) \/ BlankStart \/ seen.cut
        BY <1>1, <4>1 DEF Inv, StartKnown, Exposed, Updating
      <4>4. dev.page > 0 => BlankStart
        BY <1>1, <4>1 DEF Inv, StartKnown
      <4> QED BY <1>1, <2>2, <4>2, <4>3, <4>4, SameFlash DEF StartKnown
    <3>2. CASE cur # 0
      <4>1. Exposed'
        BY <1>1, <1>10, <2>2, <3>2 DEF Exposed, Updating
      <4> QED BY <1>1, <1>10, <1>11, <2>2, <3>2, <4>1 DEF StartKnown, Updating, Erasing
    <3> QED BY <3>1, <3>2
  <2> QED BY <2>5, <2>6, <2>7, <2>8, <2>9, <2>10, <2>11 DEF Inv
<1>17. CASE ends
  <2> DEFINE ok == Verified(SubSeq(app', 1, dev.len))
  <2> DEFINE tx == IF ok THEN "zero" ELSE "one"
  <2> DEFINE page == IF ok THEN dev.len ELSE 0
  <2>1. dev' = [dev EXCEPT !.rx = NoPacket, !.cur = cur, !.ubuf = carry, !.state = "wait", !.ubuf = <<>>,
                           !.tx = tx, !.page = page]
    BY <1>2, <1>17 DEF carry
  <2>2. tx \in {"zero", "one"} /\ (tx = "zero" <=> ok) /\ (ok => page = dev.len) /\ (~ok => page = 0)
        /\ page \in Nat
    BY <1>3
  <2>3. ok => /\ dev.len > 0 /\ Whole(app')
              /\ \E im \in Good : dev.len = Size[im] /\ Holds(app', im) /\ app'[1] = <<im, 1>>
    BY <1>3, <1>9, Verdict DEF Verified, Whole
  <2> HIDE DEF tx, page, ok
  <2>4. /\ dev' \in Processor
        /\ dev'.mode = dev.mode /\ dev'.state = "wait" /\ dev'.ubuf = <<>> /\ dev'.len = dev.len
        /\ dev'.cur = cur /\ dev'.page = page
        /\ dev'.tries = dev.tries /\ dev'.rx = NoPacket /\ dev'.tx = tx
    <3>1. tx \in {None, "okay", "badCommand", "outOfFlash", "outOfSram", "zero", "one"}
      BY <2>2
    <3> QED BY <1>7, <1>10, <1>15, <2>1, <2>2, <3>1, NoPacketIs DEF Processor
  <2>5. dev'.replying = dev.replying
    BY <1>15, <2>1 DEF Processor
  <2>6. dev'.rx.op = None
    BY <2>4, NoPacketIs
  <2>7. cur = dev.len /\ host.sent = dev.len /\ host.stage # "sending"
    BY <1>3, <1>5, <1>10, <1>17 DEF Complete
  <2>8. Typed' /\ HostKnows' /\ UpdateKnown'
    BY <1>1, <1>9, <2>2, <2>4, <2>7 DEF Inv, Typed, HostKnows, UpdateKnown, Updating
  <2>9. LineKnown'
    BY <1>1, <1>11, <2>4, <2>6 DEF Inv, LineKnown, Updating, None
  <2>10. EraseKnown' /\ CommitKnown'
    BY <1>1, <1>3, <1>11, <2>4 DEF EraseKnown, Erasing, CommitKnown, Updating
  <2>11. ReplyKnown'
    BY <1>11, <2>5, Zenon DEF ReplyKnown
  <2>12. FlashKnown'
    <3>1. ok => Holds(app', host.im) /\ host.stage = "sent"
      <4> SUFFICES ASSUME ok
                   PROVE  Holds(app', host.im) /\ host.stage = "sent"
        OBVIOUS
      <4>1. PICK im \in Good : Holds(app', im) /\ app'[1] = <<im, 1>>
        BY <2>3
      <4>2. im \in Images /\ None \notin Images
        BY Numbers
      <4>3. app'[1] \in {Blank} \cup Own(host.im)
        BY <1>9, <1>12, <2>3
      <4>4. im = host.im
        BY <4>1, <4>2, <4>3 DEF Blank, Own
      <4>5. host.stage # "asked"
        BY <1>3, <1>5, <2>3, <2>7
      <4> QED BY <1>1, <2>7, <4>1, <4>4, <4>5 DEF Inv, UpdateKnown
    <3>2. ok => ~Erasing'
      BY <1>3, <2>2, <2>4 DEF Erasing
    <3> QED BY <1>1, <1>14, <2>2, <2>4, <3>1, <3>2 DEF FlashKnown, Updating
  <2>13. StartKnown'
    <3>1. CASE ok
      <4>1. ~Erasing'
        BY <1>3, <2>2, <2>4, <3>1 DEF Erasing
      <4> QED BY <1>1, <2>3, <2>4, <3>1, <4>1 DEF StartKnown, Updating
    <3>2. CASE ~ok /\ dev.len > 0
      <4>1. Exposed'
        BY <1>1, <2>2, <2>4, <3>2 DEF Exposed, Erasing
      <4> QED BY <1>1, <2>2, <2>4, <3>2, <4>1 DEF StartKnown
    <3>3. CASE ~ok /\ dev.len = 0
      <4>1. app' = app /\ dev.cur = 0
        BY <1>3, <1>10, <1>13, <3>3
      <4>2. Whole(app) \/ BlankStart \/ seen.cut
        BY <1>1, <4>1 DEF Inv, StartKnown, Exposed, Updating
      <4> QED BY <1>1, <2>2, <2>4, <3>3, <4>1, <4>2, SameFlash DEF StartKnown
    <3> QED BY <1>3, <3>1, <3>2, <3>3
  <2> QED BY <2>8, <2>9, <2>10, <2>11, <2>12, <2>13 DEF Inv
<1> QED BY <1>16, <1>17

-----------------------------------------------------------------------------
(* The theorems. *)

LEMMA Step ==
  ASSUME Inv, [Next]_vars
  PROVE  Inv'
<1>1. CASE Device
  BY <1>1, UpdateKeeps, SwitchKeeps, MisreadKeeps, EraseKeeps, ReceiveKeeps, CollectKeeps,
     CommitEraseKeeps, CommitWriteKeeps DEF Device
<1>2. CASE Host
  BY <1>2, AcknowledgedKeeps, SendKeeps, InformedKeeps DEF Host
<1>3. CASE Request \/ GiveUp \/ Watchdog \/ PowerLoss \/ PowerOn
  BY <1>3, RequestKeeps, GiveUpKeeps, WatchdogKeeps, PowerLossKeeps, PowerOnKeeps
<1>4. CASE UNCHANGED vars
  <2>1. UNCHANGED <<app, boot, dev, host, seen>>
    BY <1>4 DEF vars
  <2>2. Typed' /\ HostKnows' /\ UpdateKnown' /\ LineKnown'
    BY <2>1 DEF Inv, Typed, HostKnows, UpdateKnown, LineKnown, Updating, Waiting
  <2>3. EraseKnown' /\ ReplyKnown' /\ CommitKnown'
    BY <2>1 DEF Inv, EraseKnown, ReplyKnown, CommitKnown, Updating, Erasing, Committing
  <2>4. FlashKnown' /\ StartKnown'
    BY <2>1, SameFlash DEF Inv, FlashKnown, StartKnown, Updating, Erasing, Exposed
  <2> QED BY <2>2, <2>3, <2>4 DEF Inv
<1> QED BY <1>1, <1>2, <1>3, <1>4 DEF Next

THEOREM UpdateInvariant == Spec => []Inv
<1>1. Init => Inv
  BY Initially
<1>2. Inv /\ [Next]_vars => Inv'
  BY Step
<1> QED BY <1>1, <1>2, PTL DEF Spec

\* A status of 0 after an update means that the image is in flash, all of it, until the
\* next update erases it, for images, pages and packets of any size (fw_update.c,
\* update_continue).
THEOREM AckMeansImageAlways == Spec => []AckMeansImage
<1>1. Inv => AckMeansImage
  BY DEF Inv, FlashKnown, AckMeansImage
<1> QED BY <1>1, UpdateInvariant, PTL

\* Nothing but a whole image is run unless an update was cut short after its first byte;
\* the bootloader is lost only to a power failure while it is written or to three failed
\* writes; no byte of an image is run as a command unless the watchdog ended its update.
THEOREM RunsWholeAlways == Spec => []RunsWhole
<1>1. Inv => RunsWhole
  <2> SUFFICES ASSUME Inv
               PROVE  RunsWhole
    OBVIOUS
  <2>1. dev.mode = "hung" => seen.cut
    BY DEF Inv, StartKnown
  <2>2. boot \notin Good /\ ~Committing => seen.torn \/ seen.gaveUp
    BY DEF Inv, CommitKnown
  <2>3. seen.ran => seen.late
    BY DEF Inv, LineKnown
  <2> QED BY <2>1, <2>2, <2>3 DEF RunsWhole
<1> QED BY <1>1, UpdateInvariant, PTL
=============================================================================
