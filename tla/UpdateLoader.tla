---------------------------- MODULE UpdateLoader ----------------------------
(***************************************************************************)
(* Updating the two programs in flash.  The update bootloader (fw_update.c)   *)
(* erases and writes the main firmware as the image arrives and checks its     *)
(* CRC afterwards; the main firmware (floppy.c, "BOOTLOADER UPDATE") collects  *)
(* a new bootloader in RAM and checks it before it erases the old one.         *)
(* The power may fail between any two steps.                                 *)
(*                                                                         *)
(* Simplifications.                                                        *)
(*  - Byte i of image im is <<im, i>>; a CRC is right iff the bytes are those  *)
(*    of one good image, all of them and in order.  A word is two bytes.       *)
(*  - A command is one packet.  The host drains the line when it gives up,     *)
(*    which it does with clear-comms or a bus reset: both end in configure().  *)
(*  - An image that is not whole, once started, does nothing but hang.         *)
(*  - A write may fail; in the bootloader's flash it fails as a whole.         *)
(***************************************************************************)
EXTENDS Integers, Sequences, FiniteSets

CONSTANTS
  Good,        \* images with a right CRC
  Images,      \* all images
  Size,        \* Size[im]: bytes of image im
  FlashSize,   \* bytes of flash for the main firmware
  PageSize,    \* bytes of an erased page
  BL_SIZE,     \* bytes of flash for the bootloader
  U_BUF_SZ,    \* bytes of the main firmware's buffer
  MaxPacket    \* bytes of a packet

\* The CRC of nothing is not right (it starts at 0xffff), a page holds the first word,
\* and the bootloader is smaller than what is left of the flash.
ASSUME SizeAssumption ==
  /\ Good \subseteq Images /\ "none" \notin Images
  /\ Size \in [Images -> Nat] /\ \A im \in Good : Size[im] > 0
  /\ FlashSize \in Nat /\ PageSize \in Nat /\ 2 <= PageSize /\ PageSize <= FlashSize
  /\ FlashSize % PageSize = 0
  /\ BL_SIZE \in Nat /\ BL_SIZE <= FlashSize /\ U_BUF_SZ \in Nat /\ MaxPacket \in Nat \ {0}

VARIABLES
  app,     \* the main firmware's flash, byte by byte
  boot,    \* the image in the bootloader's flash, None if it is torn
  dev,     \* the processor: its program, its update, its endpoints
  host,    \* the host's update
  seen     \* history: cut (an update cut short after its first byte), torn (the
           \* power failed while a bootloader was written), gaveUp (three writes of
           \* one failed), late (the watchdog ended an update), ran (image bytes
           \* taken for a command), acked (the image reported as installed)

vars == <<app, boot, dev, host, seen>>

None == "none"
NoPacket == [op |-> None]
Blank == <<None, 0>>
Bytes(im) == [i \in 1..Size[im] |-> <<im, i>>]
CrcOk(bytes) == \E im \in Good : bytes = Bytes(im)
Holds(flash, im) == SubSeq(flash, 1, Size[im]) = Bytes(im)
Whole(flash) == \E im \in Good : Holds(flash, im)

Off == [mode |-> "off", state |-> "wait", ubuf |-> <<>>, len |-> 0, cur |-> 0, page |-> 0,
        replying |-> FALSE, tries |-> 0, rx |-> NoPacket, tx |-> None]
Idle == [stage |-> "idle", im |-> None, sent |-> 0]

\* main() of either program's reset: the bootloader starts the main firmware unless
\* it was asked to stay, is strapped, or finds no stack pointer in the first word.
Started(requested, strapped) ==
  IF boot \notin Good THEN "dead"
  ELSE IF requested \/ strapped \/ (app[1] = Blank /\ app[2] = Blank) THEN "boot"
  ELSE IF Whole(app) THEN "main" ELSE "hung"
Restart(requested, strapped) ==
  dev' = [Off EXCEPT !.mode = Started(requested, strapped)]

Init ==
  /\ \E im \in Good :
       /\ Size[im] <= FlashSize
       /\ app = Bytes(im) \o [i \in 1..(FlashSize - Size[im]) |-> Blank]
  /\ boot \in Good
  /\ dev = [Off EXCEPT !.mode = "main"] /\ host = Idle
  /\ seen = [cut |-> FALSE, torn |-> FALSE, gaveUp |-> FALSE, late |-> FALSE, ran |-> FALSE,
             acked |-> None]

Smaller(a, b) == IF a < b THEN a ELSE b
Erasing == dev.page < dev.len
Committing == dev.mode = "main" /\ dev.tries > 0
Running == dev.mode \in {"boot", "main"} /\ ~Erasing /\ ~Committing

(*---------------------------------- commands ------------------------------*)
\* update_prep() of the bootloader: erases, and only then answers.
LoaderPrep(len) ==
  IF len % 2 # 0 THEN [dev EXCEPT !.rx = NoPacket, !.tx = "badCommand"]
  ELSE IF len > FlashSize THEN [dev EXCEPT !.rx = NoPacket, !.tx = "outOfFlash"]
  ELSE [dev EXCEPT !.rx = NoPacket, !.state = "update", !.cur = 0, !.len = len, !.page = 0,
                   !.replying = len > 0, !.tx = IF len > 0 THEN None ELSE "okay"]
\* update_prep() of the main firmware.
MainPrep(len) ==
  IF len % 2 # 0 \/ len > BL_SIZE THEN [dev EXCEPT !.rx = NoPacket, !.tx = "badCommand"]
  ELSE IF len > U_BUF_SZ THEN [dev EXCEPT !.rx = NoPacket, !.tx = "outOfSram"]
  ELSE [dev EXCEPT !.rx = NoPacket, !.state = "update", !.len = len, !.page = len, !.tx = "okay"]

\* CMD_UPDATE
Update ==
  /\ Running /\ dev.state = "wait" /\ dev.rx # NoPacket /\ dev.tx = None
  /\ dev.rx.op = "update"
  /\ dev' = IF dev.mode = "boot" THEN LoaderPrep(dev.rx.len) ELSE MainPrep(dev.rx.len)
  /\ UNCHANGED <<app, boot, host, seen>>

\* CMD_SWITCH_FW_MODE into the other program: the USB connection goes.
Switch ==
  /\ Running /\ dev.state = "wait" /\ dev.rx # NoPacket /\ dev.tx = None
  /\ dev.rx.op = "switch"
  /\ Restart(dev.mode = "main", FALSE)
  /\ host' = Idle
  /\ UNCHANGED <<app, boot, seen>>

\* What is left of an image after the watchdog: some command, mostly a bad one; the
\* first byte of its answer is the image's own.
Misread ==
  /\ Running /\ dev.state = "wait" /\ dev.rx # NoPacket /\ dev.tx = None
  /\ dev.rx.op = "data"
  /\ \E answer \in {"zero", "one"} : dev' = [dev EXCEPT !.rx = NoPacket, !.tx = answer]
  /\ seen' = [seen EXCEPT !.ran = TRUE]
  /\ UNCHANGED <<app, boot, host>>

(*------------------------- the bootloader's update ------------------------*)
EraseFromEnd(page, len) ==                                 \* mutant
  {i \in 1..FlashSize : i > len - page - PageSize /\ i <= len - page}
\* erase_old_firmware(): the page with the stack pointer first.
ErasedPage(page, len) == (page + 1)..(page + PageSize)
Erase ==
  /\ dev.mode = "boot" /\ Erasing
  /\ app' = [i \in 1..FlashSize |-> IF i \in ErasedPage(dev.page, dev.len) THEN Blank ELSE app[i]]
  /\ LET page == dev.page + PageSize
     IN  dev' = [dev EXCEPT !.page = page,
                            !.replying = @ /\ page < dev.len,
                            !.tx = IF dev.replying /\ page >= dev.len THEN "okay" ELSE @]
  /\ seen' = [seen EXCEPT !.cut = FALSE, !.acked = None]
  /\ UNCHANGED <<boot, host>>

DropCarry(bytes, n) == <<>>                                \* mutant
Carry(bytes, n) == SubSeq(bytes, n + 1, Len(bytes))
\* fpec_write(): halfwords, into erased flash.
Written(flash, at, bytes) ==
  [i \in 1..FlashSize |-> IF i > at /\ i <= at + Len(bytes) THEN bytes[i - at] ELSE flash[i]]
ZeroCrc(bytes) == bytes # <<>>                             \* mutant
Verified(bytes) == CrcOk(bytes)

Complete(cur, len) == cur >= len

\* update_continue() of the bootloader: reads, writes what is even, and after the
\* last byte answers, and erases what has failed.
Receive ==
  /\ dev.mode = "boot" /\ Running /\ dev.state = "update"
  /\ dev.rx # NoPacket \/ (Complete(dev.cur, dev.len) /\ dev.tx = None)
  /\ LET got   == IF dev.rx = NoPacket THEN <<>>
                  ELSE SubSeq(dev.rx.bytes, 1,
                         Smaller(Len(dev.rx.bytes), dev.len - dev.cur - Len(dev.ubuf)))
         ubuf  == dev.ubuf \o got
         even  == 2 * (Len(ubuf) \div 2)
         cur   == dev.cur + even
         ends  == Complete(cur, dev.len) /\ dev.tx = None
     IN  \E flash \in {Written(app, dev.cur, SubSeq(ubuf, 1, even)), app} :
         /\ app' = flash
         /\ LET ok == Verified(SubSeq(flash, 1, dev.len))
                d  == [dev EXCEPT !.rx = NoPacket, !.cur = cur, !.ubuf = Carry(ubuf, even)]
            IN  dev' = IF ~ends THEN d
                       ELSE [d EXCEPT !.state = "wait", !.ubuf = <<>>,
                                      !.tx = IF ok THEN "zero" ELSE "one",
                                      !.page = IF ok THEN dev.len ELSE 0]
  /\ UNCHANGED <<boot, host, seen>>

(*----------------------- the main firmware's update -----------------------*)
\* update_continue() of the main firmware: nothing is touched before the CRC.
Collect ==
  /\ dev.mode = "main" /\ Running /\ dev.state = "update"
  /\ dev.rx # NoPacket \/ Len(dev.ubuf) >= dev.len
  /\ LET got  == IF dev.rx = NoPacket THEN <<>>
                 ELSE SubSeq(dev.rx.bytes, 1,
                        Smaller(Len(dev.rx.bytes), dev.len - Len(dev.ubuf)))
         ubuf == dev.ubuf \o got
         d    == [dev EXCEPT !.rx = NoPacket, !.ubuf = ubuf]
     IN  dev' = IF Len(ubuf) < dev.len \/ dev.tx # None THEN d
                ELSE IF Verified(ubuf) THEN [d EXCEPT !.tries = 1]
                ELSE [d EXCEPT !.state = "wait", !.ubuf = <<>>, !.tx = "one"]
  /\ UNCHANGED <<app, boot, host, seen>>

Retry(tries) == tries < 3
\* erase_old_bootloader() ...
CommitErase ==
  /\ Committing /\ boot # None
  /\ boot' = None
  /\ UNCHANGED <<app, dev, host, seen>>
\* ... fpec_write() and the CRC of what is in flash.
CommitWrite ==
  /\ Committing /\ boot = None
  /\ \E ok \in BOOLEAN :
       /\ boot' = IF ok THEN dev.ubuf[1][1] ELSE None
       /\ LET d == [dev EXCEPT !.state = "wait", !.ubuf = <<>>, !.tries = 0]
          IN  dev' = IF ok THEN [d EXCEPT !.tx = "zero"]
                     ELSE IF Retry(dev.tries) THEN [dev EXCEPT !.tries = @ + 1]
                     ELSE [d EXCEPT !.tx = "one"]
       /\ seen' = [seen EXCEPT !.gaveUp = @ \/ (~ok /\ dev.tries = 3)]
  /\ UNCHANGED <<app, host>>

(*------------------------ power, watchdog and the host ----------------------*)
\* Flash that has been written since its first page was blank, and is not verified.
Exposed ==
  /\ dev.mode = "boot"
  /\ \/ dev.state = "update" /\ dev.cur > 0
     \/ dev.state = "wait" /\ Erasing /\ dev.page = 0
PowerLoss ==
  /\ dev.mode # "off"
  /\ dev' = Off /\ host' = Idle
  /\ seen' = [seen EXCEPT !.cut = @ \/ Exposed, !.torn = @ \/ Committing, !.late = FALSE, !.ran = FALSE]
  /\ UNCHANGED <<app, boot>>
PowerOn ==
  /\ dev.mode = "off"
  /\ \E strapped \in BOOLEAN : Restart(FALSE, strapped)
  /\ UNCHANGED <<app, boot, host, seen>>

\* floppy_configure(), update_configure()
Configured(d) == [d EXCEPT !.state = "wait", !.ubuf = <<>>, !.rx = NoPacket, !.tx = None]
GiveUp ==
  /\ Running /\ host.stage # "idle"
  /\ dev' = Configured(dev) /\ host' = Idle
  /\ seen' = [seen EXCEPT !.cut = @ \/ Exposed]
  /\ UNCHANGED <<app, boot>>
\* The main firmware's 10 s command watchdog runs while an image is received.
Watchdog ==
  /\ dev.mode = "main" /\ Running /\ dev.state = "update"
  /\ dev' = [dev EXCEPT !.state = "wait", !.ubuf = <<>>]
  /\ seen' = [seen EXCEPT !.late = TRUE]
  /\ UNCHANGED <<app, boot, host>>

\* The length that is announced: the image's, an odd one, or too many.
Announced(im) == {Size[im], 3, FlashSize + 2}
Request ==
  /\ Running /\ host.stage = "idle" /\ dev.rx = NoPacket /\ dev.tx = None
  /\ \/ \E im \in Images : \E len \in Announced(im) :
          /\ dev' = [dev EXCEPT !.rx = [op |-> "update", len |-> len]]
          /\ host' = [stage |-> "asked", im |-> im, sent |-> 0]
     \/ /\ dev' = [dev EXCEPT !.rx = [op |-> "switch"]]
        /\ host' = [Idle EXCEPT !.stage = "left"]
  /\ seen' = [seen EXCEPT !.late = FALSE, !.ran = FALSE]
  /\ UNCHANGED <<app, boot>>

Acknowledged ==
  /\ host.stage = "asked" /\ dev.tx # None
  /\ dev' = [dev EXCEPT !.tx = None]
  /\ host' = IF dev.tx # "okay" THEN Idle
             ELSE [host EXCEPT !.stage = IF Size[host.im] = 0 THEN "sent" ELSE "sending"]
  /\ UNCHANGED <<app, boot, seen>>

Send ==
  /\ host.stage = "sending" /\ dev.rx = NoPacket
  /\ \E n \in 1..Smaller(MaxPacket, Size[host.im] - host.sent) :
       /\ dev' = [dev EXCEPT !.rx =
            [op |-> "data", bytes |-> SubSeq(Bytes(host.im), host.sent + 1, host.sent + n)]]
       /\ host' = [host EXCEPT !.sent = @ + n,
                               !.stage = IF host.sent + n = Size[host.im] THEN "sent" ELSE @]
  /\ UNCHANGED <<app, boot, seen>>

\* The status byte.
Informed ==
  /\ host.stage = "sent" /\ dev.tx # None
  /\ dev' = [dev EXCEPT !.tx = None] /\ host' = Idle
  /\ seen' = [seen EXCEPT !.acked =
                IF dev.tx = "zero" /\ dev.mode = "boot" THEN host.im ELSE @]
  /\ UNCHANGED <<app, boot>>

Device == Update \/ Switch \/ Misread \/ Erase \/ Receive \/ Collect \/ CommitErase \/ CommitWrite
Host == Acknowledged \/ Send \/ Informed
Next == Device \/ Host \/ Request \/ GiveUp \/ Watchdog \/ PowerLoss \/ PowerOn

\* The main loop turns, the host goes on with what it has begun.
Spec == Init /\ [][Next]_vars /\ WF_vars(Device) /\ WF_vars(Host)

(*------------------------------- properties -------------------------------*)
\* A status of 0 means that the image is in flash, all of it, until the next update
\* erases it: across power failures, restarts and refused updates.
AckMeansImage == seen.acked # None => Holds(app, seen.acked)

\* Nothing but a whole image is run.  The main firmware is started only whole, unless
\* an update was cut short after its first byte: a power failure while pages are
\* erased, a CRC that fails, and a refused length all leave the old image or the
\* bootloader.  "Validate the new bootloader before erasing the existing one!": the
\* bootloader is lost only to a power failure while it is written, or to three writes
\* that failed.  And the bytes of an image are never run as commands, unless the
\* watchdog has ended its update.
RunsWhole ==
  /\ dev.mode = "hung" => seen.cut
  /\ boot \notin Good /\ ~Committing => seen.torn \/ seen.gaveUp
  /\ seen.ran => seen.late

\* An update that is asked for comes to its end, whatever the sizes of the packets,
\* unless the watchdog has ended it.
UpdateEnds == host.stage \in {"asked", "sending", "sent"} ~> host.stage = "idle" \/ seen.late
=============================================================================
