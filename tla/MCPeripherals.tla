----------------------------- MODULE MCPeripherals -----------------------------
(* The four drives on small media, and the ULA on a small picture.            *)
EXTENDS Peripherals, TLC

-----------------------------------------------------------------------------
(* Beta Disk: a two-sided and a one-sided disk of one track.                 *)

BetaDisks ==
    {[sides |-> 2, sectors |-> (<<0, 0, 0>> :> <<1, 1>>) @@ (<<0, 0, 1>> :> <<1, 0>>)],
     [sides |-> 1, sectors |-> (<<0, 0, 0>> :> <<1, 1>>)]}

(* While a track is written, marks, the name of sector 1 and its data.       *)
BetaBytes ==
    [due \in DueNames |-> CASE due \in {"any", "record", "data"} -> {1}
                           [] due = "hunt" -> {0, 1}
                           [] OTHER -> {0}]

Word(drive, run, side, zero) ==
    [drive |-> drive, run |-> run, side |-> side, zero |-> zero]

BetaWords ==
    {Word(0, TRUE, 0, FALSE), Word(1, TRUE, 1, FALSE), Word(0, FALSE, 0, FALSE)}

NoCheckBytes == <<>>

(* What is left of a controller and of the bytes it has handed out: its other  *)
(* fields are set before they are looked at again.                            *)
BetaView ==
    LET c == [vg93 EXCEPT !.multiple = @ /\ vg93.xfer \in {"read", "write"}]
        d == IF c.xfer = "writeTrack" THEN c
             ELSE [c EXCEPT !.parse = Hunt, !.id = NoId, !.done = 0]
    IN  CASE c.xfer = "idle" ->
                [d EXCEPT !.intrq = FALSE, !.buffer = <<>>, !.at = 0, !.typeI = TRUE,
                          !.status = @ \cap {"busy", "drq"}]
          [] c.xfer \in {"read", "address"} ->
                [d EXCEPT !.buffer = SubSeq(@, c.at + 1, Len(@)), !.at = 0]
          [] OTHER -> d

-----------------------------------------------------------------------------
(* +3: a one-sided disk with two sectors of one name, and a two-sided one.   *)

Sector(side, data) == [id |-> 1, side |-> side, data |-> data]

TwoPlus3Disks ==
    {[sides |-> 1,
      tracks |-> <<0, 0>> :> <<Sector(0, <<1, 0>>), Sector(1, <<0>>)>>],
     [sides |-> 2,
      tracks |-> (<<0, 0>> :> <<Sector(0, <<0, 0>>)>>)
                    @@ (<<0, 1>> :> <<Sector(1, <<1, 0>>)>>)]}

Plus3View ==
    [fdc EXCEPT !.errors = {}, !.interrupt = (@ = Plus3!NoInterrupt)]

-----------------------------------------------------------------------------
(* The cards: no card and one of two blocks, and two cards.                  *)

Blocks == <<<<0, 1>>, <<1, 0>>>>

NoCardOrBlocks == {<<>>, Blocks}

OneBlockOrTwo == {<<<<1, 1>>>>, Blocks}

-----------------------------------------------------------------------------
(* The ULA: two lines of one cell under one attribute, in a frame of 16       *)
(* T-states.  A byte tells which bank it is in.                            *)

PictureBytes == 5 :> {0, 1} @@ 7 :> {2, 3}

PictureCells ==
    {<<"bitmap", 0, 0>>, <<"bitmap", 1, 0>>, <<"attr", 0, 0>>}

PictureContents ==
    {5 :> low @@ 7 :> high :
        low \in [PictureCells -> {0}], high \in [PictureCells -> {2}]}

ShortWrites == {[at |-> 1, len |-> 3]}

ShortOuts == {[at |-> 1, len |-> 4]}

(* The two bytes of a cell are alike, so what it holds does not matter; of a  *)
(* frame that will not be compared nothing the ULA noted does; of the others  *)
(* only which points are wrong so far and which cells have a note already.    *)
PictureView ==
    LET compared == phase \in {"frame", "drawn"} /\ scan.whole
    IN  <<port, frame_t, pending_screen_switch, border, ula.display_screen_bank, phase,
          [scan EXCEPT !.seen =
              {p \in DOMAIN @ : compared /\ @[p] # Rendered(p)}],
          [b \in Banks |-> IF compared THEN DOMAIN ula.beam[b] ELSE {}]>>

-----------------------------------------------------------------------------
(* A device that is not looked at starts in one state.                        *)
MCInit ==
    /\ BoardInit
    /\ attached # "divMmc" => mmc.image = <<>>
    /\ attached # "nextSd" => sd.image = Blocks
    /\ attached # "ula" => border = 0

MCSpec == MCInit /\ [][BoardNext]_board

View == <<attached, BetaView, Plus3View, mmc, sd, PictureView>>

=============================================================================
