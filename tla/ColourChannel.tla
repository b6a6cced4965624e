----------------------------- MODULE ColourChannel -----------------------------
(* The screen and the camera of LAB1: the sender program shows one colour until a *)
(* key is pressed, again and again, and what is behind it is in view in between;   *)
(* the receiver decodes frame after frame until one symbol has been read in        *)
(* stableFrames frames in a row.  A frame taken while a colour comes or goes shows *)
(* a mixture, and that may last for several frames.  One sender runs at a time, it *)
(* fills the middle of the picture, and what is behind it stays the same.          *)
(* Components of a colour, blue, green, red, are in units of 15, so that 255 is 17 *)
(* and the threshold of 120 is 8; those of a frame are in units of 15 / Parts.     *)
EXTENDS Integers, Sequences, SequencesExt

CONSTANTS
    ColourScheme,   \* schemes to try, of "binary" and "octal"
    Backgrounds,    \* what the camera may see while no sender runs
    StableFrames,   \* options.stableFrames
    Parts,
    Weights         \* parts of the old colour in a frame

White == 17

ASSUME ColourAssumption ==
    /\ ColourScheme \subseteq {"binary", "octal"}
    /\ Backgrounds \subseteq (0 .. White) \X (0 .. White) \X (0 .. White)
    /\ StableFrames \in Nat \ {0}
    /\ Parts \in Nat \ {0}
    /\ Weights \subseteq 0 .. Parts

VARIABLES
    colourScheme,
    background,
    panel,          \* <<symbol before, symbol now>> on the screen, or Idle
    seen,           \* symbols the last StableFrames frames took part in
    lastDecoded, stableCount,
    colourRead      \* what receive returned, Unread before

colourVars == <<colourScheme, background, panel, seen, lastDecoded, stableCount,
                colourRead>>

Unread == -2
NotRead == -1
Idle == -1

\* octalPalette.
Palette == <<<<0, 0, 0>>, <<White, White, White>>, <<0, 0, White>>, <<White, 0, 0>>,
             <<0, White, 0>>, <<White, 0, White>>, <<0, White, White>>,
             <<White, White, 0>>>>

\* encode of either scheme.
ColourOf(scheme, msg) ==
    IF scheme = "octal" THEN Palette[msg + 1] ELSE Palette[IF msg = 1 THEN 1 ELSE 2]

Symbol(scheme) == IF scheme = "octal" THEN 0 .. 7 ELSE 0 .. 1

Square(x) == x * x

\* The square of colorDistance(c, palette[m]), in a frame.
Away2(c, m) ==
    LET p == Palette[m + 1]
    IN  Square(c[1] - Parts * p[1]) + Square(c[2] - Parts * p[2])
            + Square(c[3] - Parts * p[3])

\* binary::decode, a luminance below 128, and octal::decode, the first of the
\* nearest colours of the palette unless it is more than 120 away.
Luminance(c) == 114 * c[1] + 587 * c[2] + 299 * c[3]
DecodeBinary(c) == IF 15 * Luminance(c) < Parts * (128 * 1000) THEN 1 ELSE 0

Nearest(c) ==
    LET away == [m \in 0 .. 7 |-> Away2(c, m)]
        least == Min({away[m] : m \in 0 .. 7})
    IN  Min({m \in 0 .. 7 : away[m] = least})

Mutant_NearEnough(c, m) == TRUE
NearEnough(c, m) == Away2(c, m) <= Square(8 * Parts)

DecodeOctal(c) ==
    LET m == Nearest(c)
    IN  IF NearEnough(c, m) THEN m ELSE NotRead

DecodeColour(c) == IF colourScheme = "octal" THEN DecodeOctal(c) ELSE DecodeBinary(c)

ColourStart(scheme, behind) ==
    /\ colourScheme = scheme
    /\ background = behind
    /\ panel = <<Idle, Idle>>
    /\ seen = <<>>
    /\ lastDecoded = Unread
    /\ stableCount = 0
    /\ colourRead = Unread

ColourInit ==
    \E scheme \in ColourScheme, behind \in Backgrounds : ColourStart(scheme, behind)

\* What is on the screen changes, when the last change is over.
Change(symbol) ==
    /\ colourRead = Unread
    /\ panel[1] = panel[2]
    /\ panel' = <<panel[2], symbol>>
    /\ UNCHANGED <<colourScheme, background, seen, lastDecoded, stableCount, colourRead>>

\* sendWithCodec in screen mode: a window appears, and a key takes it away.
ShowColour(msg) == panel[2] = Idle /\ Change(msg)
HideColour == panel[2] # Idle /\ Change(Idle)

InView(symbol) == IF symbol = Idle THEN background ELSE ColourOf(colourScheme, symbol)

\* `weight` of the parts of a frame are of what was in view before.
Mixture(weight) ==
    [i \in 1 .. 3 |-> weight * InView(panel[1])[i]
                      + (Parts - weight) * InView(panel[2])[i]]

\* The background is of one of the two bits, or it is at most 136 away from a colour
\* of the palette, so that mixtures of it and a colour at right angles come as near
\* to that one as 120.
Resembles(m) ==
    IF colourScheme = "octal"
    THEN LET p == Palette[m + 1]
         IN  225 * (Square(background[1] - p[1]) + Square(background[2] - p[2])
                        + Square(background[3] - p[3])) <= Square(136)
    ELSE m = IF 15 * Luminance(background) < 128 * 1000 THEN 1 ELSE 0

\* Symbols that a frame may be read as: those on the screen, and those that the
\* background passes for.
OnShow ==
    {m \in Symbol(colourScheme) :
        \/ m \in {panel[1], panel[2]}
        \/ Idle \in {panel[1], panel[2]} /\ Resembles(m)}

LastOnes(s) == SubSeq(s, IF Len(s) > StableFrames THEN 2 ELSE 1, Len(s))

\* One turn of the loop of receiveFromCamera: sampleCenterColor, decode, count.  A
\* change may be over with this frame or not.
TakeFrame(weight) ==
    LET decoded == DecodeColour(Mixture(weight))
        count == IF decoded = lastDecoded THEN stableCount + 1 ELSE 1
    IN  /\ colourRead = Unread
        /\ lastDecoded' = decoded
        /\ stableCount' = IF count > StableFrames THEN StableFrames ELSE count
        /\ colourRead' = IF decoded # NotRead /\ count >= StableFrames
                         THEN decoded ELSE Unread
        /\ seen' = LastOnes(Append(seen, OnShow))
        /\ panel' \in {panel, <<panel[2], panel[2]>>}
        /\ UNCHANGED <<colourScheme, background>>

\* An empty frame is passed over, without a look at the keys; otherwise Esc ends.
PressEsc ==
    /\ colourRead = Unread
    /\ seen # <<>>
    /\ colourRead' = NotRead
    /\ UNCHANGED <<colourScheme, background, panel, seen, lastDecoded, stableCount>>

ColourNext ==
    \/ \E msg \in Symbol(colourScheme) : ShowColour(msg)
    \/ HideColour
    \/ \E weight \in Weights : TakeFrame(weight)
    \/ PressEsc

ColourSpec == ColourInit /\ [][ColourNext]_colourVars

-------------------------------------------------------------------------------
\* A symbol that is read was on the screen in each of the frames it was read from,
\* or what is behind the screen was in view and passes for it: is of this bit, or no
\* more than 136 away from this colour.  No mixture of two of them, however long
\* colours take to come and go, is taken for a third, and in front of a background
\* that is farther than 136 from every colour nothing is read that was not sent (a
\* dark one, though, is read as 0; color_channel.cpp:59-66, 101-185, 311-326).
ReadWasShown ==
    colourRead \in 0 .. 7 =>
        /\ Len(seen) = StableFrames
        /\ \A i \in DOMAIN seen : colourRead \in seen[i]
================================================================================
