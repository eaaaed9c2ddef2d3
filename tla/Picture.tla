------------------------------ MODULE Picture -------------------------------
(***************************************************************************)
(* The arithmetic on pictures of the application: the size main.c zooms to *)
(* (src/video2lcd/video2lcd), PicZoom, PicMerge, and the formats the       *)
(* converters accept.                                                      *)
(*                                                                         *)
(* A picture is a record [w, h, bpp, at]: "at" gives the pixel at each     *)
(* place of its memory, counted in pixels line by line from 0.             *)
(***************************************************************************)
EXTENDS Integers

Unset == -1             \* a pixel nothing has been written to

(* The assignment to an int of a quotient computed in float: the division  *)
(* and the multiplication are each rounded, so that an exact quotient may  *)
(* come out just below the integer it is.  (For sizes up to some thousands *)
(* a quotient that is no integer cannot be rounded across one.)            *)
Truncated(a, b) ==
  {a \div b} \cup {n \in {a \div b - 1} : a % b = 0 /\ n >= 0}

(* Mutant: the height that results is not compared with the screen. *)
ZoomSizesWidthOnly(w, h, W, H) == { <<W, z>> : z \in Truncated(W * h, w) }

(* What a picture of w by h is zoomed to on a screen of W by H: the width  *)
(* of the screen, or its height when the picture would be too high.        *)
ZoomSizes(w, h, W, H) ==
  { <<W, z>> : z \in {n \in Truncated(W * h, w) : n <= H} } \cup
  { <<z, H>> : z \in IF \E n \in Truncated(W * h, w) : n > H
                     THEN Truncated(H * w, h) ELSE {} }

Places(w, h) == 0 .. w * h - 1

(* The column of pdwSrcXTable, and in the same way the line: the place in  *)
(* the source of place x of n that are shown of m.                         *)
Source(x, m, n) == (x * m) \div n

(* Mutant: the last column and line instead of their number. *)
PicZoomToLast(pic, w, h, bpp) ==
  [w |-> w, h |-> h, bpp |-> bpp,
   at |-> [a \in Places(w, h) |->
             pic.at[Source(a \div w, pic.h - 1, h) * pic.w + Source(a % w, pic.w - 1, w)]]]

(* Pictures of different pixels are refused, which leaves the memory as it *)
(* is; otherwise each place is a copy of the one it comes from.            *)
PicZoom(pic, w, h, bpp) ==
  [w |-> w, h |-> h, bpp |-> bpp,
   at |-> [a \in Places(w, h) |->
             IF pic.bpp # bpp THEN Unset
             ELSE pic.at[Source(a \div w, pic.h, h) * pic.w + Source(a % w, pic.w, w)]]]

(* PicMerge refuses a picture that is larger or has other pixels ...       *)
MergeRefuses(small, big) ==
  small.w > big.w \/ small.h > big.h \/ small.bpp # big.bpp

(* Mutant: the lines of the picture are copied one after the other. *)
PicMergeNoSkip(small, big, x, y) ==
  LET start == y * big.w + x IN
  [big EXCEPT !.at =
     [a \in DOMAIN big.at |-> IF a - start \in Places(small.w, small.h)
                              THEN small.at[a - start] ELSE big.at[a]]]

(* ... and copies line after line, to column x and line y of the screen.   *)
PicMerge(small, big, x, y) ==
  LET start   == y * big.w + x
      Line(a) == (a - start) \div big.w
      Col(a)  == (a - start) % big.w
  IN  [big EXCEPT !.at =
         [a \in DOMAIN big.at |->
            IF a >= start /\ Line(a) < small.h /\ Col(a) < small.w
            THEN small.at[Line(a) * small.w + Col(a)] ELSE big.at[a]]]

(* The formats the isSupport of each converter accepts: yuv2rgb.c:11 and   *)
(* rgb2rgb.c:11 ask for RGB565 twice, although both convert to RGB32.      *)
Yuv2Rgb   == [from |-> "YUYV",   to |-> {"RGB565"}]
Mjpeg2Rgb == [from |-> "MJPEG",  to |-> {"RGB565", "RGB32"}]
Rgb2Rgb   == [from |-> "RGB565", to |-> {"RGB565"}]

Converters == {Yuv2Rgb, Mjpeg2Rgb, Rgb2Rgb}         \* VideoConvertInit

IsConvertible(in, out) ==
  \E converter \in Converters : converter.from = in /\ out \in converter.to

(* GetVideoBufForDisplay: the format of a screen.                          *)
FormatOfDisplay(bpp) == IF bpp = 16 THEN "RGB565" ELSE IF bpp = 32 THEN "RGB32" ELSE "none"

(* V4l2GetFrame: the bits per pixel of what the camera delivers.           *)
BppOfVideo(format) == IF format \in {"YUYV", "RGB565"} THEN 16 ELSE 0

=============================================================================
