--------------------------- MODULE PictureProofs ----------------------------
(***************************************************************************)
(* What the arithmetic of Picture does, for pictures and screens of every  *)
(* size.  The lemmas on products and quotients come first: the prover      *)
(* knows little of either once both sides vary.                            *)
(***************************************************************************)
EXTENDS Picture, TLAPS

LEMMA Product ==
  ASSUME NEW a \in Nat, NEW b \in Nat
  PROVE  a * b \in Nat
  OBVIOUS

LEMMA ProductMonotone ==
  ASSUME NEW a \in Nat, NEW b \in Nat, NEW c \in Nat, a <= b
  PROVE  a * c <= b * c
<1>1. PICK d \in Nat : b = a + d
  <2>1. b - a \in Nat /\ b = a + (b - a)
    OBVIOUS
  <2> QED
    BY <2>1
<1>2. b * c = a * c + d * c
  BY <1>1
<1> QED
  BY <1>2, Product

(* The quotient and the remainder.                                         *)
LEMMA DivLaw ==
  ASSUME NEW a \in Nat, NEW b \in Nat \ {0}
  PROVE  /\ a \div b \in Nat /\ a % b \in 0 .. b - 1
         /\ a = (a \div b) * b + (a % b)
<1>1. a \div b \in Nat
  OBVIOUS
<1>2. a % b \in 0 .. b - 1
  OBVIOUS
<1>3. a = b * (a \div b) + (a % b)
  OBVIOUS
<1>4. b * (a \div b) = (a \div b) * b
  BY <1>1
<1> QED
  BY <1>1, <1>2, <1>3, <1>4

(* They are the only numbers of which that is true.                        *)
LEMMA DivUnique ==
  ASSUME NEW q \in Nat, NEW b \in Nat \ {0}, NEW r \in 0 .. b - 1
  PROVE  (q * b + r) \div b = q /\ (q * b + r) % b = r
<1> DEFINE a == q * b + r
           p == a \div b
           s == a % b
<1>1. a \in Nat
  BY Product
<1>2. p \in Nat /\ s \in 0 .. b - 1 /\ a = p * b + s
  BY <1>1, DivLaw
<1>3. q * b + r = p * b + s
  BY <1>2
<1> HIDE DEF a, p, s
<1>4. ~(p < q)
  <2> SUFFICES ASSUME p < q PROVE FALSE
    OBVIOUS
  <2>1. p + 1 <= q
    BY <1>2
  <2>2. (p + 1) * b <= q * b
    BY <1>2, <2>1, ProductMonotone
  <2>3. (p + 1) * b = p * b + b
    BY <1>2
  <2>4. p * b \in Nat /\ q * b \in Nat
    BY <1>2, Product
  <2> QED
    BY <1>2, <1>3, <2>2, <2>3, <2>4
<1>5. ~(q < p)
  <2> SUFFICES ASSUME q < p PROVE FALSE
    OBVIOUS
  <2>1. q + 1 <= p
    BY <1>2
  <2>2. (q + 1) * b <= p * b
    BY <1>2, <2>1, ProductMonotone
  <2>3. (q + 1) * b = q * b + b
    OBVIOUS
  <2>4. p * b \in Nat /\ q * b \in Nat
    BY <1>2, Product
  <2> QED
    BY <1>2, <1>3, <2>2, <2>3, <2>4
<1>6. p = q
  BY <1>2, <1>4, <1>5
<1>7. r = s
  <2>1. p * b \in Nat
    BY <1>2, Product
  <2> QED
    BY <1>2, <1>3, <1>6, <2>1
<1> QED
  BY <1>6, <1>7 DEF a, p, s

(* A quotient is less than a bound its dividend is below.                  *)
LEMMA DivBelow ==
  ASSUME NEW a \in Nat, NEW b \in Nat \ {0}, NEW c \in Nat, a < c * b
  PROVE  a \div b < c
<1> DEFINE p == a \div b
<1>1. p \in Nat /\ p * b <= a
  <2>1. a \div b \in Nat /\ a % b \in 0 .. b - 1 /\ a = (a \div b) * b + (a % b)
    BY DivLaw
  <2>2. (a \div b) * b \in Nat
    BY <2>1, Product
  <2> QED
    BY <2>1, <2>2
<1> HIDE DEF p
<1>2. SUFFICES ASSUME c <= p PROVE FALSE
  BY <1>1 DEF p
<1>3. c * b <= p * b
  BY <1>1, <1>2, ProductMonotone
<1> QED
  BY <1>1, <1>3, Product

-----------------------------------------------------------------------------
(* PicZoom.                                                                *)

(* Place x of the n that are shown lies over the place of the m it is      *)
(* taken from: no table entry is past the end of a line, nor a line past   *)
(* the end of the picture.                                                 *)
LEMMA SourceLaw ==
  ASSUME NEW m \in Nat, NEW n \in Nat \ {0}, NEW x \in 0 .. n - 1
  PROVE  /\ Source(x, m, n) \in Nat
         /\ Source(x, m, n) * n <= x * m /\ x * m < (Source(x, m, n) + 1) * n
         /\ m > 0 => Source(x, m, n) < m
<1> DEFINE a == x * m
           s == a \div n
<1>0. x \in Nat /\ a \in Nat
  BY Product
<1>1. s \in Nat /\ a % n \in 0 .. n - 1 /\ a = s * n + (a % n)
  BY <1>0, DivLaw
<1>2. Source(x, m, n) = s
  BY DEF Source
<1>3. m > 0 => s < m
  <2> SUFFICES ASSUME m > 0 PROVE s < m
    OBVIOUS
  <2>1. (x + 1) * m <= n * m
    BY <1>0, ProductMonotone
  <2>2. (x + 1) * m = a + m /\ n * m = m * n
    BY <1>0
  <2>3. m * n \in Nat
    BY Product
  <2>4. a < m * n
    BY <1>0, <2>1, <2>2, <2>3
  <2> HIDE DEF a
  <2> QED
    BY <1>0, <2>4, DivBelow
<1>4. s * n <= a /\ a < s * n + n
  <2>1. s * n \in Nat
    BY <1>1, Product
  <2> HIDE DEF a, s
  <2> QED
    BY <1>1, <2>1
<1>5. (s + 1) * n = s * n + n
  BY <1>1
<1> QED
  BY <1>1, <1>2, <1>3, <1>4, <1>5

(* A place of a picture, from its line and column.                         *)
LEMMA PlaceOf ==
  ASSUME NEW w \in Nat \ {0}, NEW h \in Nat, NEW c \in 0 .. w - 1, NEW l \in 0 .. h - 1
  PROVE  /\ l * w + c \in Places(w, h)
         /\ (l * w + c) \div w = l /\ (l * w + c) % w = c
<1>1. (l + 1) * w <= h * w
  BY ProductMonotone
<1>2. (l + 1) * w = l * w + w /\ h * w = w * h
  OBVIOUS
<1>3. l * w \in Nat /\ w * h \in Nat
  BY Product
<1>4. l * w + c \in Places(w, h)
  BY <1>1, <1>2, <1>3 DEF Places
<1>5. (l * w + c) \div w = l /\ (l * w + c) % w = c
  BY DivUnique
<1> QED
  BY <1>4, <1>5

(* PicZoom copies, for each column and line, the place under it; what it   *)
(* reads is inside the picture.                                            *)
LEMMA PicZoomLaw ==
  ASSUME NEW m \in Nat \ {0}, NEW n \in Nat \ {0}, NEW pic, pic.w = m, pic.h = n,
         NEW w \in Nat \ {0}, NEW h \in Nat \ {0},
         NEW c \in 0 .. w - 1, NEW l \in 0 .. h - 1
  PROVE  /\ Source(c, m, w) \in 0 .. m - 1 /\ Source(l, n, h) \in 0 .. n - 1
         /\ Source(l, n, h) * m + Source(c, m, w) \in Places(m, n)
         /\ PicZoom(pic, w, h, pic.bpp).at[l * w + c]
              = pic.at[Source(l, n, h) * m + Source(c, m, w)]
<1>1. Source(c, m, w) \in 0 .. m - 1 /\ Source(l, n, h) \in 0 .. n - 1
  <2>1. Source(c, m, w) \in Nat /\ Source(c, m, w) < m
    BY SourceLaw
  <2>2. Source(l, n, h) \in Nat /\ Source(l, n, h) < n
    BY SourceLaw
  <2> QED
    BY <2>1, <2>2
<1>2. Source(l, n, h) * m + Source(c, m, w) \in Places(m, n)
  BY <1>1, PlaceOf
<1>3. l * w + c \in Places(w, h) /\ (l * w + c) \div w = l /\ (l * w + c) % w = c
  <2>1. l * w + c \in Places(w, h)
    BY PlaceOf
  <2>2. (l * w + c) \div w = l /\ (l * w + c) % w = c
    BY DivUnique
  <2> QED
    BY <2>1, <2>2
<1>4. PicZoom(pic, w, h, pic.bpp).at[l * w + c] = pic.at[Source(l, n, h) * m + Source(c, m, w)]
  BY <1>3 DEF PicZoom
<1> QED
  BY <1>1, <1>2, <1>4

-----------------------------------------------------------------------------
(* The size that is zoomed to.                                             *)

LEMMA TruncatedLaw ==
  ASSUME NEW a \in Nat, NEW b \in Nat \ {0}, NEW z \in Truncated(a, b)
  PROVE  /\ z \in Nat /\ z <= a \div b
         /\ z * b <= a /\ a - b <= z * b
<1> DEFINE p == a \div b
<1>1. p \in Nat /\ a % b \in 0 .. b - 1 /\ a = p * b + (a % b)
  BY DivLaw
<1>2. p * b \in Nat
  BY <1>1, Product
<1>3. z = p \/ (z = p - 1 /\ z \in Nat /\ a % b = 0)
  BY <1>1 DEF Truncated
<1> HIDE DEF p
<1>4. CASE z = p
  BY <1>1, <1>2, <1>4 DEF p
<1>5. CASE z = p - 1 /\ z \in Nat /\ a % b = 0
  <2>1. z * b = p * b - b
    BY <1>1, <1>5
  <2> QED
    BY <1>1, <1>2, <1>5, <2>1 DEF p
<1> QED
  BY <1>3, <1>4, <1>5

(* The picture that results fits the screen: the height is tested before   *)
(* the rounding, and a picture that is too high for the width of the       *)
(* screen is not too wide for its height.                                  *)
LEMMA ZoomFits ==
  ASSUME NEW w \in Nat \ {0}, NEW h \in Nat \ {0}, NEW W \in Nat \ {0}, NEW H \in Nat \ {0},
         NEW z \in ZoomSizes(w, h, W, H)
  PROVE  /\ z \in (0 .. W) \X (0 .. H)
         /\ z[1] = W \/ z[2] = H
         /\ \/ z[1] * h - z[2] * w \in 0 .. w
            \/ z[2] * w - z[1] * h \in 0 .. h
<1>0. W * h \in Nat /\ H * w \in Nat
  BY Product
<1>1. CASE \E n \in Truncated(W * h, w) : n <= H /\ z = <<W, n>>
  <2>1. PICK n \in Truncated(W * h, w) : n <= H /\ z = <<W, n>>
    BY <1>1
  <2>2. n \in Nat /\ n * w <= W * h /\ W * h - w <= n * w
    BY <1>0, <2>1, TruncatedLaw
  <2>3. n * w \in Nat
    BY <2>2, Product
  <2> QED
    BY <1>0, <2>1, <2>2, <2>3
<1>2. CASE \E n \in Truncated(H * w, h) :
             z = <<n, H>> /\ \E k \in Truncated(W * h, w) : k > H
  <2>1. PICK n \in Truncated(H * w, h) :
               z = <<n, H>> /\ \E k \in Truncated(W * h, w) : k > H
    BY <1>2
  <2>2. PICK k \in Truncated(W * h, w) : k > H
    BY <2>1
  <2>3. n \in Nat /\ n * h <= H * w /\ H * w - h <= n * h
    BY <1>0, <2>1, TruncatedLaw
  <2>4. k \in Nat /\ k * w <= W * h
    BY <1>0, <2>2, TruncatedLaw
  <2>5. H * w <= k * w
    BY <2>2, <2>4, ProductMonotone
  <2>6. n * h <= W * h
    BY <1>0, <2>3, <2>4, <2>5, Product
  <2>7. n <= W
    <3> SUFFICES ASSUME W + 1 <= n PROVE FALSE
      BY <2>3
    <3>1. (W + 1) * h <= n * h
      BY <2>3, ProductMonotone
    <3>2. (W + 1) * h = W * h + h
      OBVIOUS
    <3>3. n * h \in Nat
      BY <2>3, Product
    <3> QED
      BY <1>0, <2>6, <3>1, <3>2, <3>3
  <2>8. n * h \in Nat
    BY <2>3, Product
  <2> QED
    BY <1>0, <2>1, <2>3, <2>7, <2>8
<1> QED
  BY <1>1, <1>2 DEF ZoomSizes

-----------------------------------------------------------------------------
(* PicMerge.                                                               *)

(* The place at line l and column c of the screen, as PicMerge finds it    *)
(* from the distance to its first place.                                   *)
Lies(d, W, x, y, c, l) ==
  /\ l < y => d < 0
  /\ l = y /\ c < x => d < 0
  /\ l >= y /\ c >= x => d >= 0 /\ d \div W = l - y /\ d % W = c - x
  /\ l > y /\ c < x => d >= 0 /\ d \div W = (l - y) - 1 /\ d % W = (c - x) + W

LEMMA Distance ==
  ASSUME NEW W \in Nat \ {0}, NEW x \in 0 .. W, NEW y \in Nat,
         NEW c \in 0 .. W - 1, NEW l \in Nat
  PROVE  Lies((l * W + c) - (y * W + x), W, x, y, c, l)
<1>0. l * W \in Nat /\ y * W \in Nat
  BY Product
<1>1. ASSUME l < y PROVE (l * W + c) - (y * W + x) < 0
  <2>1. (l + 1) * W <= y * W
    BY <1>1, ProductMonotone
  <2>2. (l + 1) * W = l * W + W
    OBVIOUS
  <2> QED
    BY <1>0, <2>1, <2>2
<1>2. ASSUME l = y, c < x PROVE (l * W + c) - (y * W + x) < 0
  BY <1>0, <1>2
<1>3. ASSUME l >= y, c >= x
      PROVE  LET d == (l * W + c) - (y * W + x) IN
             d >= 0 /\ d \div W = l - y /\ d % W = c - x
  <2> DEFINE q == l - y
             r == c - x
  <2>1. q \in Nat /\ r \in 0 .. W - 1
    BY <1>3
  <2>2. q * W = l * W - y * W
    OBVIOUS
  <2>3. (l * W + c) - (y * W + x) = q * W + r
    BY <1>0, <2>2
  <2>4. (q * W + r) \div W = q /\ (q * W + r) % W = r
    <3> HIDE DEF q, r
    <3> QED
      BY <2>1, DivUnique
  <2>5. q * W \in Nat
    <3> HIDE DEF q, r
    <3> QED
      BY <2>1, Product
  <2>6. q * W + r >= 0
    BY <2>1, <2>5
  <2> QED
    BY <2>3, <2>4, <2>6
<1>4. ASSUME l > y, c < x
      PROVE  LET d == (l * W + c) - (y * W + x) IN
             d >= 0 /\ d \div W = (l - y) - 1 /\ d % W = (c - x) + W
  <2> DEFINE q == (l - y) - 1
             r == (c - x) + W
  <2>1. q \in Nat /\ r \in 0 .. W - 1
    BY <1>4
  <2>2. q * W = (l * W - y * W) - W
    OBVIOUS
  <2>3. (l * W + c) - (y * W + x) = q * W + r
    BY <1>0, <2>2
  <2>4. (q * W + r) \div W = q /\ (q * W + r) % W = r
    <3> HIDE DEF q, r
    <3> QED
      BY <2>1, DivUnique
  <2>5. q * W \in Nat
    <3> HIDE DEF q, r
    <3> QED
      BY <2>1, Product
  <2>6. q * W + r >= 0
    BY <2>1, <2>5
  <2> QED
    BY <2>3, <2>4, <2>6
<1> QED
  BY <1>1, <1>2, <1>3, <1>4 DEF Lies

(* The pixels g of a screen of W by H are those of f, with the w by h      *)
(* pixels p at column x and line y.                                        *)
Merged(g, f, p, W, H, w, h, x, y) ==
  /\ DOMAIN g = Places(W, H)
  /\ \A c \in 0 .. W - 1, l \in 0 .. H - 1 :
       g[l * W + c] = IF c - x \in 0 .. w - 1 /\ l - y \in 0 .. h - 1
                      THEN p[(l - y) * w + (c - x)] ELSE f[l * W + c]

(* PicMerge leaves a picture that lies within the screen at its place, and *)
(* everything around it as it was.                                         *)
LEMMA PicMergeLaw ==
  ASSUME NEW W \in Nat \ {0}, NEW H \in Nat, NEW bpp, NEW f, DOMAIN f = Places(W, H),
         NEW big, big = [w |-> W, h |-> H, bpp |-> bpp, at |-> f],
         NEW small, NEW w \in Nat, NEW h \in Nat, small.w = w, small.h = h,
         NEW x \in Nat, NEW y \in Nat, x + w <= W
  PROVE  \E g : /\ PicMerge(small, big, x, y) = [w |-> W, h |-> H, bpp |-> bpp, at |-> g]
                /\ Merged(g, f, small.at, W, H, w, h, x, y)
<1> DEFINE start == y * W + x
           Copied(a) == a >= start /\ (a - start) \div W < h /\ (a - start) % W < w
           g == [a \in Places(W, H) |->
                   IF Copied(a)
                   THEN small.at[((a - start) \div W) * w + ((a - start) % W)] ELSE f[a]]
<1>1. PicMerge(small, big, x, y) = [w |-> W, h |-> H, bpp |-> bpp, at |-> g]
  BY DEF PicMerge
<1>2. ASSUME NEW c \in 0 .. W - 1, NEW l \in 0 .. H - 1
      PROVE  g[l * W + c] =
               IF c - x \in 0 .. w - 1 /\ l - y \in 0 .. h - 1
               THEN small.at[(l - y) * w + (c - x)] ELSE f[l * W + c]
  <2> DEFINE a == l * W + c
             d == a - start
  <2>1. a \in Places(W, H) /\ a \in Int /\ start \in Int
    BY PlaceOf, Product DEF Places
  <2>2. /\ l < y => d < 0
        /\ l = y /\ c < x => d < 0
        /\ l >= y /\ c >= x => d >= 0 /\ d \div W = l - y /\ d % W = c - x
        /\ l > y /\ c < x => d >= 0 /\ d \div W = (l - y) - 1 /\ d % W = (c - x) + W
    <3>1. x \in 0 .. W /\ l \in Nat
      OBVIOUS
    <3>2. Lies(d, W, x, y, c, l)
      BY <3>1, Distance
    <3> QED
      BY <3>2 DEF Lies
  <2>3. g[a] = IF a >= start /\ d \div W < h /\ d % W < w
               THEN small.at[(d \div W) * w + (d % W)] ELSE f[a]
    BY <2>1
  <2>4. a >= start <=> d >= 0
    BY <2>1
  <2> HIDE DEF a, d, g, start
  <2>5. CASE l < y \/ (l = y /\ c < x)
    <3>1. d < 0 /\ ~(d >= 0)
      BY <2>1, <2>2, <2>5 DEF d
    <3>2. g[a] = f[a]
      BY <2>3, <2>4, <3>1
    <3>3. ~(c - x \in 0 .. w - 1 /\ l - y \in 0 .. h - 1)
      BY <2>5
    <3> QED
      BY <3>2, <3>3 DEF a
  <2>6. CASE l >= y /\ c >= x
    BY <2>2, <2>3, <2>4, <2>6 DEF a
  <2>7. CASE l > y /\ c < x
    <3>1. ~((c - x) + W < w)
      BY <2>7
    <3> QED
      BY <2>2, <2>3, <2>7, <3>1 DEF a
  <2> QED
    BY <2>5, <2>6, <2>7
<1> HIDE DEF g
<1>3. DOMAIN g = Places(W, H)
  BY DEF g
<1> QED
  BY <1>1, <1>2, <1>3 DEF Merged

=============================================================================
