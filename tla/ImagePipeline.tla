---------------------------- MODULE ImagePipeline ----------------------------
(***************************************************************************)
(* process_upload and the geometry of the old tree's images: which uploads *)
(* are refused, how large the result of an accepted one is, and where a    *)
(* logo is put.  Pixels are left out; lengths and limits are small.        *)
(***************************************************************************)
EXTENDS Integers

CONSTANTS
    Sides,       \* the lengths of a side that are tried
    Limit,       \* max_px of the preset, as a length
    Boxes,       \* the widths and heights that a config may ask for
    Pad,         \* _PAD
    LogoShare,   \* 1 / _LOGO_SCALE
    HeifSupport  \* is pillow_heif installed

\* Lengths are positive, and a logo is at most half as long as the picture.
ASSUME LengthsAssumption ==
    /\ Sides \subseteq Nat \ {0} /\ Boxes \subseteq Nat \ {0} /\ Limit \in Nat \ {0}
    /\ Pad \in Nat /\ LogoShare \in Nat \ {0, 1}

VARIABLES
    image,       \* the upload: [w, h, turn, defect]
    config,      \* ProcessConfig: [preset, width, height, logo]; 0 for a length is None
    result       \* the outcome: [is, w, h]

imageVars == <<image, config, result>>

Images == [w : Sides, h : Sides, turn : {"none", "half", "quarter"},
           defect : {"none", "heavy", "type", "heif", "unreadable"}]
Configs == [preset : {"avatar", "gallery"}, width : Boxes \cup {0}, height : Boxes \cup {0},
            logo : {"none", "wide", "tall"}]

Nil(outcome) == [is |-> outcome, w |-> 0, h |-> 0]

ImageInit == image \in Images /\ config \in Configs /\ result = Nil("none")

Size(w, h) == [w |-> w, h |-> h]
Smaller(a, b) == IF a < b THEN a ELSE b

\* _validate_bytes and _open_image.
Valid(i) == i.defect = "none" \/ (i.defect = "heif" /\ HeifSupport)

\* _apply_orientation_and_strip_exif: a quarter turn swaps the sides.
Oriented(i) == IF i.turn = "quarter" THEN Size(i.h, i.w) ELSE Size(i.w, i.h)

\* Mutant: a quotient is always rounded below.
ScaledLow(n, a, b) == {(n * a - 1) \div b, (n * a) \div b - 1}

\* int(n * (a / b)) in floating point: the quotient rounded down, or one less when it
\* is a whole number and the scale is not 1.
Scaled(n, a, b) ==
    {(n * a) \div b} \cup (IF (n * a) % b = 0 /\ a # b THEN {(n * a) \div b - 1} ELSE {})

\* _fit_in_box with both sides given.
FitSizes(s, width, height) ==
    IF width * s.h <= height * s.w
    THEN {Size(w, h) : w \in Scaled(s.w, width, s.w), h \in Scaled(s.h, width, s.w)}
    ELSE {Size(w, h) : w \in Scaled(s.w, height, s.h), h \in Scaled(s.h, height, s.h)}

\* _fit_in_box; it never upscales.
FitInBox(s, width, height) ==
    LET new == IF width > 0 /\ height > 0 THEN FitSizes(s, width, height)
               ELSE IF width > 0 THEN {Size(width, (s.h * width) \div s.w)}
               ELSE {Size((s.w * height) \div s.h, height)}
    IN  {IF n.w >= s.w /\ n.h >= s.h THEN s ELSE n : n \in new}

\* _resize; avatars without a box are cropped to a square, which may upscale.
Resize(s, c) ==
    IF c.width > 0 \/ c.height > 0 THEN FitInBox(s, c.width, c.height)
    ELSE IF c.preset = "avatar" THEN {Size(Limit, Limit)}
    ELSE IF s.w <= Limit THEN {s}
    ELSE {Size(Limit, (s.h * Limit) \div s.w)}

\* _scale_logo, of a logo twice as wide as high or the reverse.
LogoSize(s, logo) ==
    LET side == Smaller(s.w, s.h) \div LogoShare
    IN  IF logo = "wide" THEN Size(side, side \div 2) ELSE Size(side \div 2, side)

\* _calc_offset, as the extreme positions of the logo's corner.
Offsets(s, l) ==
    [x : {(s.w - l.w) \div 2, Pad, s.w - l.w - Pad}, y : {(s.h - l.h) \div 2, Pad, s.h - l.h - Pad}]

Positive(s) == s.w > 0 /\ s.h > 0

\* Whether add_watermark finds a logo with sides.
Stampable(s, c) == c.logo = "none" \/ Positive(LogoSize(s, c.logo))

\* process_upload: a picture or a logo that a resize has reduced to nothing fails.
ProcessUpload ==
    /\ result.is = "none"
    /\ \/ ~Valid(image) /\ result' = Nil("refused")
       \/ /\ Valid(image)
          /\ \E s \in Resize(Oriented(image), config) :
               result' = IF Positive(s) /\ Stampable(s, config)
                         THEN [is |-> "kept", w |-> s.w, h |-> s.h]
                         ELSE Nil("refused")
    /\ UNCHANGED <<image, config>>

ImageSpec == ImageInit /\ [][ProcessUpload]_imageVars

-----------------------------------------------------------------------------
(* Correctness.                                                            *)

Boxed == config.width > 0 \/ config.height > 0

\* A picture that is kept has no side of length 0, stays within the box that was
\* asked for, keeps its proportions within a pixel a side, and is never larger than the
\* upload, but for the square crop.
ResultFits ==
    result.is = "kept" =>
        LET s == Oriented(image)
        IN  /\ Positive(result)
            /\ config.width > 0 /\ config.height > 0 =>
                 result.w <= config.width /\ result.h <= config.height
            /\ Boxed \/ config.preset = "gallery" =>
                 /\ result.w <= s.w /\ result.h <= s.h
                 /\ result.w * s.h - result.h * s.w \in -(s.h + s.w)..(s.h + s.w)

\* A readable picture without a logo is refused only when it is so much longer than
\* wide, or the reverse, that the shorter side of the result would be rounded to 0.
RefusalExplained ==
    result.is = "refused" /\ image.defect = "none" /\ config.logo = "none" =>
        \E limit \in Boxes \cup {Limit} :
            image.w * limit <= image.h \/ image.h * limit <= image.w

\* A logo lies within a picture whose sides are at least twice the margin.
LogoInside ==
    result.is = "kept" /\ config.logo # "none"
        /\ result.w >= 2 * Pad /\ result.h >= 2 * Pad =>
        LET l == LogoSize(result, config.logo)
        IN  \A o \in Offsets(result, l) :
                o.x \in 0..(result.w - l.w) /\ o.y \in 0..(result.h - l.h)
=============================================================================
