--------------------------- MODULE SampleScaling ---------------------------
(***************************************************************************)
(* The arithmetic the host applies to one reconstructed sample or pixel on *)
(* its way to an output value: colour conversion, bias, rounding,          *)
(* postscaling, the floating-point forms, RGBE words and premultiplication.*)
(*                                                                         *)
(* The code computes in 32-bit words and checks every step; a word here    *)
(* has WordBits.  What may fail has an outcome: <<v>>, or <<>> for an error.*)
(* A depth is [kind, shift, mantissa, exponent], the last three zero where *)
(* the kind has no such field.                                             *)
(***************************************************************************)
EXTENDS Integers, Sequences, SequencesExt

CONSTANT WordBits

WordMax == 2^(WordBits - 1) - 1
InWord(n) == -WordMax - 1 <= n /\ n <= WordMax

Exact(steps, v) == IF \A n \in steps : InWord(n) THEN <<v>> ELSE <<>>

\* All the values of a sequence of outcomes, or the error of one of them.
Whole(outcomes) ==
  IF \E k \in DOMAIN outcomes : outcomes[k] = <<>> THEN <<>>
  ELSE <<[k \in DOMAIN outcomes |-> outcomes[k][1]]>>

Clamp(n, low, high) == IF n < low THEN low ELSE IF n > high THEN high ELSE n
Shr(n, bits) == n \div 2^bits
Magnitude(n) == IF n < 0 THEN -n ELSE n
Lesser(m, n) == IF m < n THEN m ELSE n
Greatest(numbers) == CHOOSE n \in numbers : \A m \in numbers : m <= n

-----------------------------------------------------------------------------
(***************************************************************************)
(* Bias, rounding and postscaling (scaling.rs).                            *)
(***************************************************************************)
BaseBias == [Rgb555 |-> 16, Rgb565 |-> 32, U8 |-> 128, U10 |-> 512, Rgb101010 |-> 512, U16 |-> 32768]

Bias(depth) ==
  IF depth.kind \in DOMAIN BaseBias THEN Shr(BaseBias[depth.kind], depth.shift) ELSE 0

\* Mutant: the rounding of a scaled stream is that of U16 whatever the depth.
ChannelScale_Bug(component, color, depth, scaled) ==
  [bias |-> (IF color = "rgbe" THEN 0 ELSE Bias(depth)) * (IF scaled THEN 8 ELSE 1),
   rounding |-> IF scaled THEN 4 ELSE 0, shift |-> IF scaled THEN 3 ELSE 0, post |-> depth.shift]
\* ChannelScale::resolve.  No bias leaves the word when it is scaled.
ChannelScale(component, color, depth, scaled) ==
  LET bias == CASE color = "cmyk" -> (IF component < 3 THEN 1 ELSE -1) * Shr(Bias(depth), 1)
                [] color = "rgbe" -> 0
                [] OTHER -> Bias(depth)
      down == IF scaled THEN 3 ELSE 0
  IN  [bias |-> bias * 2^down,
       rounding |-> CASE ~scaled -> 0
                      [] depth.kind \in {"Bit1White", "Bit1Black", "U16"} -> 4
                      [] OTHER -> 3,
       shift |-> IF depth.kind = "Rgb565" /\ component # 1 THEN down + 1 ELSE down,
       post |-> depth.shift]

ApplyScale(scale, sample) ==
  LET biased == sample + scale.bias
      rounded == biased + scale.rounding
      shifted == Shr(rounded, scale.shift) * 2^scale.post
  IN  Exact({biased, rounded, shifted}, shifted)

ScaleInteger(sample, component, color, depth, scaled) ==
  ApplyScale(ChannelScale(component, color, depth, scaled), sample)

Float16Bits(sample, depth, scaled) ==
  LET value == ScaleInteger(sample, 0, "luma", depth, scaled)
  IN  IF value = <<>> THEN <<>>
      ELSE <<(IF value[1] < 0 THEN 32768 ELSE 0) + Lesser(Magnitude(value[1]), 32767)>>

\* A number of n places before it is normalised: the places the loop shifts by.
NormalShift(mantissa, implicit, exponent) ==
  CHOOSE n \in 0..23 :
    /\ mantissa * 2^n >= implicit \/ exponent - n <= 1 \/ mantissa = 0
    /\ \A m \in 0..(n - 1) : mantissa * 2^m < implicit /\ exponent - m > 1

\* Sign, exponent and mantissa of the number that magnitude stands for.
FloatFields(value, length, bias) ==
  LET implicit == 2^length
      fraction == Magnitude(value) % implicit
      whole == Magnitude(value) \div implicit
      unbiased == (IF whole = 0 THEN 1 ELSE whole) - bias + 127
      held == IF whole = 0 THEN fraction ELSE fraction + implicit
      n == NormalShift(held, implicit, unbiased)
      mantissa == held * 2^n
      exponent == IF mantissa < implicit THEN 0 ELSE unbiased - n
      stored == (IF mantissa < implicit THEN mantissa ELSE mantissa - implicit) * 2^(23 - length)
  IN  IF exponent \in 0..255 /\ stored <= 8388607
      THEN <<<<IF value < 0 THEN 1 ELSE 0, exponent, stored>>>> ELSE <<>>

Float32Bits(sample, depth, scaled) ==
  LET value == ScaleInteger(sample, 0, "luma", depth, scaled)
  IN  IF value = <<>> THEN <<>> ELSE FloatFields(value[1], depth.mantissa, depth.exponent)

-----------------------------------------------------------------------------
(***************************************************************************)
(* Colour conversion (color.rs) of the first four components of a pixel.   *)
(***************************************************************************)
InverseYuv(y, u, v) ==
  LET green == y - Shr(-u, 1)
      red == green - u - (Shr(v, 1) + (v % 2))
  IN  Exact({-u, green, green - u, red, v + red}, <<red, green, v + red, 0>>)

InverseYuvk(y, u, v, k) ==
  LET black == k + Shr(y, 1)
      magenta == black - y - Shr(u, 1)
      cyan == u + magenta + Shr(v, 1)
  IN  Exact({black, black - y, magenta, u + magenta, cyan, cyan - v},
            <<cyan, magenta, cyan - v, black>>)

Convert(internal, output, in, packedRgb, kept) ==
  CASE internal = "luma" /\ output = "rgb" -> <<<<in[1], in[1], in[1], 0>>>>
    [] internal = "yuv444" /\ output \in {"rgb", "rgbe"} ->
         LET rgb == InverseYuv(in[1], in[2], in[3])
         IN  IF rgb # <<>> /\ packedRgb /\ ~kept
             THEN <<<<rgb[1][3], rgb[1][2], rgb[1][1], 0>>>> ELSE rgb
    [] internal = "yuvk" /\ output = "cmyk" -> InverseYuvk(in[1], in[2], in[3], in[4])
    [] internal = "yuvk" /\ output = "cmykdirect" -> <<<<in[2], in[3], in[4], in[1]>>>>
    [] OTHER -> <<>>

-----------------------------------------------------------------------------
(***************************************************************************)
(* RGBE words (rgbe.rs): the three mantissas and their exponent.           *)
(***************************************************************************)
EncodeComponent(value) ==
  CASE value <= 0 -> [mantissa |-> 0, exponent |-> 0]
    [] Shr(value, 7) > 1 -> [mantissa |-> (value % 128) + 128, exponent |-> Shr(value, 7)]
    [] OTHER -> [mantissa |-> value, exponent |-> 1]

RoundedShift(value, difference) ==
  IF difference >= 30 THEN 0 ELSE Shr(2 * value + 1, difference + 1)

PostscaleRgbe(rgb) ==
  LET encoded == [c \in 1..3 |-> EncodeComponent(rgb[c])]
      exponent == Greatest({encoded[c].exponent : c \in 1..3})
  IN  [c \in 1..3 |-> Clamp(IF exponent > encoded[c].exponent
                            THEN RoundedShift(encoded[c].mantissa, exponent - encoded[c].exponent)
                            ELSE encoded[c].mantissa, 0, 255)]
        \o <<Lesser(exponent, 255)>>

-----------------------------------------------------------------------------
(***************************************************************************)
(* Premultiplication (alpha.rs, premultiply.rs).                           *)
(***************************************************************************)
\* (v * a + maximum \div 2) \div maximum, in two parts that fit TLC's integers.
NearestProduct(v, a, maximum) ==
  LET high == v * (a \div 256)
      rest == (high % maximum) * 256 + v * (a % 256)
  IN  (high \div maximum) * 256 + (rest + (maximum \div 2)) \div maximum

PremultiplyUnsigned(value, opacity, maximum) ==
  NearestProduct(Lesser(value, maximum), Lesser(opacity, maximum), maximum)

PremultiplySigned(value, opacity, maximum) ==
  LET product == NearestProduct(Magnitude(value), Clamp(opacity, 0, maximum), maximum)
  IN  IF value < 0 THEN -product ELSE product

\* Of a sign and 15 bits; a negative opacity is none.
PremultiplyMagnitude15(value, opacity) ==
  (value \div 32768) * 32768
    + PremultiplyUnsigned(value % 32768, IF opacity >= 32768 THEN 0 ELSE opacity, 32767)

\* The product of two floating-point values is a function of both.
PremultiplyF32(value, opacity) == value \o opacity

\* An element of the given storage, multiplied by the alpha of its pixel.
Premultiplied(storage, value, opacity) ==
  CASE storage = "U8" -> PremultiplyUnsigned(value, opacity, 255)
    [] storage = "U16" -> PremultiplyUnsigned(value, opacity, 65535)
    [] storage = "I16" -> PremultiplySigned(value, opacity, 32767)
    [] storage = "I32" -> PremultiplySigned(value, opacity, WordMax)
    [] storage = "F16" -> PremultiplyMagnitude15(value, opacity)
    [] storage = "F32" -> PremultiplyF32(value, opacity)
===============================================================================
