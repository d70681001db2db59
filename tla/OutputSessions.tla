--------------------------- MODULE OutputSessions ---------------------------
(***************************************************************************)
(* Small requests of DeviceStores: every storage, colour conversion and    *)
(* channel order, with and without alpha, of samples that are mild, that   *)
(* surround the bound of the interleaved kernels, and that surround the    *)
(* ends of the word; crops inside the planes; requests that are refused;   *)
(* sessions whose requests differ in one word of their pipeline.           *)
(***************************************************************************)
EXTENDS Integers, Sequences

Words == 24
SafeBound == 262144
LargestWord == 8388607

Mild == <<0, 3, -5, 40, 127, -128, 255, 300, -90, 1000, 16>>
Wide == <<262143, -7, -262143, 262144, 70000, 0, -70000, 32767, -32769, 65535, 9, -262145>>
Ends == <<LargestWord, 5, -LargestWord - 1, LargestWord - 100, 0, LargestWord - 1027, -LargestWord>>
Low == <<-LargestWord - 1, 4, -LargestWord, 0, LargestWord - 4194304>>

\* A window of the plane's samples, of a palette.
Plane(x, y, width, height, palette, seed) ==
  [x |-> x, y |-> y, width |-> width, height |-> height,
   samples |-> [k \in 1..(width * height) |-> palette[((seed * 3 + k * 5 + (k \div 3)) % Len(palette)) + 1]]]

PlanesOf(internal, palette) ==
  LET Full(seed) == Plane(2, 2, 6, 4, palette, seed)
      Chroma(seed) == IF internal = "yuv420" THEN Plane(1, 1, 3, 2, palette, seed)
                      ELSE IF internal = "yuv422" THEN Plane(1, 2, 3, 4, palette, seed) ELSE Full(seed)
  IN  CASE internal = "luma" -> <<Full(0)>>
        [] internal = "n" -> <<Full(0), Full(1)>>
        [] internal = "yuvk" -> <<Full(0), Full(1), Full(2), Full(3)>>
        [] OTHER -> <<Full(0), Chroma(1), Chroma(2)>>

Depth(kind, places) == [kind |-> kind, shift |-> places, mantissa |-> 0, exponent |-> 0]
FloatDepth(length, bias) == [kind |-> "F32", shift |-> 0, mantissa |-> length, exponent |-> bias]

WithOwnAlpha == {"lumaAlpha", "yuva", "rgba", "bgra", "cmyka", "nAlpha"}

Request(internal, output, depth, storage, layout, palette) ==
  [internal |-> internal, output |-> output, depth |-> depth, alphaDepth |-> depth,
   scaled |-> FALSE, alphaScaled |-> FALSE, layout |-> layout, storage |-> storage,
   premultiply |-> FALSE, kept |-> FALSE,
   crop |-> [x |-> 4, y |-> 2, width |-> IF output \in {"yuv420", "yuv422"} THEN 2 ELSE 3, height |-> 2],
   planes |-> PlanesOf(internal, palette),
   alpha |-> IF layout \in WithOwnAlpha THEN <<Plane(2, 1, 6, 5, palette, 4)>> ELSE <<>>,
   centering |-> <<1, 3>>, lanes |-> 2]

\* Scaled as asked, and multiplied by alpha where the layout has one.
Variants(jobs) ==
  {[j EXCEPT !.scaled = s, !.alphaScaled = s # (j.layout = "rgba"), !.premultiply = m] :
      j \in jobs, s \in BOOLEAN, m \in {FALSE}}
    \cup {[j EXCEPT !.scaled = s, !.premultiply = TRUE] :
            j \in {job \in jobs : job.layout \in WithOwnAlpha \ {"yuva"}}, s \in BOOLEAN}

Palettes == {Mild, Wide, Ends, Low}

LumaRequests ==
  {Request("luma", "luma", Depth("U8", 0), "U8", l, v) : l \in {"luma", "lumaAlpha"}, v \in Palettes}
    \cup {Request("luma", "luma", Depth("U16", n), "U16", "lumaAlpha", v) : n \in {0, 2}, v \in Palettes}
    \cup {Request("luma", "luma", Depth("U10", 0), "U16", "lumaAlpha", v) : v \in {Mild, Wide}}
    \cup {Request("luma", "luma", Depth("I16", n), "I16", "lumaAlpha", v) : n \in {0, 1}, v \in Palettes}
    \cup {Request("luma", "luma", Depth("I32", 2), "I32", "luma", v) : v \in Palettes}
    \cup {Request("luma", "luma", Depth("F16", 0), "F16", "lumaAlpha", v) : v \in Palettes}
    \cup {Request("luma", "luma", FloatDepth(13, n), "F32", "lumaAlpha", v) : n \in {1, 4}, v \in Palettes}

RgbRequests ==
  {Request("luma", "rgb", Depth("U8", 0), "U8", l, v) : l \in {"rgb", "bgra", "bgrx"}, v \in {Mild, Ends}}
    \cup {Request("yuv444", "rgb", Depth("U8", 0), "U8", l, v) : l \in {"rgbx", "rgba", "bgr"}, v \in Palettes}
    \cup {Request("yuv444", "rgb", Depth("U16", 1), "U16", l, v) : l \in {"bgra", "rgbx"}, v \in Palettes}
    \cup {Request("yuv444", "rgb", Depth("I16", 0), "I16", "rgba", v) : v \in {Mild, Wide}}
    \cup {Request("yuv444", "rgb", Depth("I32", 1), "I32", "bgrx", v) : v \in {Wide, Ends}}
    \cup {Request("yuv444", "rgb", Depth("F16", 0), "F16", l, v) : l \in {"bgra", "rgbx"}, v \in {Mild, Wide}}
    \cup {Request("yuv444", "rgb", FloatDepth(10, 1), "F32", "bgrx", v) : v \in {Mild, Wide}}
    \cup {Request(c, "rgb", Depth("U8", 0), "U8", "bgra", v) : c \in {"yuv420", "yuv422"}, v \in Palettes}

OtherRequests ==
  {Request("yuvk", o, Depth(k, 0), k, l, v) :
      o \in {"cmyk", "cmykdirect"}, k \in {"U8", "U16"}, l \in {"cmyk", "cmyka"}, v \in {Mild, Low}}
    \cup {Request("n", "n", Depth("U8", 0), "U8", l, v) : l \in {"n", "nAlpha"}, v \in {Mild, Wide}}
    \cup {Request(c, c, Depth(k, 0), k, l, v) :
            c \in {"yuv420", "yuv422", "yuv444"}, k \in {"U8", "U16", "I16"}, l \in {"yuv", "yuva"}, v \in {Mild, Ends}}
    \cup {Request("yuv422", "yuv422", Depth("U10", 0), "U16", "yuva", v) : v \in {Mild, Wide}}

\* Words of several channels, in the order that was asked for.
PackedRequests ==
  {[Request(c, "rgb", Depth(k, 0), k, "rgb", v) EXCEPT !.kept = o] :
      c \in {"yuv444", "yuv420"}, k \in {"Rgb555", "Rgb565", "Rgb101010"}, v \in {Mild, Low}, o \in BOOLEAN}
    \cup {Request("yuv444", "rgbe", Depth("U8", 0), "Rgbe", "rgb", v) : v \in Palettes}

\* Bits of more pixels than a byte has.
BitRequests ==
  {[Request("luma", "luma", Depth(k, 0), "BitPacked", "luma", Mild) EXCEPT
      !.planes = <<Plane(0, 0, 12, 3, v, 1)>>, !.crop = [x |-> 1, y |-> 1, width |-> 10, height |-> 2]] :
      k \in {"Bit1White", "Bit1Black"}, v \in {Mild, Ends}}

\* Every filter of chroma, and the unknown one.
CenteredRequests ==
  {[Request(c, o, Depth("U8", 0), "U8", IF o = "rgb" THEN "rgb" ELSE "yuv", Mild) EXCEPT !.centering = <<h, w>>] :
      c \in {"yuv420", "yuv422"}, o \in {"rgb", "yuv444"}, h \in {0, 2, 4, 7}, w \in {1, 4}}

RefusedRequests ==
  LET job == Request("yuv444", "rgb", Depth("U8", 0), "U8", "rgba", Mild)
  IN  {[job EXCEPT !.alpha = <<>>], [job EXCEPT !.layout = "rgb"], [job EXCEPT !.storage = "U16"],
       [job EXCEPT !.output = "cmyk"], [job EXCEPT !.crop.width = 5],
       [job EXCEPT !.planes = <<@[1], @[2]>>],
       Request("luma", "luma", FloatDepth(24, 1), "F32", "luma", Mild)}

\* One after another, of pipelines that differ in one word, in two, and in none.
Following ==
  LET first == Request("yuv444", "rgb", Depth("U16", 1), "U16", "rgba", Mild)
  IN  {<<first, [first EXCEPT !.scaled = TRUE]>>,
       <<first, [first EXCEPT !.layout = "bgra"], first>>,
       <<first, [first EXCEPT !.alphaDepth.shift = 3], [first EXCEPT !.crop.x = 3, !.premultiply = TRUE]>>,
       <<first, [first EXCEPT !.crop.y = 4]>>,
       <<Request("yuv420", "yuv420", Depth("U8", 0), "U8", "yuva", Mild),
         Request("yuv422", "yuv422", Depth("U8", 0), "U8", "yuva", Mild)>>}

SmallSessions ==
  {<<j>> : j \in Variants(LumaRequests \cup RgbRequests \cup OtherRequests)
                   \cup PackedRequests \cup BitRequests \cup CenteredRequests \cup RefusedRequests}
    \cup Following
=============================================================================
