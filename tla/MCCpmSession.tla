---------------------------- MODULE MCCpmSession ----------------------------
(***************************************************************************)
(* The two formats of main() and definition files of a few formats, most   *)
(* of them those of cpmdisks.def; one file stops being read at a number    *)
(* that is missing, two hold tabs, one an END without its BEGIN, and one a *)
(* format whose numbers its fields do not keep.                            *)
(***************************************************************************)
EXTENDS CpmSession

word(w) == [type |-> "keyword", value |-> w]
name(s) == [type |-> "string", value |-> s]
num(n) == [type |-> "number", value |-> n]
comma == [type |-> "comma", value |-> 0]
eol == [type |-> "EOL", value |-> 0]
tab == [type |-> "other", value |-> 0]
again(t) == [type |-> "again", value |-> t]

set(w, n) == <<word(w), num(n)>>
begin(id) == << <<word("BEGIN"), name(id), name("described"), eol>> >>
shape(cylinders, sides, secs, bps, skew) ==
  << <<word("DENSITY"), word("MFM"), comma, word("LOW"), eol>>,
     set("CYLINDERS", cylinders) \o set("SIDES", sides)
     \o <<word("SECTORS"), num(secs), comma, num(bps)>> \o set("SKEW", skew) \o <<eol>> >>
side(w, head, a, b, c) ==
  << set(w, head) \o <<num(b), comma, num(a), comma, num(c), eol>> >>
blocks(bsh, exm, dsm, drm, al0, ofs) ==
  << set("BSH", bsh) \o set("BLM", 2 ^ bsh - 1) \o set("EXM", exm) \o <<eol>>,
     set("DSM", dsm) \o set("DRM", drm) \o set("AL0", al0) \o set("AL1", 0) \o <<eol>>,
     set("OFS", ofs) \o <<eol>> >>
order(w) == << <<word("ORDER"), word(w), eol>> >>
end == << <<word("END"), eol>> >>

DA1A == begin("DA1A") \o shape(40, 1, 9, 512, 5) \o side("SIDE1", 0, 193, 194, 201)
        \o blocks(3, 0, 179, 63, 192, 0) \o end
PC1A == begin("PC1A") \o shape(40, 1, 9, 512, 2) \o side("SIDE1", 0, 1, 2, 9)
        \o blocks(3, 0, 174, 63, 192, 1) \o end
ZX0 == begin("ZX0") \o shape(40, 1, 9, 512, 3) \o side("SIDE1", 0, 1, 2, 9)
       \o << <<word("LABEL"), name("ZX0"), eol>> >> \o blocks(3, 0, 174, 63, 192, 1) \o end
\* Formats of the kind of DAT5, DDOB, SBIG, DX2A, DXT5 and DA1B on fewer tracks.
TWO == begin("TWO") \o shape(5, 2, 9, 512, 2) \o side("SIDE1", 0, 1, 2, 9)
       \o side("SIDE2", 1, 11, 12, 19) \o order("SIDES") \o blocks(4, 1, 19, 63, 128, 1) \o end
TWIN == begin("TWIN") \o shape(5, 2, 9, 512, 2) \o side("SIDE1", 0, 1, 2, 9)
        \o side("SIDE2", 1, 21, 22, 29) \o order("SIDES") \o blocks(4, 1, 19, 63, 128, 1) \o end
BIG == begin("BIG") \o shape(4, 2, 10, 256, 4) \o side("SIDE1", 0, 17, 18, 26)
       \o side("SIDE2", 0, 17, 18, 26) \o order("SIDES") \o blocks(5, 3, 4, 127, 128, 0) \o end
BACK == begin("BACK") \o shape(4, 2, 9, 512, 2) \o side("SIDE1", 0, 193, 194, 201)
        \o side("SIDE2", 0, 193, 194, 201) \o order("EAGLE") \o blocks(3, 0, 17, 63, 192, 4) \o end
WIDE == begin("WIDE") \o shape(4, 1, 5, 1024, 1) \o side("SIDE1", 0, 1, 2, 5)
        \o blocks(4, 0, 9, 63, 128, 0) \o end
HUGE == begin("HUGE") \o shape(4, 1, 2, 2048, 1) \o side("SIDE1", 0, 1, 2, 2)
        \o blocks(4, 0, 7, 63, 128, 0) \o end
ROUND == begin("ROUND") \o shape(6, 2, 3, 512, 0) \o side("SIDE1", 0, 1, 2, 3)
         \o side("SIDE2", 1, 1, 2, 3) \o order("CYLINDERS") \o blocks(3, 0, 7, 31, 128, 0) \o end

\* Numbers of 256 and 65536 more than those of a format on few tracks.
ODD == begin("ODD") \o shape(65540, 1, 4, 512, 1) \o side("SIDE1", 256, 65537, 65538, 65540)
       \o blocks(3, 256, 7, 31, 384, 0) \o end

note == << <<word("NOTE"), name("of"), word("END"), tab, eol>> >>
missing == << <<word("BSH"), eol>> >>

MCDefs == {note \o DA1A \o PC1A \o ZX0 \o TWO,
           TWIN \o BIG \o TWO \o BACK \o TWO \o BIG,
           WIDE \o begin("STOP") \o missing \o PC1A,
           ROUND \o DA1A \o begin("TABS") \o << <<word("BSH"), num(3), tab, eol>> >>,
           end \o HUGE \o WIDE \o ROUND,
           ODD \o PC1A \o << <<word("SECTORS"), num(9), again(num(9))>> >> \o DA1A,
           begin("LOST") \o << <<word("LABEL"), eol>> >>}

MCBuiltIn ==
  LET data == [EmptyFormat EXCEPT !.SEC1_side1 = 193, !.SEC1_side2 = 193, !.SECS = 9,
                 !.TRKS = 40, !.HDS = 1, !.BPS = 512, !.BSH = 3, !.BLM = 7, !.DSM = 179,
                 !.DRM = 63, !.AL0 = 192, !.skew = 5]
  IN <<[ident |-> "DATA", dpb |-> data],
       [ident |-> "SYSTEM",
        dpb |-> [data EXCEPT !.SEC1_side1 = 65, !.SEC1_side2 = 65, !.DSM = 170, !.OFS = 2]]>>

\* The formats of the instance are as the theorems about sessions ask for.
ASSUME MCFormatsFit == FormatsFit /\ SizesFit /\ MasksFit /\ BlocksFit

=============================================================================
