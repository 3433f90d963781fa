----------------------------- MODULE AudioBlocks -----------------------------
(***************************************************************************)
(* The audio blocks of one syncframe (crates/openjoc-eac3, audio_block.rs, *)
(* decode_audio_blocks).  A block need not repeat what an earlier block of *)
(* the frame has sent: AudioBlockState keeps it, and the parsers decide    *)
(* for every field whether it is read, inherited, or missing.              *)
(*                                                                         *)
(* What was sent is the block that sent it and its number of bands; code   *)
(* words and samples are left out, and with them the parameters that are   *)
(* only replaced (dynamic range, bit allocation, delta allocation), the    *)
(* LFE and AHT.  Fast gains, which in AC-3 come with the SNR offsets and   *)
(* in E-AC-3 with every block, lack a coupling code only if they do.       *)
(* Channels are two: those of a stereo frame, or any two of more.          *)
(*                                                                         *)
(* Three parsers read a prefix: parse_first_prefix_reader the first block  *)
(* of E-AC-3, parse_audio_block_prefix_reader the others, and              *)
(* parse_ac3_audio_block_prefix_reader every block of AC-3.  A definition  *)
(* stands for its part of all three; index and codec say where they differ.*)
(***************************************************************************)
EXTENDS Integers, FiniteSets, Sequences

CONSTANTS
  Absent,         \* the absent value of an Option
  MaxBlocks,      \* blocks of the frame
  SpxCodes,       \* spxbegf, below 6
  StandardCodes,  \* cplbegf of standard coupling
  EnhancedCodes,  \* ecplbegf, below 3
  SpxEnd, StandardEnd, EnhancedEnd, \* the subbands behind the regions, unless derived
  FullEnd         \* where a channel with a bandwidth of its own ends

ASSUME CodeAssumption ==
  /\ SpxCodes \cup StandardCodes \cup EnhancedCodes \subseteq Nat
  /\ {SpxEnd, StandardEnd, EnhancedEnd} \subseteq Nat

Channels == {1, 2}

VARIABLES
  codec,          \* "AC-3" or "E-AC-3"
  stereo,         \* audio_coding_mode = 2
  frameSnr,       \* snr_offset_strategy = 0
  varied,         \* bound: the one group of fields that differs between blocks
  index,          \* block_index
  refused,        \* a block was refused, and with it the frame
  spx,            \* spectral_extension
  coupling,       \* coupling
  boundaries,     \* standard_coupling_structure: the subbands merged with the one below
  firstSpx,       \* first_spx_coordinates
  firstCoupling,  \* first_coupling_coordinates
  rematrix,       \* number of rematrix_flags
  ends,           \* channel_end_mantissas
  exponents,      \* channel_exponents
  couplingExponents,
  snr,            \* snr_offsets and fast_gain_codes have codes for coupling
  leak,           \* coupling_leak
  latest,         \* history: the block that last sent an item, since its tool is in use
  structures      \* history: the standard band structures sent

audioVars == <<codec, stereo, frameSnr, varied, index, refused, spx, coupling, boundaries,
               firstSpx, firstCoupling, rematrix, ends, exponents, couplingExponents, snr,
               leak, latest, structures>>

\* What a block may send or leave out: coordinates, exponents and leak are inherited.
PerChannel(t) == {t} \X Channels
Leak == <<"leak", 0>>
CouplingExponents == <<"exponents", 0>>
Followed == PerChannel("spx") \cup PerChannel("coupling") \cup {Leak, CouplingExponents}
Rematrix == <<"rematrix", 0>>
Snr == <<"snr", 0>>
Items == Followed \cup PerChannel("channel") \cup {Rematrix, Snr}

Nothing == [c \in Channels |-> Absent]
Inner(from, to) == from + 1 .. to - 1
Least(a, b) == IF a < b THEN a ELSE b

SpxDefault == {8, 10, 12, 14, 16}                          \* DEFAULT_SPX_BAND_STRUCTURE
StandardDefault == {8, 10, 11} \cup 13 .. 17               \* DEFAULT_STANDARD_COUPLING_STRUCTURE
EnhancedDefault == {9, 11, 13, 15, 16, 17, 19, 20, 21}     \* DEFAULT_ENHANCED_COUPLING_STRUCTURE

AudioInit ==
  /\ codec \in {"AC-3", "E-AC-3"} /\ stereo \in BOOLEAN /\ frameSnr \in BOOLEAN
  /\ codec = "AC-3" => ~frameSnr
  /\ varied \in {"spx", "coupling", "structure", "exponents", "allocation"}
  /\ index = 0 /\ refused = FALSE
  /\ spx = Absent /\ coupling = Absent /\ boundaries = StandardDefault
  /\ firstSpx = Channels /\ firstCoupling = Channels
  /\ rematrix = 0 /\ ends = [c \in Channels |-> 0] /\ exponents = Nothing
  /\ couplingExponents = Absent /\ snr = FALSE /\ leak = Absent
  /\ latest = [i \in Followed |-> Absent] /\ structures = <<>>

-----------------------------------------------------------------------------
(***************************************************************************)
(* Spectral extension: parse_first_spx, parse_following_spx.  Without a    *)
(* strategy the last one stays, and in the first block there is none.      *)
(***************************************************************************)
SpxBegin(code) == code + 2
SpxInner(code) == Inner(SpxBegin(code), SpxEnd)

\* A structure that is not sent is that of the same region, or the default.
SpxStructures(code) ==
  LET kept == IF spx # Absent /\ spx.code = code THEN spx.merged ELSE SpxDefault \cap SpxInner(code)
  IN {kept} \cup (IF varied = "spx" THEN {{}, SpxInner(code)} ELSE {})

NewSpx(code, merged, use, sent) ==
  LET bands == SpxEnd - SpxBegin(code) - Cardinality(merged)
      Old(c) == IF spx = Absent THEN Absent ELSE spx.coordinates[c]
      Got(c) == IF c \notin use THEN Absent
                ELSE IF <<"spx", c>> \in sent THEN [block |-> index, size |-> bands] ELSE Old(c)
  IN
  /\ \A c \in use : c \in firstSpx => <<"spx", c>> \in sent
  /\ \A c \in use : Got(c) # Absent /\ Got(c).size = bands  \* synthesize_spectral_extension
  /\ spx' = [code |-> code, merged |-> merged, use |-> use,
             coordinates |-> [c \in Channels |-> Got(c)]]
  /\ firstSpx' = Channels \ use

ReadSpx(sent) ==
  \/ PerChannel("spx") \cap sent = {} /\ UNCHANGED <<spx, firstSpx>>
  \/ codec = "E-AC-3" /\ spx' = Absent /\ firstSpx' = Channels
  \/ /\ codec = "E-AC-3"
     /\ \E code \in SpxCodes, use \in IF varied = "spx" THEN SUBSET Channels ELSE {Channels} :
          \E merged \in SpxStructures(code) : NewSpx(code, merged, use, sent)

-----------------------------------------------------------------------------
(***************************************************************************)
(* Coupling.  Subbands of the two kinds have edges of their own; a region  *)
(* below a spectral extension ends where that begins.                      *)
(***************************************************************************)
Edge(kind, subband) ==
  IF kind = "standard" THEN 37 + 12 * subband
  ELSE IF subband <= 4 THEN 13 + 6 * subband ELSE 12 * subband - 11

Begin(kind, code) == IF kind = "standard" THEN code ELSE 2 * code

EndSubband(kind) ==
  IF spx' # Absent THEN spx'.code + (IF kind = "standard" THEN 1 ELSE 5)
  ELSE IF kind = "standard" THEN StandardEnd ELSE EnhancedEnd

CouplingInner(s) == Inner(Begin(s.kind, s.code), s.end)
Bands(s) == s.end - Begin(s.kind, s.code) - Cardinality(s.merged)
Start(s) == Edge(s.kind, Begin(s.kind, s.code))
Size(s) == Edge(s.kind, s.end) - Start(s)

\* Enhanced coupling sends merges from subband 9 on, in AC-3 they are always sent.
Sent(kind, inner) ==
  (IF codec = "AC-3" THEN {} ELSE {Absent})
    \cup (IF (codec = "AC-3") \/ varied = "structure"
            THEN {{}, IF kind = "standard" THEN inner ELSE inner \cap 9 .. 21} ELSE {})

Shapes ==
  {s \in [kind : IF codec = "AC-3" THEN {"standard"} ELSE {"standard", "enhanced"},
          code : StandardCodes \cup EnhancedCodes,
          end : {EndSubband("standard"), EndSubband("enhanced")}] :
     /\ s.code \in IF s.kind = "standard" THEN StandardCodes ELSE EnhancedCodes
     /\ s.end = EndSubband(s.kind)
     /\ Begin(s.kind, s.code) < s.end}

Uses(kind) ==
  IF (codec = "E-AC-3" /\ stereo) \/ varied # "coupling" THEN {Channels}
  ELSE {u \in SUBSET Channels : codec = "AC-3" \/ kind = "enhanced" => u # {}}

\* merge_reusable_coupling; AC-3 goes back to the coordinates before in any case.
Reusable(s) ==
  /\ coupling # Absent
  /\ codec = "E-AC-3" =>
       /\ coupling.kind = s.kind /\ coupling.code = s.code /\ coupling.end = s.end
       /\ Bands(coupling) = Bands(s)

\* A new strategy starts from the coordinates and phase flags it may reuse; the flags come
\* along whether or not it has phase flags in use.  No property looks at whose they are.
Strategy(shape, news, use, phased) ==
  LET inner == Inner(Begin(shape.kind, shape.code), shape.end)
      merged == IF news # Absent THEN news
                ELSE inner \cap IF shape.kind = "standard" THEN boundaries ELSE EnhancedDefault
      s == [kind |-> shape.kind, code |-> shape.code, end |-> shape.end, merged |-> merged]
  IN [kind |-> s.kind, code |-> s.code, end |-> s.end, merged |-> merged, use |-> use,
      phased |-> phased,
      coordinates |-> IF Reusable(s) THEN coupling.coordinates ELSE Nothing,
      phase |-> IF Reusable(s) THEN coupling.phase ELSE Absent]

\* The coordinates, with which the block must then be decoded:
\* reconstruct_standard_coupling, reconstruct_enhanced_coupling.
ReadCoordinates(base, sent) ==
  LET given == {c \in base.use : <<"coupling", c>> \in sent}
      Got(c) == IF c \in given THEN [block |-> index, size |-> Bands(base)]
                ELSE IF c \notin base.use /\ codec = "AC-3" THEN Absent ELSE base.coordinates[c]
      phase == IF base.phased /\ given # {} THEN Bands(base) ELSE base.phase
  IN
  /\ codec = "E-AC-3" => base.use \cap firstCoupling \subseteq given
  /\ \A c \in base.use : Got(c) # Absent /\ Got(c).size = Bands(base)
  /\ base.use # {} => IF base.kind = "standard" THEN phase \in {Absent, Bands(base)}
                      ELSE \A c \in Channels \ base.use : Got(c) = Absent
  /\ coupling' = [base EXCEPT !.coordinates = [c \in Channels |-> Got(c)], !.phase = phase]
  /\ firstCoupling' = IF codec = "E-AC-3" THEN Channels \ base.use ELSE firstCoupling

WholeRegion(s) ==  \* mutant: the first subband of a region loses its boundary
  CouplingInner(s) \cup {Begin(s.kind, s.code)}

\* The implicit first boundary of a region is not overwritten (seed_first).
Overwritten(s) == CouplingInner(s)

KeepBoundaries(s, news) ==
  IF codec = "E-AC-3" /\ s.kind = "standard" /\ news # Absent
    THEN /\ boundaries' = (boundaries \ Overwritten(s)) \cup news
         /\ structures' = Append(structures, [inner |-> CouplingInner(s), merged |-> news])
    ELSE UNCHANGED <<boundaries, structures>>

ReadCoupling(sent) ==
  \/ /\ coupling' = Absent
     /\ firstCoupling' = IF codec = "E-AC-3" THEN Channels ELSE firstCoupling
     /\ UNCHANGED <<boundaries, structures>>
  \/ /\ coupling # Absent
     /\ ReadCoordinates(coupling, sent)
     /\ UNCHANGED <<boundaries, structures>>
  \/ \E shape \in Shapes : \E use \in Uses(shape.kind),
       phased \in IF stereo /\ shape.kind = "standard" THEN BOOLEAN ELSE {FALSE},
       news \in Sent(shape.kind, Inner(Begin(shape.kind, shape.code), shape.end)) :
         LET s == Strategy(shape, news, use, phased)
         IN ReadCoordinates(s, sent) /\ KeepBoundaries(s, news)

-----------------------------------------------------------------------------
(***************************************************************************)
(* The rest of the prefix: rematrix flags, the bandwidth and exponents of  *)
(* the channels, coupling exponents, SNR offsets and leak.                 *)
(***************************************************************************)
RematrixBands ==
  IF coupling' = Absent THEN IF spx' # Absent /\ spx'.code < 2 THEN 3 ELSE 4
  ELSE IF coupling'.kind = "enhanced" THEN <<0, 1, 2, 3, 3, 4>>[Least(coupling'.code, 5) + 1]
  ELSE <<2, 3, 3, 4>>[Least(coupling'.code, 3) + 1]

ReadRematrix(sent) ==
  /\ rematrix' = IF ~stereo THEN 0
                 ELSE IF Rematrix \in sent \/ (index = 0 /\ codec = "E-AC-3") THEN RematrixBands
                 ELSE IF index = 0 THEN 4 ELSE rematrix
  /\ stereo => rematrix' = RematrixBands  \* rematrix_channels

Coupled(c) == coupling' # Absent /\ c \in coupling'.use

\* coupling_end_mantissa, in the blocks behind the first one.
CoupledEnd(s) ==
  IF s.kind = "standard" THEN Start(s) ELSE Edge(s.kind, s.end)

ChannelEnd(c, sent) ==
  IF Coupled(c) THEN IF index = 0 THEN Start(coupling') ELSE CoupledEnd(coupling')
  ELSE IF spx' # Absent /\ c \in spx'.use THEN 25 + 12 * SpxBegin(spx'.code)
  ELSE IF <<"channel", c>> \in sent THEN FullEnd ELSE ends[c]

ReadExponents(sent) ==
  /\ index = 0 => PerChannel("channel") \subseteq sent
  /\ ends' = [c \in Channels |-> ChannelEnd(c, sent)]
  /\ exponents' = [c \in Channels |-> IF <<"channel", c>> \in sent
                                        THEN [block |-> index, end |-> ends'[c]] ELSE exponents[c]]
  /\ couplingExponents' =
       IF coupling' = Absent THEN Absent
       ELSE IF CouplingExponents \in sent THEN [block |-> index, size |-> Size(coupling')]
       ELSE couplingExponents
  /\ coupling' # Absent =>
       /\ couplingExponents' # Absent
       /\ coupling'.use # {} => couplingExponents'.size = Size(coupling')

\* Offsets coded for the frame are spread over the elements of its first block.
ReadAllocation(sent) ==
  /\ index = 0 => Snr \in sent
  /\ snr' = IF index = 0 \/ (~frameSnr /\ Snr \in sent) THEN coupling' # Absent ELSE snr
  /\ coupling' # Absent /\ coupling'.use # {} => snr'  \* decode_channel_mantissas
  /\ codec = "E-AC-3" /\ coupling = Absent /\ coupling' # Absent => Leak \in sent  \* first_coupling_leak
  /\ leak' = IF coupling' = Absent THEN Absent ELSE IF Leak \in sent THEN index ELSE leak
  /\ coupling' # Absent => leak' # Absent

-----------------------------------------------------------------------------
\* What a block leaves out: any of one group of items, and the coordinates that
\* are not read because there is no new SPX strategy.
Optional ==
  CASE varied = "spx" -> PerChannel("spx")
    [] varied \in {"coupling", "structure"} -> PerChannel("coupling")
    [] varied = "exponents" -> PerChannel("channel") \cup {CouplingExponents}
    [] varied = "allocation" -> {Leak, Snr, Rematrix}

Transmissions ==
  {Items \ (left \cup skipped) : left \in SUBSET Optional, skipped \in {{}, PerChannel("spx")}}

InUse(item) ==
  CASE item[1] = "spx" -> spx' # Absent /\ item[2] \in spx'.use
    [] item[1] = "coupling" -> Coupled(item[2])
    [] OTHER -> coupling' # Absent

AudioBlock ==
  /\ index < MaxBlocks /\ ~refused
  /\ \E sent \in Transmissions :
       /\ ReadSpx(sent) /\ ReadCoupling(sent) /\ ReadRematrix(sent)
       /\ ReadExponents(sent) /\ ReadAllocation(sent)
       /\ latest' = [i \in Followed |-> IF ~InUse(i) THEN Absent
                                        ELSE IF i \in sent THEN index ELSE latest[i]]
  /\ index' = index + 1
  /\ UNCHANGED <<codec, stereo, frameSnr, varied, refused>>

\* A block may be malformed, and one that inherits what was never sent is refused.
RefuseBlock ==
  /\ index < MaxBlocks /\ ~refused
  /\ refused' = TRUE
  /\ UNCHANGED <<codec, stereo, frameSnr, varied, index, spx, coupling, boundaries, firstSpx,
                 firstCoupling, rematrix, ends, exponents, couplingExponents, snr, leak,
                 latest, structures>>

AudioNext == AudioBlock \/ RefuseBlock
AudioSpec == AudioInit /\ [][AudioNext]_audioVars

-----------------------------------------------------------------------------
(* Properties *)

Given == [block : 0 .. MaxBlocks - 1, size : 1 .. 252]
Coordinates == [Channels -> Given \cup {Absent}]

\* Every variable of the state keeps its type; a region is never empty and never has more
\* bands than subbands, and no element ends behind the spectrum.
AudioTypeOK ==
  /\ codec \in {"AC-3", "E-AC-3"} /\ {stereo, frameSnr, refused, snr} \subseteq BOOLEAN
  /\ index \in 0 .. MaxBlocks
  /\ spx # Absent =>
       /\ spx.code \in SpxCodes /\ spx.merged \subseteq SpxInner(spx.code)
       /\ spx.use \subseteq Channels /\ spx.coordinates \in Coordinates
  /\ coupling # Absent =>
       /\ coupling.merged \subseteq CouplingInner(coupling)
       /\ coupling.use \subseteq Channels /\ coupling.coordinates \in Coordinates
       /\ coupling.phase \in 1 .. 22 \cup {Absent} /\ Size(coupling) > 0
  /\ boundaries \subseteq 1 .. 17
  /\ firstSpx \subseteq Channels /\ firstCoupling \subseteq Channels
  /\ rematrix \in 0 .. 4 /\ ends \in [Channels -> 0 .. FullEnd]
  /\ couplingExponents \in Given \cup {Absent}
  /\ leak \in 0 .. MaxBlocks \cup {Absent}

\* The band structure a standard region has inherited: for every subband what was last
\* sent for it in this frame, in a region it was inside of, else the default.
LastStructure(s) ==
  {b \in CouplingInner(s) :
     LET sendings == {i \in DOMAIN structures : b \in structures[i].inner}
     IN IF sendings = {} THEN b \in StandardDefault
        ELSE b \in structures[CHOOSE i \in sendings : \A j \in sendings : j <= i].merged}

\* Whatever a block leaves out is what was sent last in this frame while the tool was in
\* use, however often the tool was switched off, given to other channels or moved to
\* another region in between: the coordinates of every channel, for as many bands as the
\* region has now, the exponents and the leak of the coupling channel, and the band
\* structure of standard coupling, subband by subband.
InheritsLatest ==
  /\ spx # Absent => \A c \in spx.use :
       /\ spx.coordinates[c].block = latest[<<"spx", c>>]
       /\ spx.coordinates[c].size = SpxEnd - SpxBegin(spx.code) - Cardinality(spx.merged)
  /\ coupling # Absent =>
       /\ \A c \in coupling.use :
            /\ coupling.coordinates[c].block = latest[<<"coupling", c>>]
            /\ coupling.coordinates[c].size = Bands(coupling)
       /\ leak = latest[Leak] /\ couplingExponents.block = latest[CouplingExponents]
       /\ codec = "E-AC-3" /\ coupling.kind = "standard" => coupling.merged = LastStructure(coupling)

\* What docs/PROVENANCE.md says of channels in coupling: their own exponents end where
\* the coupled region begins.
ChannelsEndAtCoupling ==
  coupling # Absent => \A c \in coupling.use :
    exponents[c].block = index - 1 => exponents[c].end = Start(coupling)
=============================================================================
