-------------------------- MODULE DeviceIdExtraction --------------------------
(***************************************************************************)
(* The search for the Device ID in a video (services/ocr/): frames of the  *)
(* first seconds are read one after the other, each with preprocessings    *)
(* that grow in cost and with every OCR engine, until a reading is         *)
(* confident; if need be the whole video is read once more.                *)
(*                                                                         *)
(* Of what an engine reads only the confidence matters: 0 stands for a     *)
(* text without a Device ID and for an engine or a preprocessing that      *)
(* fails.  (A match of confidence 0, which the code would count as a       *)
(* reading, is taken not to occur.)  The pixels, the text and its          *)
(* normalisation are left out.                                             *)
(***************************************************************************)
EXTENDS Integers, Sequences, FiniteSets, FiniteSetsExt

CONSTANTS
  Engines,       \* the engines of the configured mode, in the order of engines_for
  MinConfidence, \* ocr.min_confidence
  FullScans,     \* values of ocr.full_scan_on_low_confidence
  Frames,        \* what a sampled frame can be: its kind, and how it is read
  Lengths,       \* numbers of frames that a video is sampled into
  Window,        \* how many of them are within max_seconds_scanned
  FullScanCap    \* OCR_FULL_SCAN_MAX_FRAMES

Variants == <<"default", "otsu", "rotated_180">>  \* _PREPROCESS_VARIANTS

\* engines_for returns one engine at least.
ASSUME OcrAssumption ==
  /\ Window \in Nat \ {0} /\ FullScanCap \in Nat \ {0} /\ MinConfidence \in Nat \ {0}
  /\ Len(Engines) \in Nat \ {0} /\ DOMAIN Engines = 1..Len(Engines)
  /\ Lengths \subseteq Nat /\ FullScans \subseteq BOOLEAN
  /\ \A f \in Frames :
        /\ f.kind \in {"text", "blank", "miss"}
        /\ \A v \in DOMAIN Variants, e \in DOMAIN Engines : f.read[Variants[v]][Engines[e]] \in Nat

VARIABLES
  video,    \* the frames
  fullScan, \* full_scan_on_low_confidence
  scan,     \* the scan in progress
  result    \* the extraction of the first scan, then of the call

ocrVars == <<video, fullScan, scan, result>>

Nothing == [confidence |-> 0, frame |-> 0, full |-> FALSE]

OcrTypeOK ==
  /\ \A t \in DOMAIN video : video[t] \in Frames
  /\ fullScan \in BOOLEAN
  /\ scan \in [at : {"frames", "done"}, full : BOOLEAN, next : Nat, examined : Nat,
               best : [confidence : Nat, frame : 0..Len(video), full : BOOLEAN]]
  /\ result \in [confidence : Nat, frame : 0..Len(video), full : BOOLEAN]

OcrInit ==
  /\ \E n \in Lengths : video \in [1..n -> Frames]
  /\ fullScan \in FullScans
  /\ scan = [at |-> "frames", full |-> FALSE, next |-> 1, examined |-> 0, best |-> Nothing]
  /\ result = Nothing

Confident(c) == c >= MinConfidence

-----------------------------------------------------------------------------

\* One preprocessing: every engine is tried, up to the first confident one.
ReadVariant(readings) ==
  LET seen == [e \in DOMAIN Engines |-> readings[Engines[e]]]
      hits == {e \in DOMAIN Engines : Confident(seen[e])}
  IN IF hits = {} THEN Max({seen[e] : e \in DOMAIN Engines}) ELSE seen[Min(hits)]

\* _try_variants_on_frame: a dearer preprocessing only where the cheaper ones
\* found no Device ID at all.
ReadFrame(frame) ==
  LET reading == [v \in DOMAIN Variants |-> ReadVariant(frame.read[Variants[v]])]
      found   == {v \in DOMAIN Variants : reading[v] > 0}
  IN IF found = {} THEN 0 ELSE reading[Min(found)]

\* iter_frames: a full scan goes to the end, the first one to the window's.
LastFrame == IF scan.full THEN Len(video) ELSE Min({Window, Len(video)})

EndOfScan ==
  \/ scan.next > LastFrame
  \/ scan.full /\ scan.examined >= FullScanCap
  \/ Confident(scan.best.confidence)

MutantBetter(c) == c > 0

\* The first of equal readings is kept.
Better(c) == c > scan.best.confidence

\* _scan: a frame that cannot be sought yields nothing, a blank one is skipped.
NextFrame ==
  /\ scan.at = "frames" /\ ~EndOfScan
  /\ LET frame == video[scan.next]
         on    == [scan EXCEPT !.next = @ + 1]
     IN IF frame.kind \in {"blank", "miss"} THEN scan' = on
        ELSE LET c == ReadFrame(frame)
             IN scan' = [on EXCEPT !.examined = @ + 1,
                          !.best = IF Better(c) THEN [confidence |-> c, frame |-> scan.next, full |-> scan.full]
                                   ELSE @]
  /\ UNCHANGED <<video, fullScan, result>>

\* extract: any Device ID at all ends the search, confident or not.
FirstScanEnds ==
  /\ scan.at = "frames" /\ EndOfScan /\ ~scan.full
  /\ result' = scan.best
  /\ scan' = IF scan.best.confidence > 0 \/ ~fullScan THEN [scan EXCEPT !.at = "done"]
             ELSE [scan EXCEPT !.full = TRUE, !.next = 1, !.examined = 0, !.best = Nothing]
  /\ UNCHANGED <<video, fullScan>>

FullScanEnds ==
  /\ scan.at = "frames" /\ EndOfScan /\ scan.full
  /\ result' = IF scan.best.confidence > 0 THEN scan.best ELSE result
  /\ scan' = [scan EXCEPT !.at = "done"]
  /\ UNCHANGED <<video, fullScan>>

OcrNext == NextFrame \/ FirstScanEnds \/ FullScanEnds

OcrSpec == OcrInit /\ [][OcrNext]_ocrVars

-----------------------------------------------------------------------------
(* Properties. *)

\* The frames that the last scan could look at, by their place.
Readable(last) == {t \in 1..last : video[t].kind = "text"}

\* "Among all matches found, keep the one with the highest OCR confidence": what
\* is returned is the first of the best of all the readings that were made, and
\* nothing that came later in time than a confident reading.  (Which frames are read
\* at all is not its subject: no full scan follows an uncertain reading, though the
\* docstring says that one does.)
BestReadingIsReturned ==
  (scan.at = "done" /\ result.confidence > 0) =>
    LET seen == {t \in Readable(IF result.full THEN Len(video) ELSE Min({Window, Len(video)})) :
                   ~result.full \/ Cardinality({u \in Readable(Len(video)) : u <= t}) <= FullScanCap}
        confident == {t \in seen : Confident(ReadFrame(video[t]))}
        best == {t \in seen : \A u \in seen : ReadFrame(video[u]) <= ReadFrame(video[t])}
    IN result.frame = Min(IF confident # {} THEN confident ELSE best)

=============================================================================
