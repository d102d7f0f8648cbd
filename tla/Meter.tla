-------------------------------- MODULE Meter --------------------------------
(***************************************************************************)
(* What one bridge promises to the inverter, whatever happens upstream:    *)
(* a meter that either is silent or shows one complete and recent sample.  *)
(*                                                                         *)
(*   - the registers change only as a whole, to a sample whose critical    *)
(*     quantities were all read from the source, within SampleTime;        *)
(*   - it answers only while that sample is at most MaxRealAge old,        *)
(*     counted from the moment the source was asked for it.                *)
(*                                                                         *)
(* Bridge.tla implements it.                                               *)
(***************************************************************************)
EXTENDS Integers

CONSTANTS
    Images,      \* the register images a complete sample can have
    NoImage,     \* the datastore as it is built, before any sample
    SampleTime,  \* the longest it takes to read one sample
    MaxRealAge   \* the oldest sample the meter may show

VARIABLES
    answering,  \* "yes": a request would be answered; "no": silence
    image,      \* the registers it would be answered from
    age         \* ticks since the source was asked for them, saturated

meterVars == <<answering, image, age>>

TooOld == MaxRealAge + 1

MeterInit ==
    /\ answering = "no"
    /\ image = NoImage
    /\ age = TooOld

NewSample ==
    /\ image' \in Images
    /\ age' \in 0 .. SampleTime
    /\ UNCHANGED answering

Answer ==
    /\ age <= MaxRealAge
    /\ answering' = "yes"
    /\ UNCHANGED <<image, age>>

FallSilent ==
    /\ answering' = "no"
    /\ UNCHANGED <<image, age>>

\* Time passes; the meter must have fallen silent before its sample is too old.
GrowOlder ==
    /\ answering = "yes" => age < MaxRealAge
    /\ age' = IF age < TooOld THEN age + 1 ELSE TooOld
    /\ UNCHANGED <<answering, image>>

MeterNext == NewSample \/ Answer \/ FallSilent \/ GrowOlder

MeterSpec == MeterInit /\ [][MeterNext]_meterVars
=============================================================================
