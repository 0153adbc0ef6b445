------------------------------ MODULE FixParser ------------------------------
(***************************************************************************)
(* The exact conversions of FIX text into ticks, units and identifiers:    *)
(* parsePriceTicks, parseQuantityUnits, extractTargetOrderId and           *)
(* parseConfiguredClientId, in unsigned arithmetic of a given width.       *)
(*                                                                         *)
(* A character is a digit 0..9, the decimal point, or any other one.  A    *)
(* conversion returns a number or the exception it throws.                 *)
(***************************************************************************)
EXTENDS Integers, Sequences, SequencesExt, FiniteSetsExt

CONSTANTS
  MaxUint,         \* std::numeric_limits<std::uint64_t>::max()
  Configurations,  \* InstrumentConfiguration: tick, priceScale, maxPrice, lotSize, maxOrderQuantity
  Alphabet,        \* the characters of the texts that are checked
  MaxTextLength    \* bound of the model: their length

Digits == 0..9
Point == 10
OtherCharacter == 11

Rejected == -1   \* FixValidationError, or std::invalid_argument for a setting
Internal == -2   \* std::logic_error

ASSUME ParserAssumption ==
  /\ MaxUint \in Nat /\ MaxUint >= 10
  /\ Configurations \subseteq [tick: 0..MaxUint, priceScale: Nat, maxPrice: 0..MaxUint,
                               lotSize: 0..MaxUint, maxOrderQuantity: 0..MaxUint]
  /\ Alphabet \subseteq Digits \cup {Point, OtherCharacter}
  /\ MaxTextLength \in Nat

Wrap(n) == n % (MaxUint + 1)

\* powerOfTen throws before the product could wrap.
powerOfTen(exponent) ==
  LET Times10(value) == IF value = Internal \/ value > MaxUint \div 10 THEN Internal ELSE Wrap(value * 10)
      after[n \in 0..exponent] == IF n = 0 THEN 1 ELSE Times10(after[n - 1])
  IN after[exponent]

\* MUTANT: the last digit may pass the maximum.
NextDigitFits_quotientOnly(value, digit, maximum) == value <= maximum \div 10

\* One more digit keeps the value within the maximum.
NextDigitFits(value, digit, maximum) ==
  \/ value < maximum \div 10
  \/ value = maximum \div 10 /\ digit <= maximum % 10

\* The loop over the characters of a text.
DigitLoop(text, maximum) ==
  LET TakeDigit(value, character) ==
        IF value = Rejected \/ character \notin Digits THEN Rejected
        ELSE IF ~NextDigitFits(value, character, maximum) THEN Rejected
        ELSE Wrap(value * 10 + character)
      after[n \in 0..Len(text)] == IF n = 0 THEN 0 ELSE TakeDigit(after[n - 1], text[n])
  IN after[Len(text)]

parseUnsignedWhole(text, maximum) == IF text = <<>> THEN Rejected ELSE DigitLoop(text, maximum)

Points(text) == {i \in DOMAIN text : text[i] = Point}
WholeText(text) == IF Points(text) = {} THEN text ELSE SubSeq(text, 1, Min(Points(text)) - 1)
FractionalText(text) == IF Points(text) = {} THEN <<>> ELSE SubSeq(text, Min(Points(text)) + 1, Len(text))

\* Both conversions begin with the shape of the text.
Malformed(text) ==
  \/ Cardinality(Points(text)) > 1
  \/ WholeText(text) = <<>>
  \/ Points(text) # {} /\ FractionalText(text) = <<>>

\* The fraction in units of the price scale: the digits that are retained, then
\* zeros.  What does not fit the scale has to be zeros.
ScaledFraction(fraction, priceScale) ==
  IF \E i \in DOMAIN fraction : fraction[i] \notin Digits \/ (i > priceScale /\ fraction[i] # 0) THEN Rejected
  ELSE LET digit(n) == IF n <= Len(fraction) THEN fraction[n] ELSE 0
           after[n \in 0..priceScale] == IF n = 0 THEN 0 ELSE Wrap(after[n - 1] * 10 + digit(n))
       IN after[priceScale]

parsePriceTicks(text, c) ==
  LET scaleFactor == powerOfTen(c.priceScale)
      maxScaledPrice == Wrap(c.maxPrice * c.tick)
      whole == parseUnsignedWhole(WholeText(text), maxScaledPrice \div scaleFactor)
      fractional == ScaledFraction(FractionalText(text), c.priceScale)
      scaledWhole == Wrap(whole * scaleFactor)
      scaledPrice == Wrap(scaledWhole + fractional)
  IN
  IF Malformed(text) THEN Rejected
  ELSE IF c.tick = 0 \/ c.maxPrice > MaxUint \div c.tick \/ scaleFactor = Internal THEN Internal
  ELSE IF whole = Rejected \/ fractional = Rejected THEN Rejected
  ELSE IF fractional > Wrap(maxScaledPrice - scaledWhole) THEN Rejected
  ELSE IF scaledPrice = 0 \/ scaledPrice % c.tick # 0 THEN Rejected
  ELSE scaledPrice \div c.tick

parseQuantityUnits(text, c) ==
  LET quantity == parseUnsignedWhole(WholeText(text), c.maxOrderQuantity)
  IN
  IF Malformed(text) \/ \E i \in DOMAIN FractionalText(text) : FractionalText(text)[i] # 0 THEN Rejected
  ELSE IF quantity \in {Rejected, 0} \/ c.lotSize = 0 THEN Rejected
  ELSE IF quantity % c.lotSize # 0 THEN Rejected
  ELSE quantity

extractTargetOrderId(text) ==
  LET value == parseUnsignedWhole(text, MaxUint)
  IN IF value = 0 THEN Rejected ELSE value

\* The same loop, written a second time for the settings.
parseConfiguredClientId(text) ==
  LET value == DigitLoop(text, MaxUint)
  IN IF text = <<>> \/ value = 0 THEN Rejected ELSE value

-----------------------------------------------------------------------------
(* Reference: the numbers the texts denote, in unbounded arithmetic.       *)

Texts == BoundedSeq(Alphabet, MaxTextLength)

IsUnsigned(text) == text # <<>> /\ \A i \in DOMAIN text : text[i] \in Digits
IsDecimal(text) ==
  IsUnsigned(text) \/ \E i \in 2..(Len(text) - 1) :
                        text[i] = Point /\ IsUnsigned(SubSeq(text, 1, i - 1)) /\ IsUnsigned(SubSeq(text, i + 1, Len(text)))

Number(digits) ==
  LET prefix[n \in 0..Len(digits)] == IF n = 0 THEN 0 ELSE 10 * prefix[n - 1] + digits[n]
  IN prefix[Len(digits)]

\* The n-th power of ten; the prover has no theory of exponentiation.
TenTo(n) == LET power[k \in 0..n] == IF k = 0 THEN 1 ELSE 10 * power[k - 1] IN power[n]

\* A text with at most one point denotes Mantissa / Scale.
Mantissa(text) == Number(WholeText(text) \o FractionalText(text))
Scale(text) == TenTo(Len(FractionalText(text)))

\* The multiple of numerator/denominator within 1..maximum that a decimal
\* denotes, if it denotes one.
Multiple(text, numerator, denominator, maximum) ==
  LET dividend == Mantissa(text) * denominator
      divisor == Scale(text) * numerator
  IN IF IsDecimal(text) /\ dividend % divisor = 0 /\ dividend \div divisor \in 1..maximum
     THEN dividend \div divisor ELSE Rejected

ValidTicks(c) == c.tick # 0 /\ c.maxPrice * c.tick <= MaxUint /\ TenTo(c.priceScale) <= MaxUint

Identifier(text) == IF IsUnsigned(text) /\ Number(text) \in 1..MaxUint THEN Number(text) ELSE Rejected

\* Every text converts to the number it denotes.
ExactConversions(c) ==
  \A text \in Texts :
    /\ extractTargetOrderId(text) = Identifier(text)
    /\ parseConfiguredClientId(text) = Identifier(text)
    /\ ValidTicks(c) => parsePriceTicks(text, c) = Multiple(text, c.tick, TenTo(c.priceScale), c.maxPrice)
    /\ ~ValidTicks(c) => parsePriceTicks(text, c) = IF Malformed(text) THEN Rejected ELSE Internal
    /\ c.lotSize # 0 =>
         parseQuantityUnits(text, c) =
           LET units == Multiple(text, 1, 1, c.maxOrderQuantity)
           IN IF units % c.lotSize = 0 THEN units ELSE Rejected

=============================================================================
