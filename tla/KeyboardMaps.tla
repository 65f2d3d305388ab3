---------------------------- MODULE KeyboardMaps ----------------------------
(***************************************************************************)
(* Keyboard maps: what each physical key types in a layout, which key event *)
(* a typed character stands for, and which positions of English punctuation *)
(* type a letter in the other layout.                                       *)
(*                                                                         *)
(* Abstracted data: a character is a sign, its script and its case, and a   *)
(* map is two rows over any number of keys (34 in the code).                *)
(***************************************************************************)
EXTENDS Integers, Sequences

CONSTANT KeyCount       \* PhysicalKey::COUNT

ASSUME KeyCountAssumption == KeyCount \in Nat

Key == 1..KeyCount      \* PhysicalKey, by its index

Letter(sign, script, upper) == [sign |-> sign, script |-> script, upper |-> upper]
Mark(sign) == Letter(sign, "none", FALSE)

NoEvent == [physical_key |-> 0, shift |-> FALSE]

ToLower(char) == [char EXCEPT !.upper = FALSE]
IsAlphabetic(char) == char.script \in {"latin", "cyrillic"}
IsAsciiAlphabetic(char) == char.script = "latin"

-----------------------------------------------------------------------------
(* Building a map                                                           *)

IsSupported(char) == char.script \notin {"combining", "surrogate"}

\* from_rows refuses rows that are too short or too long, or hold a character
\* that is not one unit on its own.
RowsAreValid(rows) ==
    \A row \in {rows.unshifted, rows.shifted} :
        Len(row) = KeyCount /\ \A i \in DOMAIN row : IsSupported(row[i])

Render(map, event) ==
    IF event.shift THEN map.shifted[event.physical_key]
                   ELSE map.unshifted[event.physical_key]

\* Events in the order build_lookup enters them.
EventAt(n) == [physical_key |-> (n + 1) \div 2, shift |-> n % 2 = 0]

\* The lookup table: the first key that types a character keeps it.
Lookup(map, char) ==
    LET typing == {n \in 1..(2 * KeyCount) : Render(map, EventAt(n)) = char}
    IN  IF typing = {} THEN NoEvent
        ELSE EventAt(CHOOSE n \in typing : \A m \in typing : n <= m)

-----------------------------------------------------------------------------
(* From a typed character to a key event                                    *)

\* Mistake: the case of the character decides, also on the shifted row.
ShiftForCaseAlways(event, char) == [event EXCEPT !.shift = char.upper]

ShiftForCase(event, char) ==
    IF event.shift THEN event ELSE [event EXCEPT !.shift = char.upper]

\* The lower-case character is looked up first, the character itself after.
MapEventFromChar(map, char) ==
    LET event == Lookup(map, ToLower(char))
    IN  IF event # NoEvent THEN ShiftForCase(event, char) ELSE Lookup(map, char)

BundleEventFromChar(english, secondary, char) ==
    LET event == MapEventFromChar(english, char)
    IN  IF event # NoEvent THEN event ELSE MapEventFromChar(secondary, char)

\* LetterEvent::from_char and PhysicalKey::from_char know the English layout
\* alone, by tables of their own: where each sign stands, and which signs
\* take shift.
FromChar(places, char) ==
    IF ToLower(char).sign \notin DOMAIN places THEN NoEvent
    ELSE LET place == places[ToLower(char).sign]
         IN  [physical_key |-> place.physical_key,
              shift |-> place.shift \/ char.upper]

Candidate(map, letters) == [i \in DOMAIN letters |-> Render(map, letters[i])]

RenderCandidates(english, secondary, letters) ==
    [english |-> Candidate(english, letters),
     secondary |-> Candidate(secondary, letters)]

-----------------------------------------------------------------------------
(* Punctuation that is a letter in the other layout                         *)

PunctuationLetterKeysAgainst(map, primary) ==
    {Render(primary, event) : event \in
        {EventAt(n) : n \in {m \in 1..(2 * KeyCount) :
            /\ ~IsAsciiAlphabetic(Render(primary, EventAt(m)))
            /\ IsAlphabetic(Render(map, EventAt(m)))}}}

-----------------------------------------------------------------------------
(* What the maps promise                                                    *)

CharsOf(map) == {Render(map, EventAt(n)) : n \in 1..(2 * KeyCount)}

\* A letter stands below its capital, on one key.  from_rows does not ask it.
Cased(map) ==
    \A k \in Key :
        LET low == map.unshifted[k]
            high == map.shifted[k]
        IN  IF IsAlphabetic(low) THEN ~low.upper /\ high = [low EXCEPT !.upper = TRUE]
                                 ELSE ~IsAlphabetic(high)

=============================================================================
