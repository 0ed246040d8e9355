------------------------------ MODULE Numbers -------------------------------
(***************************************************************************)
(* Numbers as the kernel and the user library print them                   *)
(* (kernel/screen.c, user/library/stdio.c) and read them back              *)
(* (user/library/ctype.c), in words of WordSize values.  A character is    *)
(* its code less that of 0: a digit is its value.                          *)
(***************************************************************************)
EXTENDS Integers, SequencesExt

CONSTANT WordSize   \* 2^32

ASSUME NumbersAssumption == WordSize \in Nat \ {0} /\ WordSize % 2 = 0

Word == 0 .. WordSize - 1
Wrap(n) == n % WordSize
Minus == -3
Blank == -16
Signed(n) == IF n < WordSize \div 2 THEN n ELSE n - WordSize

FaultyAccumulator(a, base) ==  \* compares with > instead of >=
    LET acc[x \in Word] == IF x > base THEN Wrap(base * acc[x \div base]) ELSE 1 IN acc[a]

(* _scr_putnum: the first loop finds the weight of the leading digit, *)
Accumulator(a, base) ==
    LET acc[x \in Word] == IF x >= base THEN Wrap(base * acc[x \div base]) ELSE 1 IN acc[a]

(* the second prints digit after digit until the weight is zero. *)
_scr_putnum(a, base) ==
    LET digits[at \in Word \X Word] ==
          LET acc == at[1]
              rest == at[2]
          IN  IF acc = 0 THEN <<>>
              ELSE <<rest \div acc>> \o digits[<<acc \div base, rest % acc>>]
    IN  digits[<<Accumulator(a, base), a>>]

scr_putdec(a) == _scr_putnum(a, 10)

(* The library has the same two loops. *)
putdec(a) == _scr_putnum(a, 10)

(* What "%d" prints, in the kernel and in a program. *)
scr_printf(a) ==
    IF Signed(a) < 0 THEN <<Minus>> \o scr_putdec(Wrap(-Signed(a))) ELSE scr_putdec(a)
printf(a) ==
    IF Signed(a) < 0 THEN <<Minus>> \o putdec(Wrap(-Signed(a))) ELSE putdec(a)

FaultyAtob(digits, base) ==  \* starts with the weight of a number one digit longer
    LET weight[k \in 0 .. Len(digits) + 1] ==
          IF k = 0 THEN 1 ELSE Wrap(weight[k - 1] * base)
        sum[k \in 0 .. Len(digits)] ==
          IF k = 0 THEN 0 ELSE Wrap(sum[k - 1] + weight[Len(digits) - k + 1] * digits[k])
    IN  sum[Len(digits)]

(* atob multiplies a weight up, adds the digits and divides the weight by ten
   after each, whatever base is; the weight is signed. *)
atob(digits, base) ==
    LET start[k \in 0 .. Len(digits)] ==
          IF k = 0 THEN 1 ELSE Wrap(start[k - 1] * base)
        first == Signed(start[Len(digits) - 1])
        Tenth(m) == IF m < 0 THEN -((-m) \div 10) ELSE m \div 10
        mul[k \in 1 .. Len(digits)] == IF k = 1 THEN first ELSE Tenth(mul[k - 1])
        sum[k \in 0 .. Len(digits)] ==
          IF k = 0 THEN 0 ELSE Wrap(sum[k - 1] + mul[k] * digits[k])
    IN  sum[Len(digits)]

(* gets takes the first word of what is typed, scanf "%d" its number. *)
gets(keys) ==
    LET first == CHOOSE i \in DOMAIN keys :
                    keys[i] # Blank /\ \A j \in 1 .. i - 1 : keys[j] = Blank
        last == CHOOSE i \in first .. Len(keys) :
                    keys[i + 1] = Blank /\ \A j \in first .. i : keys[j] # Blank
    IN  SubSeq(keys, first, last)

scanf(keys) == atob(gets(keys), 10)

(* The digits ls counts to line up its columns: a signed division by ten. *)
ls_digits(a) ==
    LET count[j \in 0 .. WordSize \div 2] == IF j = 0 THEN 0 ELSE 1 + count[j \div 10]
    IN  IF a = 0 THEN 1 ELSE count[IF Signed(a) < 0 THEN -Signed(a) ELSE a]

(* The largest weight of a digit is positive as an int (10^9 in words of 32 bits),
   and the longest size fits its column of ls. *)
ASSUME WidthAssumption ==
    /\ Accumulator(WordSize - 1, 10) < WordSize \div 2
    /\ ls_digits(WordSize \div 2) <= 14

(* The column in which __printfile starts the date, after a name of so many
   letters: it pads by acc, its own count of what it has printed. *)
__printfile(letters, bytes) ==
    LET Put(c, counted, printed) == [acc |-> c.acc + counted, at |-> c.at + printed]
        PadTo(c, acc) == IF c.acc < acc THEN Put(c, acc - c.acc, acc - c.acc) ELSE c
        name == [acc |-> letters + 4, at |-> 2 + letters + 4]
        attributes == Put(PadTo(name, 17), 8, 8)
        size == Put(PadTo(attributes, 32), ls_digits(bytes), Len(scr_printf(bytes)))
    IN  PadTo(size, 46).at
=============================================================================
