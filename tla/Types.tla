-------------------------------- MODULE Types --------------------------------
(***************************************************************************)
(* The conversions of middleware/util/mls_type.c between numbers, the      *)
(* bytes of a frame (the highest first) and the hexadecimal digits of the  *)
(* configuration store, and what they keep: a value that is written and    *)
(* read again is the same value, and nothing beside it is touched.         *)
(*                                                                         *)
(* A number n is shifted right by 8 as n \div 256, which rounds down below *)
(* zero as well, and masked with 0xff as n % 256.  A string is a sequence  *)
(* of digits: what sprintf("%02X") writes and strtoul(, 16) reads.         *)
(***************************************************************************)
EXTENDS Integers, SequenceTheorems, TLAPS

Byte == 0..255
Digit == 0..15
\* How many numbers there are of 32 bits.
Uint == 4294967296
\* What a signed number of that width can be.
InWidth(n, width) == n \in Int /\ -width <= 2 * n /\ 2 * n < width
-----------------------------------------------------------------------------
\* The bytes of a number of 16, 32 and 64 bits, which higher bits do not reach.
ushort_to_bytearray(n) == <<(n \div 256) % 256, n % 256>>
uint_to_bytearray(n) ==
  <<(n \div 16777216) % 256, (n \div 65536) % 256, (n \div 256) % 256, n % 256>>
ull_to_bytearray(n) ==
  uint_to_bytearray(n \div 4294967296) \o uint_to_bytearray(n % 4294967296)

bytearray_to_ushort(b) == 256 * b[1] + b[2]
bytearray_to_uint(b) == 16777216 * b[1] + 65536 * b[2] + 256 * b[3] + b[4]
bytearray_to_ull(b) ==
  4294967296 * bytearray_to_uint(SubSeq(b, 1, 4)) + bytearray_to_uint(SubSeq(b, 5, 8))

\* An unsigned number put into a signed one of the same width.
Signed(n, width) == IF 2 * n < width THEN n ELSE n - width

\* outb, with the bytes b written over its begin.
Over(outb, b) == [i \in 1..Len(outb) |-> IF i <= Len(b) THEN b[i] ELSE outb[i]]

\* The assertion before a buffer of len bytes is written or read.
Fits(size, len) == size <= len

\* They take their size off *len.
set_char(buf, len, src) == [buf |-> Over(buf, <<src % 256>>), len |-> len - 1]
set_short(buf, len, src) ==
  [buf |-> Over(buf, ushort_to_bytearray(src)), len |-> len - 2]
set_int(buf, len, src) ==
  [buf |-> Over(buf, uint_to_bytearray(src)), len |-> len - 4]

get_char(buf) == Signed(buf[1], 256)
get_short(buf) == Signed(bytearray_to_ushort(buf), 65536)
get_int(buf) == Signed(bytearray_to_uint(buf), Uint)
-----------------------------------------------------------------------------
\* Two digits a byte.
bytearray_to_str(b) ==
  [i \in 1..(2 * Len(b)) |->
     IF i % 2 = 1 THEN b[(i + 1) \div 2] \div 16 ELSE b[(i + 1) \div 2] % 16]

\* strtoul of a token of two digits, or of the last one of an odd number.
Token(str, i) ==
  IF 2 * i <= Len(str) THEN 16 * str[2 * i - 1] + str[2 * i] ELSE str[2 * i - 1]

\* It ends with the string or with the size of the buffer.
str_to_bytearray(str, outb, size) ==
  [i \in 1..Len(outb) |->
     IF i <= size /\ 2 * i - 1 <= Len(str) THEN Token(str, i) ELSE outb[i]]

ushort_to_str(n) == bytearray_to_str(ushort_to_bytearray(n))
uint_to_str(n) == bytearray_to_str(uint_to_bytearray(n))

\* The first four or eight digits of a string that has them.
str_to_ushort(str) == 4096 * str[1] + 256 * str[2] + 16 * str[3] + str[4]
str_to_uint(str) ==
  65536 * str_to_ushort(str) + str_to_ushort(SubSeq(str, 5, 8))
-----------------------------------------------------------------------------
\* A byte is its two digits.
LEMMA TwoDigits ==
  ASSUME NEW b \in Byte
  PROVE  /\ b \div 16 \in Digit /\ b % 16 \in Digit
         /\ b = 16 * (b \div 16) + (b % 16)
BY SMTT(30) DEF Byte, Digit

LEMMA DigitsMakeAByte ==
  ASSUME NEW x \in Digit, NEW y \in Digit
  PROVE  x \in Byte /\ 16 * x + y \in Byte
BY SMTT(30) DEF Byte, Digit

\* The low bits of a number are its bytes.
LEMMA TwoBytes ==
  ASSUME NEW n \in Int
  PROVE  LET b == ushort_to_bytearray(n)
         IN  /\ b \in Seq(Byte) /\ Len(b) = 2 /\ b[1] \in Byte /\ b[2] \in Byte
             /\ bytearray_to_ushort(b) = n % 65536
<1>1. (n \div 256) % 256 \in Byte /\ n % 256 \in Byte
  BY SMTT(30) DEF Byte
<1>2. n % 65536 = 256 * ((n \div 256) % 256) + (n % 256)
  BY SMTT(30)
<1> QED
  BY <1>1, <1>2, SMTT(30) DEF ushort_to_bytearray, bytearray_to_ushort

LEMMA FourBytes ==
  ASSUME NEW n \in Int
  PROVE  LET b == uint_to_bytearray(n)
         IN  /\ b \in Seq(Byte) /\ Len(b) = 4 /\ \A i \in 1..4 : b[i] \in Byte
             /\ bytearray_to_uint(b) = n % 4294967296
<1>1. /\ (n \div 16777216) % 256 \in Byte /\ (n \div 65536) % 256 \in Byte
      /\ (n \div 256) % 256 \in Byte /\ n % 256 \in Byte
  BY SMTT(30) DEF Byte
<1>2. n % 4294967296 = 16777216 * ((n \div 16777216) % 256)
                       + 65536 * ((n \div 65536) % 256)
                       + 256 * ((n \div 256) % 256) + (n % 256)
  BY SMTT(30)
<1> QED
  BY <1>1, <1>2, SMTT(30) DEF uint_to_bytearray, bytearray_to_uint

\* What is written over the begin of a buffer that has room for it.
LEMMA Written ==
  \A outb, b \in Seq(Byte) :
     Len(b) <= Len(outb) =>
       /\ Over(outb, b) \in Seq(Byte) /\ Len(Over(outb, b)) = Len(outb)
       /\ \A i \in 1..Len(b) : Over(outb, b)[i] = b[i]
       /\ \A i \in (Len(b) + 1)..Len(outb) : Over(outb, b)[i] = outb[i]
<1> SUFFICES ASSUME NEW outb \in Seq(Byte), NEW b \in Seq(Byte), Len(b) <= Len(outb)
             PROVE  /\ Over(outb, b) \in Seq(Byte) /\ Len(Over(outb, b)) = Len(outb)
                    /\ \A i \in 1..Len(b) : Over(outb, b)[i] = b[i]
                    /\ \A i \in (Len(b) + 1)..Len(outb) : Over(outb, b)[i] = outb[i]
  BY SMTT(30)
<1>1. \A i \in 1..Len(outb) : (IF i <= Len(b) THEN b[i] ELSE outb[i]) \in Byte
  BY SMTT(30)
<1> QED
  BY <1>1, SMTT(30) DEF Over

\* A signed number is the same again after it was cut to its width.
LEMMA SignedShort ==
  ASSUME NEW n, InWidth(n, 65536)
  PROVE  Signed(n % 65536, 65536) = n
<1> DEFINE q == n \div 65536
           r == n % 65536
<1>1. q \in Int /\ r \in Int /\ 0 <= r /\ r < 65536 /\ n = 65536 * q + r
  BY SMTT(30) DEF InWidth
<1> HIDE DEF q, r
<1>2. Signed(r, 65536) = n
  BY <1>1, SMTT(30) DEF Signed, InWidth
<1> QED
  BY <1>2, SMTT(30) DEF r

LEMMA SignedInt ==
  ASSUME NEW n, InWidth(n, Uint)
  PROVE  Signed(n % Uint, Uint) = n
<1> DEFINE q == n \div Uint
           r == n % Uint
<1>1. q \in Int /\ r \in Int /\ 0 <= r /\ r < Uint /\ n = Uint * q + r
  BY SMTT(30) DEF InWidth, Uint
<1> HIDE DEF q, r
<1>2. Signed(r, Uint) = n
  BY <1>1, SMTT(30) DEF Signed, InWidth, Uint
<1> QED
  BY <1>2, SMTT(30) DEF r
-----------------------------------------------------------------------------
\* mls_type_set_short and mls_type_get_short: a number of either sign that is put
\* into a buffer that has room for it is read again, and the rest of the buffer
\* stays as it is.
THEOREM ShortIsKept ==
  ASSUME NEW buf \in Seq(Byte), NEW len \in 0..Len(buf), Fits(2, len), NEW src, InWidth(src, 65536)
  PROVE  LET r == set_short(buf, len, src)
         IN  /\ r.len \in Nat /\ r.buf \in Seq(Byte) /\ Len(r.buf) = Len(buf)
             /\ get_short(r.buf) = src
             /\ \A i \in 3..Len(buf) : r.buf[i] = buf[i]
<1> DEFINE b == ushort_to_bytearray(src)
           o == Over(buf, b)
<1>0. src \in Int /\ len \in Nat /\ 2 <= len /\ len <= Len(buf)
  BY SMTT(30) DEF Fits, InWidth
<1>1. /\ b \in Seq(Byte) /\ Len(b) = 2 /\ b[1] \in Byte /\ b[2] \in Byte
      /\ bytearray_to_ushort(b) = src % 65536
  BY <1>0, TwoBytes, SMTT(30)
<1>2. set_short(buf, len, src).buf = o /\ set_short(buf, len, src).len = len - 2
  BY SMTT(30) DEF set_short
<1> HIDE DEF b
<1>3. /\ o \in Seq(Byte) /\ Len(o) = Len(buf)
      /\ \A i \in 1..Len(b) : o[i] = b[i]
      /\ \A i \in (Len(b) + 1)..Len(buf) : o[i] = buf[i]
  <2>1. b \in Seq(Byte) /\ Len(b) <= Len(buf)
    BY <1>0, <1>1, SMTT(30)
  <2> QED
    BY <2>1, Written, SMTT(30)
<1> HIDE DEF o
<1>4. bytearray_to_ushort(o) = src % 65536
  BY <1>1, <1>3, SMTT(30) DEF bytearray_to_ushort
<1>5. get_short(o) = src
  BY <1>4, SignedShort, SMTT(30) DEF get_short
<1> QED
  BY <1>0, <1>1, <1>2, <1>3, <1>5, SMTT(30)

\* mls_type_set_int and mls_type_get_int, likewise.
THEOREM IntIsKept ==
  ASSUME NEW buf \in Seq(Byte), NEW len \in 0..Len(buf), Fits(4, len), NEW src, InWidth(src, Uint)
  PROVE  LET r == set_int(buf, len, src)
         IN  /\ r.len \in Nat /\ r.buf \in Seq(Byte) /\ Len(r.buf) = Len(buf)
             /\ get_int(r.buf) = src
             /\ \A i \in 5..Len(buf) : r.buf[i] = buf[i]
<1> DEFINE b == uint_to_bytearray(src)
           o == Over(buf, b)
<1>0. src \in Int /\ len \in Nat /\ 4 <= len /\ len <= Len(buf)
  BY SMTT(30) DEF Fits, InWidth
<1>1. /\ b \in Seq(Byte) /\ Len(b) = 4
      /\ bytearray_to_uint(b) = src % Uint
  BY <1>0, FourBytes, SMTT(30) DEF Uint
<1>2. set_int(buf, len, src).buf = o /\ set_int(buf, len, src).len = len - 4
  BY SMTT(30) DEF set_int
<1> HIDE DEF b
<1>3. /\ o \in Seq(Byte) /\ Len(o) = Len(buf)
      /\ \A i \in 1..Len(b) : o[i] = b[i]
      /\ \A i \in (Len(b) + 1)..Len(buf) : o[i] = buf[i]
  <2>1. b \in Seq(Byte) /\ Len(b) <= Len(buf)
    BY <1>0, <1>1, SMTT(30)
  <2> QED
    BY <2>1, Written, SMTT(30)
<1> HIDE DEF o
<1>4. bytearray_to_uint(o) = src % Uint
  BY <1>1, <1>3, SMTT(30) DEF bytearray_to_uint
<1>5. get_int(o) = src
  BY <1>4, SignedInt, SMTT(30) DEF get_int
<1> QED
  BY <1>0, <1>1, <1>2, <1>3, <1>5, SMTT(30)

\* mls_type_data_ull_to_bytearray and back: no byte of the eight is lost or swapped.
THEOREM UllIsKept ==
  ASSUME NEW n \in Nat, n < 18446744073709551616
  PROVE  bytearray_to_ull(ull_to_bytearray(n)) = n
<1> DEFINE hi == n \div 4294967296
           lo == n % 4294967296
<1>1. hi \in Nat /\ hi < 4294967296 /\ lo \in Nat /\ lo < 4294967296 /\ n = 4294967296 * hi + lo
  BY SMTT(30)
<1>2. hi % 4294967296 = hi /\ lo % 4294967296 = lo
  BY SMTT(30)
<1> HIDE DEF hi, lo
<1> DEFINE h == uint_to_bytearray(hi)
           l == uint_to_bytearray(lo)
<1>3. /\ h \in Seq(Byte) /\ Len(h) = 4 /\ bytearray_to_uint(h) = hi
      /\ l \in Seq(Byte) /\ Len(l) = 4 /\ bytearray_to_uint(l) = lo
  BY <1>1, <1>2, FourBytes, SMTT(30)
<1>4. ull_to_bytearray(n) = h \o l
  BY SMTT(30) DEF ull_to_bytearray, hi, lo
<1> HIDE DEF h, l
<1> DEFINE c == h \o l
           p == SubSeq(c, 1, 4)
           q == SubSeq(c, 5, 8)
<1>5. /\ Len(c) = 8 /\ c \in Seq(Byte)
      /\ c[1] = h[1] /\ c[2] = h[2] /\ c[3] = h[3] /\ c[4] = h[4]
      /\ c[5] = l[1] /\ c[6] = l[2] /\ c[7] = l[3] /\ c[8] = l[4]
  <2>1. h \in Seq(Byte) /\ l \in Seq(Byte)
    BY <1>3, SMTT(30)
  <2>2. /\ c \in Seq(Byte) /\ Len(c) = Len(h) + Len(l)
        /\ \A i \in 1..(Len(h) + Len(l)) :
             c[i] = IF i <= Len(h) THEN h[i] ELSE l[i - Len(h)]
    BY <2>1, ConcatProperties, SMTT(30)
  <2> HIDE DEF c
  <2> QED
    BY <1>3, <2>2, SMTT(30)
<1> HIDE DEF c
<1>6. /\ p[1] = c[1] /\ p[2] = c[2] /\ p[3] = c[3] /\ p[4] = c[4]
      /\ q[1] = c[5] /\ q[2] = c[6] /\ q[3] = c[7] /\ q[4] = c[8]
  BY <1>5, SMTT(30)
<1>7. bytearray_to_ull(c) = 4294967296 * bytearray_to_uint(p) + bytearray_to_uint(q)
  BY SMTT(30) DEF bytearray_to_ull
<1> HIDE DEF p, q
<1>8. bytearray_to_uint(p) = hi /\ bytearray_to_uint(q) = lo
  <2>1. bytearray_to_uint(p) = bytearray_to_uint(h) /\ bytearray_to_uint(q) = bytearray_to_uint(l)
    BY <1>5, <1>6, SMTT(30) DEF bytearray_to_uint
  <2> QED
    BY <1>3, <2>1, SMTT(30)
<1>9. ull_to_bytearray(n) = c
  BY <1>4, SMTT(30) DEF c
<1> QED
  BY <1>1, <1>7, <1>8, <1>9, SMTT(30)
-----------------------------------------------------------------------------
\* Every byte is written as its two digits.
LEMMA DigitsOf ==
  \A b \in Seq(Byte) :
    /\ bytearray_to_str(b) \in Seq(Digit)
    /\ Len(bytearray_to_str(b)) = 2 * Len(b)
    /\ \A i \in 1..Len(b) :
         b[i] = 16 * bytearray_to_str(b)[2 * i - 1] + bytearray_to_str(b)[2 * i]
<1> SUFFICES ASSUME NEW b \in Seq(Byte)
             PROVE  /\ bytearray_to_str(b) \in Seq(Digit)
                    /\ Len(bytearray_to_str(b)) = 2 * Len(b)
                    /\ \A i \in 1..Len(b) :
                         b[i] = 16 * bytearray_to_str(b)[2 * i - 1]
                                + bytearray_to_str(b)[2 * i]
  BY SMTT(30)
<1> DEFINE s == bytearray_to_str(b)
           at(i) == IF i % 2 = 1 THEN b[(i + 1) \div 2] \div 16
                                 ELSE b[(i + 1) \div 2] % 16
<1>1. \A i \in 1..(2 * Len(b)) : at(i) \in Digit
  <2> SUFFICES ASSUME NEW i \in 1..(2 * Len(b)) PROVE at(i) \in Digit
    BY SMTT(30)
  <2>1. (i + 1) \div 2 \in 1..Len(b)
    BY SMTT(30)
  <2>2. b[(i + 1) \div 2] \in Byte
    BY <2>1, SMTT(30)
  <2> QED
    BY <2>2, TwoDigits, SMTT(30)
<1>2. s = [i \in 1..(2 * Len(b)) |-> at(i)]
  BY SMTT(30) DEF bytearray_to_str
<1> HIDE DEF s
<1>3. \A i \in 1..Len(b) : at(2 * i - 1) = b[i] \div 16 /\ at(2 * i) = b[i] % 16
  <2> SUFFICES ASSUME NEW i \in 1..Len(b)
               PROVE  at(2 * i - 1) = b[i] \div 16 /\ at(2 * i) = b[i] % 16
    BY SMTT(30)
  <2>1. /\ (2 * i - 1) % 2 = 1 /\ (2 * i) % 2 = 0
        /\ (2 * i - 1 + 1) \div 2 = i /\ (2 * i + 1) \div 2 = i
    BY SMTT(30)
  <2> QED
    BY <2>1, SMTT(30)
<1> HIDE DEF at
<1>4. s \in Seq(Digit) /\ Len(s) = 2 * Len(b)
  BY <1>1, <1>2, SMTT(30)
<1>5. \A i \in 1..Len(b) : s[2 * i - 1] = b[i] \div 16 /\ s[2 * i] = b[i] % 16
  BY <1>2, <1>3, SMTT(30)
<1>6. \A i \in 1..Len(b) : b[i] = 16 * s[2 * i - 1] + s[2 * i]
  <2> SUFFICES ASSUME NEW i \in 1..Len(b) PROVE b[i] = 16 * s[2 * i - 1] + s[2 * i]
    BY SMTT(30)
  <2>1. b[i] \in Byte
    BY SMTT(30)
  <2> QED
    BY <1>5, <2>1, TwoDigits, SMTT(30)
<1> QED
  BY <1>4, <1>6, SMTT(30) DEF s

\* mls_type_data_bytearray_to_str and back: the bytes that mls_type_data_put_bytearray
\* stores are read again into any buffer with room for them, and the rest of the
\* buffer stays as it is.
THEOREM BytesAreKept ==
  ASSUME NEW b \in Seq(Byte), NEW outb \in Seq(Byte), NEW size \in Nat,
         Len(b) <= size, size <= Len(outb)
  PROVE  str_to_bytearray(bytearray_to_str(b), outb, size) = Over(outb, b)
<1> DEFINE s == bytearray_to_str(b)
<1>1. s \in Seq(Digit) /\ Len(s) = 2 * Len(b)
      /\ \A i \in 1..Len(b) : b[i] = 16 * s[2 * i - 1] + s[2 * i]
  BY DigitsOf, SMTT(30)
<1> HIDE DEF s
<1>2. \A i \in 1..Len(outb) : i <= size /\ 2 * i - 1 <= Len(s) <=> i <= Len(b)
  BY <1>1, SMTT(30)
<1>3. \A i \in 1..Len(b) : Token(s, i) = b[i]
  BY <1>1, SMTT(30) DEF Token
<1>4. str_to_bytearray(s, outb, size) = Over(outb, b)
  BY <1>2, <1>3, SMTT(30) DEF str_to_bytearray, Over
<1> QED
  BY <1>4, SMTT(30) DEF s

\* mls_type_data_str_to_bytearray, whatever digits the file has, an odd number or too
\* many of them: it writes bytes, and none beyond the size it was given.
THEOREM BufferIsKept ==
  ASSUME NEW str \in Seq(Digit), NEW outb \in Seq(Byte), NEW size \in Nat
  PROVE  LET r == str_to_bytearray(str, outb, size)
         IN  /\ r \in Seq(Byte) /\ Len(r) = Len(outb)
             /\ \A i \in 1..Len(outb) : size < i => r[i] = outb[i]
<1>1. \A i \in 1..Len(outb) : 2 * i - 1 <= Len(str) => Token(str, i) \in Byte
  <2> SUFFICES ASSUME NEW i \in 1..Len(outb), 2 * i - 1 <= Len(str)
               PROVE  Token(str, i) \in Byte
    BY SMTT(30)
  <2>1. CASE 2 * i <= Len(str)
    <3>1. str[2 * i - 1] \in Digit /\ str[2 * i] \in Digit
      BY <2>1, SMTT(30)
    <3>2. Token(str, i) = 16 * str[2 * i - 1] + str[2 * i]
      BY <2>1, SMTT(30) DEF Token
    <3> QED
      BY <3>1, <3>2, DigitsMakeAByte, SMTT(30)
  <2>2. CASE ~ 2 * i <= Len(str)
    <3>1. str[2 * i - 1] \in Digit
      BY SMTT(30)
    <3>2. Token(str, i) = str[2 * i - 1]
      BY <2>2, SMTT(30) DEF Token
    <3> QED
      BY <3>1, <3>2, DigitsMakeAByte, SMTT(30)
  <2> QED
    BY <2>1, <2>2, SMTT(30)
<1> DEFINE at(i) == IF i <= size /\ 2 * i - 1 <= Len(str) THEN Token(str, i) ELSE outb[i]
<1>2. \A i \in 1..Len(outb) : at(i) \in Byte /\ (size < i => at(i) = outb[i])
  BY <1>1, SMTT(30)
<1>3. str_to_bytearray(str, outb, size) = [i \in 1..Len(outb) |-> at(i)]
  BY SMTT(30) DEF str_to_bytearray
<1> HIDE DEF at
<1> QED
  BY <1>2, <1>3, SMTT(30)

\* mls_type_data_ushort_to_str, mls_type_data_uint_to_str and back: the number that
\* mls_type_data_put_ushort or _put_uint stores is the one that is read.
THEOREM StoredNumbersAreKept ==
  /\ \A n \in Nat : n < 65536 => str_to_ushort(ushort_to_str(n)) = n
  /\ \A n \in Nat : n < 4294967296 => str_to_uint(uint_to_str(n)) = n
<1>1. ASSUME NEW n \in Nat, n < 65536 PROVE str_to_ushort(ushort_to_str(n)) = n
  <2> DEFINE b == ushort_to_bytearray(n)
             s == bytearray_to_str(b)
  <2>1. b \in Seq(Byte) /\ Len(b) = 2 /\ bytearray_to_ushort(b) = n
    <3>1. n % 65536 = n /\ n \in Int
      BY <1>1, SMTT(30)
    <3> QED
      BY <3>1, TwoBytes, SMTT(30)
  <2>2. ushort_to_str(n) = s
    BY SMTT(30) DEF ushort_to_str
  <2> HIDE DEF b
  <2>3. /\ s \in Seq(Digit) /\ Len(s) = 2 * Len(b)
        /\ \A i \in 1..Len(b) : b[i] = 16 * s[2 * i - 1] + s[2 * i]
    <3>1. b \in Seq(Byte)
      BY <2>1, Zenon
    <3> QED
      BY <3>1, DigitsOf, Zenon
  <2> HIDE DEF s
  <2>4. b[1] = 16 * s[1] + s[2] /\ b[2] = 16 * s[3] + s[4]
    BY <2>1, <2>3, SMTT(30)
  <2>5. s[1] \in Int /\ s[2] \in Int /\ s[3] \in Int /\ s[4] \in Int
    <3>1. s \in Seq(Digit) /\ Len(s) = 4
      BY <2>1, <2>3, SMTT(30)
    <3>2. s[1] \in Digit /\ s[2] \in Digit /\ s[3] \in Digit /\ s[4] \in Digit
      BY <3>1, SMTT(30)
    <3> QED
      BY <3>2, SMTT(30) DEF Digit
  <2>6. 256 * b[1] + b[2] = n
    BY <2>1, SMTT(30) DEF bytearray_to_ushort
  <2>7. 4096 * s[1] + 256 * s[2] + 16 * s[3] + s[4] = n
    BY <2>4, <2>5, <2>6, SMTT(30)
  <2> QED
    BY <2>2, <2>7, SMTT(30) DEF str_to_ushort
<1>2. ASSUME NEW n \in Nat, n < 4294967296 PROVE str_to_uint(uint_to_str(n)) = n
  <2> DEFINE b == uint_to_bytearray(n)
             s == bytearray_to_str(b)
             t == SubSeq(s, 5, 8)
  <2>1. b \in Seq(Byte) /\ Len(b) = 4 /\ bytearray_to_uint(b) = n
    <3>1. n % 4294967296 = n /\ n \in Int
      BY <1>2, SMTT(30)
    <3> QED
      BY <3>1, FourBytes, SMTT(30)
  <2>2. uint_to_str(n) = s
    BY SMTT(30) DEF uint_to_str
  <2> HIDE DEF b
  <2>3. /\ s \in Seq(Digit) /\ Len(s) = 2 * Len(b)
        /\ \A i \in 1..Len(b) : b[i] = 16 * s[2 * i - 1] + s[2 * i]
    <3>1. b \in Seq(Byte)
      BY <2>1, Zenon
    <3> QED
      BY <3>1, DigitsOf, Zenon
  <2> HIDE DEF s
  <2>4. /\ b[1] = 16 * s[1] + s[2] /\ b[2] = 16 * s[3] + s[4]
        /\ b[3] = 16 * s[5] + s[6] /\ b[4] = 16 * s[7] + s[8]
    BY <2>1, <2>3, SMTT(30)
  <2>5. /\ s[1] \in Int /\ s[2] \in Int /\ s[3] \in Int /\ s[4] \in Int
        /\ s[5] \in Int /\ s[6] \in Int /\ s[7] \in Int /\ s[8] \in Int
    <3>1. s \in Seq(Digit) /\ Len(s) = 8
      BY <2>1, <2>3, SMTT(30)
    <3>2. \A i \in 1..Len(s) : s[i] \in Digit
      BY <3>1, ElementOfSeq, Zenon
    <3> QED
      BY <3>1, <3>2, SMTT(30) DEF Digit
  <2>6. t[1] = s[5] /\ t[2] = s[6] /\ t[3] = s[7] /\ t[4] = s[8]
    BY <2>1, <2>3, SMTT(30)
  <2>7. 16777216 * b[1] + 65536 * b[2] + 256 * b[3] + b[4] = n
    BY <2>1, SMTT(30) DEF bytearray_to_uint
  <2>8. str_to_uint(s) = 65536 * str_to_ushort(s) + str_to_ushort(t)
    BY SMTT(30) DEF str_to_uint
  <2> HIDE DEF t
  <2>9. /\ str_to_ushort(s) = 4096 * s[1] + 256 * s[2] + 16 * s[3] + s[4]
        /\ str_to_ushort(t) = 4096 * s[5] + 256 * s[6] + 16 * s[7] + s[8]
    BY <2>6, SMTT(30) DEF str_to_ushort
  <2>10. 65536 * (4096 * s[1] + 256 * s[2] + 16 * s[3] + s[4])
         + (4096 * s[5] + 256 * s[6] + 16 * s[7] + s[8]) = n
    BY <2>4, <2>5, <2>7, SMTT(30)
  <2> QED
    BY <2>2, <2>8, <2>9, <2>10, SMTT(30)
<1> QED
  BY <1>1, <1>2, SMTT(30)
=============================================================================
