--------------------------- MODULE CidrMathProofs ---------------------------
(***************************************************************************)
(* The arithmetic of service/netutil/cidr.go for addresses of every size.  *)
(* The conversions between addresses and numbers are shown to be inverse   *)
(* to each other by induction over the bytes; after that a network is an   *)
(* interval of numbers that starts at a multiple of its size, and each     *)
(* function is what it does to such intervals.                             *)
(***************************************************************************)
EXTENDS CidrMath, BinaryProofs, FiniteSetTheorems, SequenceTheorems

\* The place value of byte j, and the number of addresses of a network.
Weight(j) == pow2[ByteBits * (Bytes - j)]
Size(len) == pow2[Width - len]

LEMMA Sizes ==
  /\ Width \in Nat /\ Radix \in Nat \ {0, 1} /\ Space \in Nat \ {0}
  /\ Word \in Nat \ {0} /\ pow2[WordBits - 1] \in Nat \ {0} /\ Word = 2 * pow2[WordBits - 1]
  <1>1. Bytes \in Nat \ {0} /\ ByteBits \in Nat \ {0} /\ WordBits \in Nat \ {0}
    BY SizeAssumption
  <1>2. Width \in Nat
    BY <1>1, Products DEF Width
  <1>3. ASSUME NEW n \in Nat \ {0}
        PROVE  pow2[n - 1] \in Nat \ {0} /\ pow2[n] = 2 * pow2[n - 1]
    <2>1. n - 1 \in Nat /\ (n - 1) + 1 = n
      OBVIOUS
    <2>2. QED
      BY <2>1, Pow2Step
  <1>4. Radix \in Nat \ {0, 1}
    BY <1>1, <1>3 DEF Radix
  <1>5. QED
    BY <1>1, <1>2, <1>3, <1>4, Pow2Step DEF Space, Word

LEMMA Weights ==
  /\ Weight(0) = Space /\ Weight(Bytes) = 1
  /\ \A j \in 0..Bytes : Weight(j) \in Nat \ {0}
  /\ \A j \in 1..Bytes : /\ Weight(j - 1) = Weight(j) * Radix
                         /\ \E c \in Nat \ {0} : Space = (Weight(j) * Radix) * c
  <1>1. Bytes \in Nat \ {0} /\ ByteBits \in Nat \ {0}
    BY SizeAssumption
  <1>2. Weight(0) = Space /\ Weight(Bytes) = 1
    <2>1. Bytes - Bytes = 0 /\ ByteBits * 0 = 0 /\ Bytes - 0 = Bytes
      BY <1>1
    <2>2. ByteBits * Bytes = Bytes * ByteBits
      BY <1>1
    <2>3. QED
      BY <2>1, <2>2, Pow2Step DEF Weight, Space, Width
  <1>3. ASSUME NEW j \in 0..Bytes PROVE Weight(j) \in Nat \ {0} /\ ByteBits * (Bytes - j) \in Nat
    <2>1. Bytes - j \in Nat
      BY <1>1
    <2>2. ByteBits * (Bytes - j) \in Nat
      BY <1>1, <2>1
    <2>3. QED
      BY <2>2, Pow2Step DEF Weight
  <1>4. ASSUME NEW j \in 1..Bytes
        PROVE  Weight(j - 1) = Weight(j) * Radix /\ \E c \in Nat \ {0} : Space = (Weight(j) * Radix) * c
    <2>1. j \in 0..Bytes /\ j - 1 \in 0..Bytes /\ j - 1 \in Nat
      BY <1>1
    <2> DEFINE e == ByteBits * (Bytes - j)  d == ByteBits * (Bytes - (j - 1))
               u == ByteBits * (j - 1)
    <2>2. d = e + ByteBits
      BY <1>1
    <2>3. e \in Nat /\ d \in Nat /\ u \in Nat
      BY <1>1, <1>3, <2>1
    <2>4. Width = d + u
      BY <1>1 DEF Width
    <2>5. Weight(j) = pow2[e] /\ Weight(j - 1) = pow2[d]
      BY DEF Weight
    <2> HIDE DEF e, d, u
    <2>6. pow2[d] = pow2[e] * Radix
      BY <1>1, <2>2, <2>3, Pow2Sum DEF Radix
    <2>7. Space = pow2[d] * pow2[u] /\ pow2[u] \in Nat \ {0}
      BY <2>3, <2>4, Pow2Sum, Pow2Step DEF Space
    <2>8. QED
      BY <2>5, <2>6, <2>7
  <1>5. QED
    BY <1>2, <1>3, <1>4
-----------------------------------------------------------------------------
(***************************************************************************)
(* Conversions.                                                            *)
(***************************************************************************)
\* val[j] is the number that the first j bytes of ip stand for.
IsValue(val, ip) ==
  /\ val \in [0..Bytes -> Nat]
  /\ val[0] = 0
  /\ \A j \in 1..Bytes : val[j] = val[j - 1] * Radix + ip[j]
  /\ ipToInt(ip) = val[Bytes]

LEMMA ValueExists ==
  ASSUME NEW ip \in Address
  PROVE  \E val : IsValue(val, ip)
  <1> DEFINE step == [j \in Nat |-> [v \in Nat |-> IF j \in 1..Bytes THEN v * Radix + ip[j] ELSE v]]
             Def(f) == f = [j \in 0..Bytes |-> IF j = 0 THEN 0 ELSE f[j - 1] * Radix + ip[j]]
             val == CHOOSE f : Def(f)
  <1>1. Bytes \in Nat \ {0} /\ Radix \in Nat
    BY SizeAssumption, Sizes
  <1>2. \A j \in 1..Bytes : ip[j] \in Nat
    BY <1>1 DEF Address
  <1>3. /\ step \in [Nat -> [Nat -> Nat]]
        /\ \A j \in 1..Bytes, v \in Nat : step[j][v] = v * Radix + ip[j]
    <2>1. \A j \in 1..Bytes, v \in Nat : v * Radix + ip[j] \in Nat /\ j \in Nat
      BY <1>1, <1>2
    <2>2. QED
      BY <2>1
  <1> HIDE DEF step
  <1>4. PICK f : Recursive(f, 0..Bytes, Nat, 0, step)
    BY <1>1, <1>3, BoundedRecursion
  <1>5. f \in [0..Bytes -> Nat] /\ f[0] = 0 /\ \A j \in (0..Bytes) \ {0} : f[j] = step[j][f[j - 1]]
    BY <1>4 DEF Recursive
  <1>6. \A j \in 1..Bytes : f[j] = f[j - 1] * Radix + ip[j]
    <2>1. \A j \in 1..Bytes : j \in (0..Bytes) \ {0} /\ j - 1 \in 0..Bytes
      BY <1>1
    <2>2. QED
      BY <1>3, <1>5, <2>1
  <1>7. Def(f)
    <2>1. \A j \in 0..Bytes : j # 0 => j \in 1..Bytes
      BY <1>1
    <2>2. QED
      BY <1>5, <1>6, <2>1
  <1>8. Def(val)
    <2> HIDE DEF Def
    <2>1. QED
      BY <1>7
  <1>9. ipToInt(ip) = val[Bytes]
    BY DEF ipToInt
  <1> HIDE DEF val
  <1>10. val \in [0..Bytes -> Nat]
    <2> DEFINE T == {j \in Nat : j <= Bytes => val[j] \in Nat}
    <2>1. 0 \in T
      BY <1>8
    <2>2. ASSUME NEW j \in Nat, j \in T PROVE j + 1 \in T
      <3>1. SUFFICES ASSUME j + 1 <= Bytes PROVE val[j + 1] \in Nat
        OBVIOUS
      <3>2. j + 1 \in 1..Bytes /\ j + 1 \in 0..Bytes /\ j + 1 # 0 /\ (j + 1) - 1 = j /\ j <= Bytes
        BY <1>1, <3>1
      <3>3. val[j + 1] = val[j] * Radix + ip[j + 1]
        BY <1>8, <3>2
      <3>4. QED
        BY <1>1, <1>2, <2>2, <3>2, <3>3
    <2> HIDE DEF T
    <2>3. Nat \subseteq T
      BY <2>1, <2>2, Induction
    <2>4. QED
      BY <1>8, <2>3 DEF T
  <1>11. \A j \in 1..Bytes : val[j] = val[j - 1] * Radix + ip[j]
    <2>1. \A j \in 1..Bytes : j \in 0..Bytes /\ j # 0
      BY <1>1
    <2>2. QED
      BY <1>8, <2>1
  <1>12. val[0] = 0
    BY <1>1, <1>8
  <1>13. IsValue(val, ip)
    BY <1>9, <1>10, <1>11, <1>12 DEF IsValue
  <1>14. QED
    BY <1>13

\* A byte of an address is a digit of its number.
LEMMA Digits ==
  ASSUME NEW ip \in Address
  PROVE  /\ ipToInt(ip) \in 0..(Space - 1)
         /\ \A j \in 1..Bytes : (ipToInt(ip) \div Weight(j)) % Radix = ip[j]
  <1>1. PICK val : IsValue(val, ip)
    BY ValueExists
  <1>2. Bytes \in Nat \ {0} /\ Radix \in Nat \ {0} /\ Space \in Nat \ {0}
    BY SizeAssumption, Sizes
  <1>3. /\ \A j \in 0..Bytes : val[j] \in Nat
        /\ val[0] = 0 /\ ipToInt(ip) = val[Bytes]
        /\ \A j \in 1..Bytes : val[j] = val[j - 1] * Radix + ip[j]
    BY <1>1 DEF IsValue
  <1>4. \A j \in 1..Bytes : ip[j] \in 0..(Radix - 1)
    BY DEF Address
  <1>5. ASSUME NEW j \in 1..Bytes PROVE val[j] \div Radix = val[j - 1] /\ val[j] % Radix = ip[j]
    <2>1. j - 1 \in 0..Bytes
      BY <1>2
    <2> DEFINE q == val[j - 1]  r == ip[j]
    <2>2. q \in Nat /\ r \in Nat /\ r < Radix
      BY <1>2, <1>3, <1>4, <2>1
    <2>3. val[j] = q * Radix + r
      BY <1>3
    <2> HIDE DEF q, r
    <2>4. q * Radix = Radix * q
      BY <1>2, <2>2
    <2>5. val[j] \div Radix = q /\ val[j] % Radix = r
      BY <1>2, <2>2, <2>3, <2>4, Quotient
    <2>6. QED
      BY <2>5 DEF q, r
  <1>6. \A j \in 0..Bytes : val[Bytes] \div Weight(j) = val[j]
    <2> DEFINE T == {i \in Nat : i <= Bytes => val[Bytes] \div Weight(Bytes - i) = val[Bytes - i]}
    <2>1. 0 \in T
      <3>1. Bytes - 0 = Bytes /\ Bytes \in 0..Bytes
        BY <1>2
      <3>2. val[Bytes] \in Nat
        BY <1>3, <3>1
      <3>3. val[Bytes] \div 1 = val[Bytes]
        BY <3>2
      <3>4. QED
        BY <3>1, <3>3, Weights
    <2>2. ASSUME NEW i \in Nat, i \in T PROVE i + 1 \in T
      <3> DEFINE j == Bytes - i
      <3>1. SUFFICES ASSUME i + 1 <= Bytes
                     PROVE  val[Bytes] \div Weight(Bytes - (i + 1)) = val[Bytes - (i + 1)]
        OBVIOUS
      <3>2. j \in 1..Bytes /\ j \in 0..Bytes /\ Bytes - (i + 1) = j - 1 /\ Bytes \in 0..Bytes
        BY <1>2, <3>1
      <3>3. val[Bytes] \div Weight(j) = val[j]
        <4>1. i <= Bytes
          BY <1>2, <3>1
        <4>2. QED
          BY <2>2, <4>1, Zenon
      <3> HIDE DEF j
      <3> DEFINE n == val[Bytes]  w == Weight(j)
      <3>4. n \in Nat /\ w \in Nat \ {0} /\ Weight(j - 1) = w * Radix
        BY <1>3, <3>2, Weights
      <3>5. n \div w = val[j] /\ val[j] \div Radix = val[j - 1]
        BY <1>5, <3>2, <3>3
      <3> HIDE DEF n, w
      <3>6. n \div (w * Radix) = (n \div w) \div Radix
        BY <1>2, <3>4, DivideTwice, Zenon
      <3>7. n \div Weight(j - 1) = val[j - 1]
        BY <3>4, <3>5, <3>6
      <3>8. QED
        BY <3>2, <3>7 DEF n
    <2> HIDE DEF T
    <2>3. Nat \subseteq T
      BY <2>1, <2>2, Induction
    <2>4. ASSUME NEW j \in 0..Bytes PROVE val[Bytes] \div Weight(j) = val[j]
      <3>1. Bytes - j \in Nat /\ Bytes - j <= Bytes /\ Bytes - (Bytes - j) = j
        BY <1>2
      <3>2. QED
        BY <2>3, <3>1 DEF T
    <2>5. QED
      BY <2>4
  <1>7. ipToInt(ip) \in 0..(Space - 1)
    <2> DEFINE n == val[Bytes]
    <2>1. n \in Nat /\ n \div Space = 0
      BY <1>2, <1>3, <1>6, Weights
    <2> HIDE DEF n
    <2>2. n = Space * (n \div Space) + (n % Space) /\ n % Space \in 0..(Space - 1)
      BY <1>2, <2>1, Division
    <2>3. QED
      BY <1>2, <1>3, <2>1, <2>2 DEF n
  <1>8. ASSUME NEW j \in 1..Bytes PROVE (ipToInt(ip) \div Weight(j)) % Radix = ip[j]
    <2>1. j \in 0..Bytes
      BY <1>2
    <2>2. ipToInt(ip) \div Weight(j) = val[j]
      BY <1>3, <1>6, <2>1
    <2>3. QED
      BY <1>5, <2>2
  <1>9. QED
    BY <1>7, <1>8

\* intToIP undoes ipToInt.
LEMMA AddressOfNumber ==
  ASSUME NEW ip \in Address
  PROVE  intToIP(ipToInt(ip)) = ip
  <1>1. \A j \in 1..Bytes : (ipToInt(ip) \div pow2[ByteBits * (Bytes - j)]) % Radix = ip[j]
    BY Digits DEF Weight
  <1>2. ip \in [1..Bytes -> 0..(Radix - 1)]
    BY DEF Address
  <1>3. QED
    BY <1>1, <1>2 DEF intToIP

LEMMA BytesOfNumber ==
  ASSUME NEW n \in Nat
  PROVE  /\ intToIP(n) \in Address
         /\ \A j \in 1..Bytes : intToIP(n)[j] = (n \div Weight(j)) % Radix
  <1>1. Bytes \in Nat \ {0} /\ Radix \in Nat \ {0}
    BY SizeAssumption, Sizes
  <1>2. ASSUME NEW j \in 1..Bytes PROVE (n \div Weight(j)) % Radix \in 0..(Radix - 1)
    <2> DEFINE w == Weight(j)  q == n \div w
    <2>1. j \in 0..Bytes
      BY <1>1
    <2>2. w \in Nat \ {0}
      BY <2>1, Weights
    <2> HIDE DEF w
    <2>3. q \in Nat
      BY <2>2
    <2> HIDE DEF q
    <2>4. q % Radix \in 0..(Radix - 1)
      BY <1>1, <2>3
    <2>5. QED
      BY <2>4 DEF q, w
  <1>3. intToIP(n) = [j \in 1..Bytes |-> (n \div Weight(j)) % Radix]
    BY DEF intToIP, Weight
  <1>4. QED
    BY <1>2, <1>3 DEF Address

\* ipToInt undoes intToIP on the numbers that fit.
LEMMA NumberOfAddress ==
  ASSUME NEW n \in 0..(Space - 1)
  PROVE  intToIP(n) \in Address /\ ipToInt(intToIP(n)) = n
  <1>1. Bytes \in Nat \ {0} /\ Radix \in Nat \ {0} /\ Space \in Nat \ {0} /\ n \in Nat
    BY SizeAssumption, Sizes
  <1>2. intToIP(n) \in Address
    BY <1>1, BytesOfNumber
  <1>3. PICK val : IsValue(val, intToIP(n))
    BY <1>2, ValueExists
  <1>4. /\ val[0] = 0 /\ ipToInt(intToIP(n)) = val[Bytes]
        /\ \A j \in 1..Bytes : val[j] = val[j - 1] * Radix + intToIP(n)[j]
    BY <1>3 DEF IsValue
  <1> DEFINE T == {j \in Nat : j <= Bytes => val[j] = n \div Weight(j)}
  <1>5. 0 \in T
    <2>1. n = Space * 0 + n /\ n < Space
      BY <1>1
    <2>2. n \div Space = 0
      BY <1>1, <2>1, Quotient
    <2>3. QED
      BY <1>4, <2>2, Weights
  <1>6. ASSUME NEW j \in Nat, j \in T PROVE j + 1 \in T
    <2>1. SUFFICES ASSUME j + 1 <= Bytes PROVE val[j + 1] = n \div Weight(j + 1)
      OBVIOUS
    <2>2. j + 1 \in 1..Bytes /\ j + 1 \in 0..Bytes /\ (j + 1) - 1 = j /\ j <= Bytes
      BY <1>1, <2>1
    <2> DEFINE w == Weight(j + 1)  q == n \div w
    <2>3. w \in Nat \ {0} /\ Weight(j) = w * Radix
      BY <2>2, Weights
    <2>4. val[j] = n \div (w * Radix)
      BY <1>6, <2>2, <2>3
    <2>5. val[j + 1] = val[j] * Radix + (q % Radix)
      BY <1>1, <1>4, <2>2, BytesOfNumber
    <2> HIDE DEF w
    <2>6. n \div (w * Radix) = q \div Radix
      BY <1>1, <2>3, DivideTwice, Zenon DEF q
    <2>7. q \in Nat
      BY <1>1, <2>3
    <2> HIDE DEF q
    <2>8. q = Radix * (q \div Radix) + (q % Radix) /\ q \div Radix \in Nat
      BY <1>1, <2>7, Division
    <2> DEFINE d == q \div Radix
    <2>9. d * Radix = Radix * d
      BY <1>1, <2>8
    <2>10. val[j + 1] = q
      BY <2>4, <2>5, <2>6, <2>8, <2>9
    <2>11. QED
      BY <2>10 DEF q, w
  <1> HIDE DEF T
  <1>7. Nat \subseteq T
    BY <1>5, <1>6, Induction
  <1>8. val[Bytes] = n \div Weight(Bytes)
    BY <1>1, <1>7 DEF T
  <1>9. n \div 1 = n
    BY <1>1
  <1>10. QED
    BY <1>2, <1>4, <1>8, <1>9, Weights
-----------------------------------------------------------------------------
(***************************************************************************)
(* Networks.                                                               *)
(***************************************************************************)
First(net) == ipToInt(net.ip)

LEMMA SizeIs ==
  ASSUME NEW len \in 0..Width
  PROVE  /\ Size(len) \in Nat \ {0} /\ Size(len) <= Space /\ Space % Size(len) = 0
         /\ pow2[len] \in Nat \ {0} /\ Space = pow2[len] * Size(len)
         /\ len > 0 => 2 * Size(len) <= Space
  <1>1. Width \in Nat
    BY Sizes
  <1>2. Width - len \in 0..Width /\ Width - (Width - len) = len /\ Width - len \in Nat
    BY <1>1
  <1> DEFINE k == Width - len
  <1>3. /\ pow2[k] \in Nat \ {0} /\ pow2[Width - k] \in Nat \ {0}
        /\ pow2[Width] = pow2[k] * pow2[Width - k] /\ pow2[k] <= pow2[Width]
        /\ k < Width => 2 * pow2[k] <= pow2[Width]
    <2> HIDE DEF k
    <2>1. QED
      BY <1>1, <1>2, Pow2Divides DEF k
  <1>4. Size(len) = pow2[k] /\ pow2[Width - k] = pow2[len] /\ (len > 0 => k < Width)
    BY <1>1, <1>2 DEF Size
  <1> HIDE DEF k
  <1> DEFINE h == Size(len)  p == pow2[len]
  <1>5. h \in Nat \ {0} /\ p \in Nat \ {0} /\ Space = h * p
    BY <1>3, <1>4 DEF Space
  <1> HIDE DEF h, p
  <1>6. (h * p) % h = 0 /\ h * p = p * h
    BY <1>5, MultipleOfProduct
  <1>7. QED
    BY <1>3, <1>4, <1>5, <1>6 DEF h, p, Space

LEMMA MaskIs ==
  ASSUME NEW ip \in Address, NEW len \in 0..Width
  PROVE  LET n == ipToInt(ip)  h == Size(len)  m == Mask(ip, len) IN
         /\ m \in Address
         /\ ipToInt(m) = (n \div h) * h
         /\ ipToInt(m) <= n /\ n < ipToInt(m) + h
         /\ ipToInt(m) % h = 0
         /\ n % h = 0 => m = ip
         /\ [ip |-> m, len |-> len] \in Network
  <1> DEFINE n == ipToInt(ip)  h == Size(len)  m == Mask(ip, len)  b == (n \div h) * h
  <1>1. h \in Nat \ {0} /\ n \in 0..(Space - 1) /\ Space \in Nat \ {0}
    BY SizeIs, Digits, Sizes
  <1>2. m = intToIP(b)
    BY DEF Mask, Size
  <1>3. [ip |-> m, len |-> len] \in Network
    BY DEF Network
  <1>4. intToIP(n) = ip
    BY AddressOfNumber
  <1> HIDE DEF n, h, m
  <1>5. n \in Nat
    BY <1>1
  <1>6. b \in Nat /\ b <= n /\ n < b + h /\ b % h = 0 /\ (n % h = 0 => b = n)
    BY <1>1, <1>5, MultipleBelow
  <1> HIDE DEF b
  <1>7. b \in 0..(Space - 1)
    BY <1>1, <1>6
  <1>8. m \in Address /\ ipToInt(m) = b
    BY <1>2, <1>7, NumberOfAddress
  <1>9. n % h = 0 => m = ip
    BY <1>2, <1>4, <1>6
  <1>10. QED
    BY <1>3, <1>6, <1>8, <1>9 DEF n, h, m, b

\* A network begins at a multiple of its size.
LEMMA NetworkIs ==
  ASSUME NEW net \in Network
  PROVE  /\ net.ip \in Address /\ net.len \in 0..Width
         /\ First(net) \in 0..(Space - 1) /\ First(net) % Size(net.len) = 0
         /\ First(net) + Size(net.len) <= Space
         /\ intToIP(First(net)) = net.ip
         /\ net = [ip |-> net.ip, len |-> net.len]
  <1>1. PICK ip \in Address, len \in 0..Width : net = [ip |-> Mask(ip, len), len |-> len]
    BY DEF Network
  <1>2. net.ip = Mask(ip, len) /\ net.len = len /\ net = [ip |-> net.ip, len |-> net.len]
    BY <1>1
  <1>3. Mask(ip, len) \in Address /\ ipToInt(Mask(ip, len)) % Size(len) = 0
    BY MaskIs
  <1> DEFINE n == First(net)  h == Size(net.len)
  <1>4. n \in 0..(Space - 1) /\ n % h = 0 /\ intToIP(n) = net.ip
    BY <1>2, <1>3, Digits, AddressOfNumber DEF First
  <1>5. h \in Nat \ {0} /\ Space \in Nat \ {0} /\ Space % h = 0
    BY <1>2, SizeIs, Sizes
  <1>6. n + h <= Space
    <2> HIDE DEF n, h
    <2>1. n \in Nat /\ n < Space /\ Space \in Nat
      BY <1>4, <1>5
    <2>2. QED
      BY <1>4, <1>5, <2>1, MultiplesApart
  <1>7. QED
    BY <1>2, <1>3, <1>4, <1>6

\* Every multiple of the size begins one.
LEMMA AlignedNetwork ==
  ASSUME NEW len \in 0..Width, NEW n \in 0..(Space - 1), n % Size(len) = 0
  PROVE  [ip |-> intToIP(n), len |-> len] \in Network
  <1>1. intToIP(n) \in Address /\ ipToInt(intToIP(n)) = n
    BY NumberOfAddress
  <1>2. Mask(intToIP(n), len) = intToIP(n)
    BY <1>1, MaskIs
  <1>3. QED
    BY <1>1, <1>2 DEF Network

LEMMA NumbersAre ==
  ASSUME NEW net \in Network
  PROVE  /\ Numbers(net) = First(net)..(First(net) + Size(net.len) - 1)
         /\ \A n : n \in Numbers(net) <=> /\ n \in 0..(Space - 1)
                                          /\ First(net) <= n /\ n < First(net) + Size(net.len)
  <1>1. Numbers(net) = First(net)..(First(net) + Size(net.len) - 1)
    BY DEF Numbers, First, Size
  <1>2. First(net) \in Nat /\ Size(net.len) \in Nat /\ Space \in Nat
        /\ First(net) + Size(net.len) <= Space
    BY NetworkIs, SizeIs, Sizes
  <1>3. QED
    BY <1>1, <1>2

\* Contains is membership.
LEMMA ContainsIs ==
  ASSUME NEW net \in Network, NEW ip \in Address
  PROVE  Contains(net, ip) <=> ipToInt(ip) \in Numbers(net)
  <1> DEFINE n == ipToInt(ip)  m == Mask(ip, net.len)  h == Size(net.len)  a == First(net)
  <1>1. net.ip \in Address /\ net.len \in 0..Width /\ a \in 0..(Space - 1) /\ a % h = 0
        /\ intToIP(a) = net.ip
    BY NetworkIs
  <1>2. m \in Address /\ ipToInt(m) <= n /\ n < ipToInt(m) + h /\ ipToInt(m) % h = 0
    BY <1>1, MaskIs
  <1>3. ipToInt(m) \in 0..(Space - 1) /\ n \in 0..(Space - 1) /\ intToIP(ipToInt(m)) = m
    BY <1>2, Digits, AddressOfNumber
  <1>4. h \in Nat \ {0} /\ Space \in Nat
    BY <1>1, SizeIs, Sizes
  <1>5. Contains(net, ip) <=> m = net.ip
    BY DEF Contains
  <1>6. ipToInt(net.ip) = a
    BY DEF First
  <1>7. n \in Numbers(net) <=> a <= n /\ n < a + h
    BY <1>3, NumbersAre
  <1> HIDE DEF n, m, h, a
  <1> DEFINE c == ipToInt(m)
  <1>8. ASSUME a <= n, n < a + h PROVE m = net.ip
    <2>1. c \in Nat /\ a \in Nat /\ c % h = 0 /\ a % h = 0 /\ c <= n /\ n < c + h /\ n \in Nat
      BY <1>1, <1>2, <1>3, <1>4
    <2>2. intToIP(c) = m /\ intToIP(a) = net.ip
      BY <1>1, <1>3
    <2> HIDE DEF c
    <2>3. c < a => c + h <= a
      BY <1>4, <2>1, MultiplesApart
    <2>4. a < c => a + h <= c
      BY <1>4, <2>1, MultiplesApart
    <2>5. c = a
      BY <1>4, <1>8, <2>1, <2>3, <2>4
    <2>6. QED
      BY <2>2, <2>5
  <1>9. ASSUME m = net.ip PROVE a <= n /\ n < a + h
    BY <1>2, <1>6, <1>9
  <1>10. QED
    BY <1>5, <1>7, <1>8, <1>9 DEF n
-----------------------------------------------------------------------------
(***************************************************************************)
(* Counting.                                                               *)
(***************************************************************************)
\* The bytes behind byte j have all turned, or are all 0.
LEMMA Tails ==
  ASSUME NEW ip \in Address, NEW j \in 0..Bytes
  PROVE  /\ (\A k \in (j + 1)..Bytes : ip[k] = Radix - 1)
              <=> ipToInt(ip) % Weight(j) = Weight(j) - 1
         /\ (\A k \in (j + 1)..Bytes : ip[k] = 0) <=> ipToInt(ip) % Weight(j) = 0
  <1> DEFINE n == ipToInt(ip)
             Full(i) == \A k \in (i + 1)..Bytes : ip[k] = Radix - 1
             Empty(i) == \A k \in (i + 1)..Bytes : ip[k] = 0
             OK(i) == /\ Full(i) <=> n % Weight(i) = Weight(i) - 1
                      /\ Empty(i) <=> n % Weight(i) = 0
             T == {i \in Nat : i <= Bytes => OK(Bytes - i)}
  <1>1. Bytes \in Nat \ {0} /\ Radix \in Nat \ {0} /\ Space \in Nat
    BY SizeAssumption, Sizes
  <1>2. n \in Nat /\ \A i \in 1..Bytes : (n \div Weight(i)) % Radix = ip[i] /\ ip[i] \in 0..(Radix - 1)
    BY <1>1, Digits DEF Address
  <1> HIDE DEF n
  <1>3. 0 \in T
    <2>1. Bytes - 0 = Bytes /\ (Bytes + 1)..Bytes = {} /\ n % 1 = 0
      BY <1>1, <1>2
    <2>2. Full(Bytes) /\ Empty(Bytes)
      BY <2>1
    <2>3. OK(Bytes)
      BY <2>1, <2>2, Weights
    <2>4. QED
      BY <2>1, <2>3
  <1>4. ASSUME NEW i \in Nat, i \in T PROVE i + 1 \in T
    <2>1. SUFFICES ASSUME i + 1 <= Bytes PROVE OK(Bytes - (i + 1))
      OBVIOUS
    <2>2. i <= Bytes
      BY <1>1, <2>1
    <2>3. OK(Bytes - i)
      BY <1>4, <2>2
    <2> DEFINE l == Bytes - i
    <2>4. l \in 1..Bytes /\ l \in 0..Bytes /\ Bytes - (i + 1) = l - 1 /\ (l - 1) + 1 = l
      BY <1>1, <2>1
    <2>5. l..Bytes = {l} \cup ((l + 1)..Bytes)
      BY <1>1, <2>4
    <2>6. OK(l)
      BY <2>3
    <2> HIDE DEF l
    <2>7. /\ Full(l - 1) <=> ip[l] = Radix - 1 /\ Full(l)
          /\ Empty(l - 1) <=> ip[l] = 0 /\ Empty(l)
      BY <2>4, <2>5
    <2> DEFINE w == Weight(l)  r == n % w  d == ip[l]
    <2>8. w \in Nat \ {0} /\ Weight(l - 1) = w * Radix
      BY <2>4, Weights
    <2>9. d \in 0..(Radix - 1) /\ (n \div w) % Radix = d
      BY <1>2, <2>4
    <2>10. OK(l) <=> /\ Full(l) <=> r = w - 1
                     /\ Empty(l) <=> r = 0
      OBVIOUS
    <2> HIDE DEF w, d
    <2>11. n % (w * Radix) = w * ((n \div w) % Radix) + r
      BY <1>1, <1>2, <2>8, RemainderTwice, Zenon
    <2>12. r \in 0..(w - 1)
      BY <1>2, <2>8, Division
    <2> HIDE DEF r
    <2>13. /\ w * d + r = w * Radix - 1 <=> d = Radix - 1 /\ r = w - 1
           /\ w * d + r = 0 <=> d = 0 /\ r = 0
      BY <1>1, <2>8, <2>9, <2>12, TwoDigits
    <2>14. n % Weight(l - 1) = w * d + r
      BY <2>8, <2>9, <2>11
    <2>15. /\ Full(l - 1) <=> d = Radix - 1 /\ r = w - 1
           /\ Empty(l - 1) <=> d = 0 /\ r = 0
      <3> HIDE DEF Full, Empty
      <3>1. QED
        BY <2>6, <2>7, <2>10 DEF d
    <2>16. OK(l - 1)
      <3> HIDE DEF Full, Empty
      <3>1. QED
        BY <2>8, <2>13, <2>14, <2>15
    <2> HIDE DEF OK
    <2>17. QED
      BY <2>4, <2>16
  <1> HIDE DEF T, OK
  <1>5. Nat \subseteq T
    BY <1>3, <1>4, Induction
  <1>6. Bytes - j \in Nat /\ Bytes - j <= Bytes /\ Bytes - (Bytes - j) = j
    BY <1>1
  <1>7. OK(j)
    BY <1>5, <1>6 DEF T
  <1>8. QED
    BY <1>7 DEF OK, n

\* One more, starting over at 0 behind the last number.
Up(n) == IF n = Space - 1 THEN 0 ELSE n + 1

LEMMA UpIs ==
  ASSUME NEW n \in 0..(Space - 1), NEW j \in 1..Bytes
  PROVE  /\ Up(n) \in 0..(Space - 1)
         /\ (Up(n) \div Weight(j)) % Radix = IF n % Weight(j) = Weight(j) - 1
                                             THEN (((n \div Weight(j)) % Radix) + 1) % Radix
                                             ELSE (n \div Weight(j)) % Radix
         /\ Up(n) % Weight(j) = 0 <=> n % Weight(j) = Weight(j) - 1
  <1> DEFINE w == Weight(j)
  <1>1. Bytes \in Nat \ {0} /\ Radix \in Nat \ {0} /\ Space \in Nat \ {0} /\ j \in 0..Bytes /\ n \in Nat
    BY SizeAssumption, Sizes
  <1>2. w \in Nat \ {0} /\ \E c \in Nat \ {0} : Space = (w * Radix) * c
    BY <1>1, Weights
  <1>3. Up(n) \in 0..(Space - 1)
    BY <1>1 DEF Up
  <1> HIDE DEF w
  <1>4. CASE n = Space - 1
    <2>1. PICK c \in Nat \ {0} : n + 1 = (w * Radix) * c
      BY <1>1, <1>2, <1>4
    <2>2. n % w = w - 1 /\ (n \div w) % Radix = Radix - 1
      <3>1. Radix \in Nat \ {0}
        BY <1>1
      <3>2. w \in Nat \ {0}
        BY <1>2
      <3>3. n \in Nat
        BY <1>1
      <3>4. QED
        BY <2>1, <3>1, <3>2, <3>3, CountAround, Zenon
    <2>3. Up(n) = 0 /\ 0 = w * 0 + 0 /\ 0 = Radix * 0 + 0 /\ Radix = Radix * 1 + 0 /\ 0 \in Nat /\ 1 \in Nat
      BY <1>1, <1>2, <1>4 DEF Up
    <2>4. 0 \div w = 0 /\ 0 % w = 0 /\ 0 % Radix = 0 /\ Radix % Radix = 0
      BY <1>1, <1>2, <2>3, Quotient
    <2>5. (Radix - 1) + 1 = Radix
      BY <1>1
    <2>6. QED
      BY <1>3, <2>2, <2>3, <2>4, <2>5 DEF w
  <1>5. CASE n # Space - 1
    <2>1. Up(n) = n + 1
      BY <1>5 DEF Up
    <2>2. /\ ((n + 1) \div w) % Radix = IF n % w = w - 1 THEN (((n \div w) % Radix) + 1) % Radix
                                        ELSE (n \div w) % Radix
          /\ (n + 1) % w = 0 <=> n % w = w - 1
      BY <1>1, <1>2, CountUp
    <2>3. QED
      BY <1>3, <2>1, <2>2 DEF w
  <1>6. QED
    BY <1>4, <1>5

\* Inc counts up.
LEMMA IncIs ==
  ASSUME NEW ip \in Address
  PROVE  /\ Inc(ip) \in Address /\ Inc(ip) = intToIP(Up(ipToInt(ip)))
         /\ ipToInt(Inc(ip)) = Up(ipToInt(ip))
  <1> DEFINE n == ipToInt(ip)  m == Up(n)
  <1>1. Bytes \in Nat \ {0} /\ n \in 0..(Space - 1)
    BY SizeAssumption, Digits
  <1>2. m \in 0..(Space - 1) /\ m \in Nat
    <2>1. 1 \in 1..Bytes /\ Space \in Nat
      BY <1>1, Sizes
    <2> HIDE DEF n
    <2>2. QED
      BY <1>1, <2>1, UpIs
  <1>3. ASSUME NEW j \in 1..Bytes PROVE intToIP(m)[j] = Inc(ip)[j]
    <2>1. intToIP(m)[j] = (m \div Weight(j)) % Radix
      BY <1>2, BytesOfNumber
    <2>2. ip[j] = (n \div Weight(j)) % Radix
      BY Digits
    <2>3. j \in 0..Bytes
      BY <1>1
    <2>4. (\A k \in (j + 1)..Bytes : ip[k] = Radix - 1) <=> n % Weight(j) = Weight(j) - 1
      BY <2>3, Tails
    <2>5. Inc(ip)[j] = IF \A k \in (j + 1)..Bytes : ip[k] = Radix - 1
                       THEN (ip[j] + 1) % Radix ELSE ip[j]
      BY DEF Inc
    <2> HIDE DEF n
    <2>6. (m \div Weight(j)) % Radix = IF n % Weight(j) = Weight(j) - 1
                                       THEN (((n \div Weight(j)) % Radix) + 1) % Radix
                                       ELSE (n \div Weight(j)) % Radix
      BY <1>1, UpIs
    <2> HIDE DEF m
    <2>7. QED
      BY <2>1, <2>2, <2>4, <2>5, <2>6
  <1>4. Inc(ip) = [j \in 1..Bytes |-> Inc(ip)[j]]
    BY DEF Inc
  <1>5. intToIP(m) = [j \in 1..Bytes |-> intToIP(m)[j]]
    BY DEF intToIP
  <1>6. Inc(ip) = intToIP(m)
    <2> HIDE DEF m
    <2>1. QED
      BY <1>3, <1>4, <1>5
  <1>7. intToIP(m) \in Address /\ ipToInt(intToIP(m)) = m
    <2> HIDE DEF m
    <2>1. QED
      BY <1>2, NumberOfAddress
  <1>8. QED
    BY <1>6, <1>7

\* Dec counts down: it undoes Inc.
LEMMA DecIs ==
  ASSUME NEW n \in 0..(Space - 1)
  PROVE  Dec(intToIP(Up(n))) = intToIP(n)
  <1> DEFINE m == Up(n)  ip == intToIP(m)
  <1>1. Bytes \in Nat \ {0} /\ Radix \in Nat \ {0} /\ Space \in Nat /\ n \in Nat
    BY SizeAssumption, Sizes
  <1>2. m \in 0..(Space - 1) /\ m \in Nat
    <2>1. 1 \in 1..Bytes
      BY <1>1
    <2>2. QED
      BY <1>1, <2>1, UpIs
  <1>3. ip \in Address /\ ipToInt(ip) = m
    <2> HIDE DEF m
    <2>1. QED
      BY <1>2, NumberOfAddress
  <1>4. ASSUME NEW j \in 1..Bytes PROVE intToIP(n)[j] = Dec(ip)[j]
    <2> DEFINE w == Weight(j)  b == (n \div w) % Radix
    <2>1. j \in 0..Bytes
      BY <1>1
    <2>2. w \in Nat \ {0}
      BY <2>1, Weights
    <2>3. intToIP(n)[j] = b /\ ip[j] = (m \div w) % Radix
      <3> HIDE DEF m
      <3>1. QED
        BY <1>1, <1>2, BytesOfNumber
    <2>4. (\A k \in (j + 1)..Bytes : ip[k] = 0) <=> m % w = 0
      <3> HIDE DEF ip, m
      <3>1. QED
        BY <1>3, <2>1, Tails
    <2>5. Dec(ip)[j] = IF \A k \in (j + 1)..Bytes : ip[k] = 0 THEN (ip[j] - 1) % Radix ELSE ip[j]
      BY DEF Dec
    <2>6. /\ (m \div w) % Radix = IF n % w = w - 1 THEN (b + 1) % Radix ELSE b
          /\ m % w = 0 <=> n % w = w - 1
      BY UpIs
    <2> HIDE DEF w, m
    <2>7. n \div w \in Nat
      BY <1>1, <2>2, Division
    <2>8. (((b + 1) % Radix) - 1) % Radix = b
      <3> DEFINE q == n \div w
      <3>1. q \in Nat
        BY <2>7
      <3> HIDE DEF q
      <3>2. (((((q % Radix) + 1) % Radix) - 1) % Radix) = q % Radix
        BY <1>1, <3>1, DigitUp
      <3>3. QED
        BY <3>2 DEF q
    <2> HIDE DEF b, ip
    <2>9. QED
      BY <2>3, <2>4, <2>5, <2>6, <2>8
  <1>5. Dec(ip) = [j \in 1..Bytes |-> Dec(ip)[j]]
    BY DEF Dec
  <1>6. intToIP(n) = [j \in 1..Bytes |-> intToIP(n)[j]]
    BY DEF intToIP
  <1> HIDE DEF ip
  <1>7. Dec(ip) = intToIP(n)
    BY <1>4, <1>5, <1>6
  <1>8. QED
    BY <1>7 DEF ip
-----------------------------------------------------------------------------
(***************************************************************************)
(* What the functions do to intervals.                                     *)
(***************************************************************************)
LEMMA SizesDivide ==
  ASSUME NEW len \in 0..Width, NEW longer \in len..Width
  PROVE  /\ pow2[longer - len] \in Nat \ {0} /\ longer \in 0..Width
         /\ Size(len) = pow2[longer - len] * Size(longer)
  <1>1. Width \in Nat
    BY Sizes
  <1>2. /\ longer - len \in Nat /\ Width - longer \in Nat /\ longer \in 0..Width
        /\ (longer - len) + (Width - longer) = Width - len
    BY <1>1
  <1>3. QED
    BY <1>2, Pow2Sum, Pow2Step DEF Size

LEMMA RangeIs ==
  ASSUME NEW net \in Network
  PROVE  LET n == First(net) + Size(net.len) - 1  range == AddressRange(net) IN
         /\ n \in 0..(Space - 1)
         /\ range.first = net.ip /\ ipToInt(range.first) = First(net)
         /\ range.last = intToIP(n) /\ range.last \in Address /\ ipToInt(range.last) = n
         /\ range.first \in Address
  <1> DEFINE a == First(net)  b == Size(net.len) - 1  k == Width - net.len
  <1>1. net.ip \in Address /\ net.len \in 0..Width /\ a \in 0..(Space - 1)
        /\ a % Size(net.len) = 0 /\ a + Size(net.len) <= Space
    BY NetworkIs
  <1>2. Size(net.len) \in Nat \ {0} /\ Space \in Nat /\ Width \in Nat
    BY <1>1, SizeIs, Sizes
  <1>3. k \in 0..Width /\ Size(net.len) = pow2[k] /\ Space = pow2[Width]
    BY <1>1, <1>2 DEF Size, Space
  <1>4. ipToInt(net.ip) = a
    BY DEF First
  <1>5. AddressRange(net).last = intToIP(Or(b, a, Width)) /\ AddressRange(net).first = net.ip
    BY <1>3, <1>4 DEF AddressRange
  <1>6. a \in Nat /\ b \in Nat /\ a % pow2[k] = 0 /\ a < pow2[Width] /\ b < pow2[k]
    BY <1>1, <1>2, <1>3
  <1>7. a + b = a + Size(net.len) - 1 /\ a + b \in 0..(Space - 1)
    BY <1>1, <1>2
  <1> HIDE DEF a, b, k
  <1>8. Or(b, a, Width) = a + b
    BY <1>2, <1>3, <1>6, OrOfParts
  <1>9. intToIP(a + b) \in Address /\ ipToInt(intToIP(a + b)) = a + b
    BY <1>7, NumberOfAddress
  <1>10. QED
    BY <1>1, <1>4, <1>5, <1>7, <1>8, <1>9 DEF a

LEMMA InsertIs ==
  ASSUME NEW base \in Network, NEW len \in base.len..Width,
         NEW num \in 0..(pow2[len - base.len] - 1)
  PROVE  LET n == First(base) + num * Size(len) IN
         /\ insertNumIntoIP(base.ip, num, len) = intToIP(n)
         /\ n \in 0..(Space - 1) /\ First(base) <= n
         /\ n % Size(len) = 0
         /\ n + Size(len) <= First(base) + Size(base.len)
  <1> DEFINE a == First(base)  h == Size(len)  H == Size(base.len)  p == pow2[len - base.len]
             b == num * h  k == Width - base.len
  <1>1. base.ip \in Address /\ base.len \in 0..Width /\ a \in 0..(Space - 1)
        /\ a % H = 0 /\ a + H <= Space
    BY NetworkIs
  <1>2. p \in Nat \ {0} /\ H = p * h /\ len \in 0..Width
    BY <1>1, SizesDivide
  <1>3. h \in Nat \ {0} /\ H \in Nat \ {0} /\ Space \in Nat /\ Width \in Nat
    BY <1>1, <1>2, SizeIs, Sizes
  <1>4. k \in 0..Width /\ H = pow2[k] /\ Space = pow2[Width]
    BY <1>1, <1>3 DEF Size, Space
  <1>5. num \in Nat /\ num <= p - 1
    BY <1>2
  <1>6. insertNumIntoIP(base.ip, num, len) = intToIP(Or(a, b, Width))
    BY <1>5 DEF insertNumIntoIP, Size, First
  <1> HIDE DEF a, h, H, p, k
  <1>7. b \in Nat /\ b + h <= H
    <2>1. num * h <= (p - 1) * h /\ (p - 1) * h = p * h - h
      BY <1>2, <1>3, <1>5
    <2>2. num * h \in Nat
      BY <1>3, <1>5
    <2>3. QED
      BY <1>2, <1>3, <2>1, <2>2
  <1>8. (a + b) % h = 0
    <2>1. h \in Nat \ {0} /\ p \in Nat \ {0} /\ a \in Nat /\ num \in Nat /\ a % (p * h) = 0
      BY <1>1, <1>2, <1>3, <1>5
    <2>2. QED
      BY <2>1, SumOfMultiples, Zenon
  <1> HIDE DEF b
  <1>9. Or(a, b, Width) = a + b
    <2>1. a \in Nat /\ a % pow2[k] = 0 /\ a < pow2[Width] /\ b < pow2[k]
      BY <1>1, <1>3, <1>4, <1>7
    <2>2. QED
      BY <1>3, <1>4, <1>7, <2>1, OrOfParts
  <1>10. a + b \in 0..(Space - 1) /\ a <= a + b /\ (a + b) + h <= a + H
    BY <1>1, <1>3, <1>7
  <1>11. QED
    BY <1>6, <1>8, <1>9, <1>10 DEF a, b, h, H

\* The part of a network that a number stands for.
Part(base, len, num) == [ip |-> intToIP(First(base) + num * Size(len)), len |-> len]

LEMMA PartIs ==
  ASSUME NEW base \in Network, NEW len \in base.len..Width,
         NEW num \in 0..(pow2[len - base.len] - 1)
  PROVE  /\ Part(base, len, num) \in Network
         /\ Part(base, len, num).len = len
         /\ First(Part(base, len, num)) = First(base) + num * Size(len)
  <1> DEFINE n == First(base) + num * Size(len)
  <1>1. n \in 0..(Space - 1) /\ n % Size(len) = 0
    BY InsertIs
  <1>2. len \in 0..Width
    BY NetworkIs, SizesDivide
  <1>3. Part(base, len, num) = [ip |-> intToIP(n), len |-> len]
    BY DEF Part
  <1> HIDE DEF n
  <1>4. [ip |-> intToIP(n), len |-> len] \in Network /\ ipToInt(intToIP(n)) = n
    BY <1>1, <1>2, AlignedNetwork, NumberOfAddress
  <1>5. QED
    BY <1>3, <1>4 DEF First, n

\* The numbers of uint64 and of int.
LEMMA Words ==
  ASSUME NEW newBits \in Nat, NEW num \in IntArg
  PROVE  LET p == pow2[newBits]
             maxNetNum == ((p % Word) - 1) % Word IN
         /\ 0 <= num /\ num < p => num % Word <= maxNetNum
         /\ newBits < WordBits =>
              /\ p <= pow2[WordBits - 1]
              /\ ~(0 <= num /\ num < p) => num % Word > maxNetNum
         /\ newBits >= WordBits => num < p /\ -num < p
  <1> DEFINE p == pow2[newBits]  maxNetNum == ((p % Word) - 1) % Word  half == pow2[WordBits - 1]
  <1>1. WordBits \in Nat \ {0} /\ Word = 2 * half /\ half \in Nat \ {0} /\ p \in Nat \ {0}
    BY SizeAssumption, Sizes, Pow2Step
  <1>2. num \in Int /\ -half <= num /\ num <= half - 1
    <2>1. IntArg = -half..(half - 1)
      BY DEF IntArg
    <2> HIDE DEF half
    <2>2. QED
      BY <1>1, <2>1
  <1>3. (num >= 0 => num % Word = num) /\ (num < 0 => num % Word = num + Word)
    <2> HIDE DEF half
    <2>1. QED
      BY <1>1, <1>2
  <1>4. CASE newBits < WordBits
    <2>1. WordBits - 1 \in Nat /\ newBits \in 0..(WordBits - 1)
      BY <1>1, <1>4
    <2>2. p <= half
      BY <2>1, Pow2Divides
    <2> HIDE DEF p, half
    <2>3. p % Word = p
      BY <1>1, <2>2
    <2>4. maxNetNum = p - 1
      BY <1>1, <2>2, <2>3
    <2> HIDE DEF maxNetNum
    <2>5. /\ 0 <= num /\ num < p => num % Word <= maxNetNum
          /\ ~(0 <= num /\ num < p) => num % Word > maxNetNum
      BY <1>1, <1>2, <1>3, <2>2, <2>4
    <2>6. QED
      BY <1>1, <1>4, <2>2, <2>5 DEF p, maxNetNum, half
  <1>5. CASE newBits >= WordBits
    <2>1. WordBits \in 0..newBits /\ pow2[WordBits] = Word
      BY <1>1, <1>5 DEF Word
    <2>2. /\ p = Word * pow2[newBits - WordBits] /\ Word <= p
          /\ pow2[newBits - WordBits] \in Nat \ {0}
      BY <2>1, Pow2Divides
    <2> DEFINE c == pow2[newBits - WordBits]
    <2> HIDE DEF p, half, c
    <2>3. p = Word * c /\ c \in Nat /\ Word \in Nat \ {0}
      BY <1>1, <2>2 DEF c
    <2>4. p % Word = 0
      BY <2>3, ProductIsMultiple, Zenon
    <2>5. maxNetNum = Word - 1
      BY <1>1, <2>4
    <2> HIDE DEF maxNetNum
    <2>6. num % Word <= maxNetNum /\ num < p /\ -num < p
      BY <1>1, <1>2, <1>3, <2>2, <2>5
    <2>7. QED
      BY <1>1, <1>5, <2>6 DEF p, maxNetNum
  <1>6. QED
    BY <1>1, <1>4, <1>5

LEMMA SubnetIs ==
  ASSUME NEW net \in Network, NEW newBits \in 0..(Width - net.len), NEW num \in IntArg
  PROVE  /\ 0 <= num /\ num < pow2[newBits] =>
              Subnet(net, newBits, num) = {Part(net, net.len + newBits, num)}
         /\ newBits < WordBits =>
              /\ pow2[newBits] <= pow2[WordBits - 1]
              /\ ~(0 <= num /\ num < pow2[newBits]) => Subnet(net, newBits, num) = {}
         /\ Subnet(net, newBits, num) \subseteq Network
  <1> DEFINE len == net.len + newBits  h == Size(len)  p == pow2[newBits]
             maxNetNum == ((p % Word) - 1) % Word
             sub == [ip |-> insertNumIntoIP(net.ip, num, len), len |-> len]
  <1>1. net.len \in 0..Width /\ Width \in Nat /\ newBits \in Nat /\ First(net) \in Nat
    BY NetworkIs, Sizes
  <1>2. len \in net.len..Width /\ len \in 0..Width /\ len - net.len = newBits /\ ~(len > Width)
    BY <1>1
  <1>3. Subnet(net, newBits, num) = IF num % Word > maxNetNum THEN {} ELSE {sub}
    BY <1>2 DEF Subnet
  <1>4. /\ 0 <= num /\ num < p => num % Word <= maxNetNum
        /\ newBits < WordBits =>
              /\ p <= pow2[WordBits - 1]
              /\ ~(0 <= num /\ num < p) => num % Word > maxNetNum
        /\ newBits >= WordBits => num < p /\ -num < p
    BY <1>1, Words
  <1>5. p \in Nat \ {0} /\ h \in Nat \ {0} /\ Size(net.len) = p * h /\ Size(net.len) <= Space
        /\ Space \in Nat
    BY <1>1, <1>2, SizesDivide, SizeIs, Sizes
  <1>6. num \in Int /\ WordBits \in Nat
    BY Sizes, SizeAssumption DEF IntArg
  <1>7. num % Word \in Int /\ maxNetNum \in Int
    <2>1. Word \in Nat \ {0} /\ p % Word \in Int
      BY <1>5, Sizes
    <2> DEFINE q == (p % Word) - 1
    <2>2. q \in Int
      BY <2>1
    <2> HIDE DEF q
    <2>3. QED
      BY <1>6, <2>1, <2>2 DEF q
  <1>8. ASSUME 0 <= num, num < p
        PROVE  sub = Part(net, len, num) /\ Part(net, len, num) \in Network
    <2>1. num \in 0..(pow2[len - net.len] - 1)
      BY <1>2, <1>5, <1>6, <1>8
    <2> HIDE DEF len
    <2>2. insertNumIntoIP(net.ip, num, len) = intToIP(First(net) + num * Size(len))
      BY <1>2, <2>1, InsertIs
    <2>3. Part(net, len, num) \in Network
      BY <1>2, <2>1, PartIs
    <2>4. QED
      BY <2>2, <2>3 DEF Part
  <1>9. ASSUME num < 0, newBits >= WordBits PROVE sub \in Network
    <2> DEFINE n == -(num * h)  m == -num
    <2>1. insertNumIntoIP(net.ip, num, len) = intToIP(n)
      BY <1>9 DEF insertNumIntoIP, Size
    <2>2. m \in Nat /\ m < p
      BY <1>4, <1>6, <1>9
    <2> HIDE DEF h, len, p
    <2>3. n = h * m /\ n \in Nat
      BY <1>5, <1>6, <2>2
    <2>4. m * h < p * h /\ m * h = h * m
      BY <1>5, <2>2
    <2>5. n \in 0..(Space - 1)
      BY <1>5, <2>3, <2>4
    <2>6. n = h * m + 0
      BY <2>3
    <2> HIDE DEF m, n
    <2>7. (h * m + 0) % h = 0
      BY <1>5, <2>2, Quotient
    <2>8. [ip |-> intToIP(n), len |-> len] \in Network
      BY <1>2, <2>5, <2>6, <2>7, AlignedNetwork DEF h
    <2>9. QED
      BY <2>1, <2>8
  <1> HIDE DEF sub, maxNetNum, p, len
  <1>10. 0 <= num /\ num < p => Subnet(net, newBits, num) = {Part(net, len, num)}
    BY <1>3, <1>4, <1>6, <1>7, <1>8
  <1>11. newBits < WordBits => /\ p <= pow2[WordBits - 1]
                               /\ ~(0 <= num /\ num < p) => Subnet(net, newBits, num) = {}
    BY <1>3, <1>4
  <1>12. Subnet(net, newBits, num) \subseteq Network
    <2>1. CASE 0 <= num /\ num < p
      BY <1>8, <1>10, <2>1
    <2>2. CASE ~(0 <= num /\ num < p) /\ newBits < WordBits
      BY <1>11, <2>2
    <2>3. CASE ~(0 <= num /\ num < p) /\ newBits >= WordBits
      <3>1. num < 0
        BY <1>4, <1>6, <2>3
      <3>2. sub \in Network
        BY <1>9, <2>3, <3>1
      <3>3. QED
        BY <1>3, <3>2
    <2>4. QED
      BY <1>1, <1>6, <2>1, <2>2, <2>3
  <1>13. QED
    BY <1>10, <1>11, <1>12 DEF p, len
LEMMA ZeroIs ==
  ASSUME NEW ip \in Address
  PROVE  ip = Zero <=> ipToInt(ip) = 0
  <1>1. Bytes \in Nat \ {0} /\ Radix \in Nat \ {0} /\ Space \in Nat \ {0} /\ 0 \in 0..(Space - 1)
    BY SizeAssumption, Sizes
  <1>2. ASSUME NEW j \in 1..Bytes PROVE intToIP(0)[j] = 0
    <2>1. j \in 0..Bytes
      BY <1>1
    <2> DEFINE w == Weight(j)
    <2>2. w \in Nat \ {0}
      BY <2>1, Weights
    <2>3. intToIP(0)[j] = (0 \div w) % Radix
      BY BytesOfNumber
    <2> HIDE DEF w
    <2>4. 0 = w * 0 + 0 /\ 0 = Radix * 0 + 0
      BY <1>1, <2>2
    <2>5. 0 \div w = 0 /\ 0 % Radix = 0
      BY <1>1, <2>2, <2>4, Quotient
    <2>6. QED
      BY <2>3, <2>5
  <1>3. intToIP(0) = [j \in 1..Bytes |-> intToIP(0)[j]]
    BY DEF intToIP
  <1>4. intToIP(0) = Zero
    BY <1>2, <1>3 DEF Zero
  <1>5. ipToInt(intToIP(0)) = 0 /\ intToIP(ipToInt(ip)) = ip
    BY <1>1, NumberOfAddress, AddressOfNumber
  <1>6. QED
    BY <1>4, <1>5

\* The block of the asked size that holds the end of the network, and the one
\* behind it.
LEMMA NextIs ==
  ASSUME NEW net \in Network, NEW len \in 0..Width
  PROVE  LET M == First(net) + Size(net.len) - 1
             h == Size(len)
             boundary == (M \div h + 1) * h
             next == NextSubnet(net, len)
             back == PreviousSubnet(next.net, len) IN
         /\ next.net \in Network /\ next.net.len = len
         /\ boundary \in Nat /\ M < boundary /\ boundary <= Space
         /\ First(next.net) = IF boundary = Space THEN 0 ELSE boundary
         /\ next.rolled <=> boundary = Space
         /\ back.net \in Network /\ M \in Numbers(back.net)
         /\ back.rolled <=> next.rolled
  <1> DEFINE M == First(net) + Size(net.len) - 1
             h == Size(len)
             start == (M \div h) * h
             boundary == (M \div h + 1) * h
             currentLast == AddressRange(net).last
             current == [ip |-> Mask(currentLast, len), len |-> len]
             e == AddressRange(current).last
             last == Inc(e)
             next == NextSubnet(net, len)
             back == PreviousSubnet(next.net, len)
  <1>1. h \in Nat \ {0} /\ Space \in Nat \ {0}
    BY SizeIs, Sizes
  <1>2. M \in 0..(Space - 1) /\ currentLast \in Address /\ ipToInt(currentLast) = M
    BY RangeIs
  <1>3. next = [net |-> [ip |-> Mask(last, len), len |-> len], rolled |-> last = Zero]
    BY DEF NextSubnet
  <1>4. back = [net |-> [ip |-> Mask(Dec(next.net.ip), len), len |-> len],
                rolled |-> next.net.ip = Zero]
    BY DEF PreviousSubnet
  <1> HIDE DEF M, h, currentLast, next, back
  <1>5. /\ current \in Network /\ current.len = len /\ First(current) = start
        /\ current.ip = Mask(currentLast, len)
    BY <1>2, MaskIs DEF First, h
  <1> HIDE DEF current
  <1>6. start \in Nat /\ start <= M /\ M < start + h /\ start % h = 0 /\ boundary = start + h
    <2>1. M \in Nat
      BY <1>2
    <2>2. M \div h \in Nat
      BY <1>1, <2>1, Division
    <2> DEFINE q == M \div h
    <2>3. (q + 1) * h = q * h + h
      <3>1. q \in Nat
        BY <2>2
      <3> HIDE DEF q
      <3>2. QED
        BY <1>1, <3>1
    <2>4. QED
      BY <1>1, <2>1, <2>3, MultipleBelow
  <1> HIDE DEF start, boundary
  <1>7. boundary <= Space
    BY <1>5, <1>6, NetworkIs DEF h
  <1>8. e \in Address /\ ipToInt(e) = boundary - 1 /\ e = intToIP(boundary - 1)
    <2>1. start + Size(current.len) - 1 = boundary - 1
      BY <1>1, <1>5, <1>6 DEF h
    <2>2. QED
      BY <1>5, <2>1, RangeIs
  <1> HIDE DEF e
  <1>9. boundary - 1 \in 0..(Space - 1)
    BY <1>1, <1>6, <1>7
  <1>10. /\ last \in Address /\ last = intToIP(Up(boundary - 1))
         /\ ipToInt(last) = IF boundary = Space THEN 0 ELSE boundary
    <2>1. Up(boundary - 1) = IF boundary = Space THEN 0 ELSE boundary
      BY <1>1, <1>6, <1>7 DEF Up
    <2>2. QED
      BY <1>8, <2>1, IncIs
  <1>11. Dec(last) = e
    BY <1>8, <1>9, <1>10, DecIs
  <1> HIDE DEF last
  <1>12. ipToInt(last) % h = 0
    <2>1. 0 % h = 0
      BY <1>1
    <2>2. boundary % h = 0
      <3>1. M \div h + 1 \in Nat
        BY <1>1, <1>2
      <3> DEFINE q == M \div h + 1
      <3>2. q \in Nat /\ boundary = q * h
        BY <3>1 DEF boundary
      <3> HIDE DEF q
      <3>3. q * h = h * q
        BY <1>1, <3>2
      <3>4. QED
        BY <1>1, <3>2, <3>3, ProductIsMultiple
    <2>3. QED
      BY <1>10, <2>1, <2>2
  <1>13. Mask(last, len) = last /\ [ip |-> last, len |-> len] \in Network
    BY <1>10, <1>12, MaskIs DEF h
  <1>14. /\ next.net = [ip |-> last, len |-> len] /\ next.rolled = (last = Zero)
         /\ next.net.ip = last /\ next.net.len = len
    BY <1>3, <1>13
  <1>15. last = Zero <=> boundary = Space
    <2>1. last = Zero <=> ipToInt(last) = 0
      BY <1>10, ZeroIs
    <2>2. boundary > 0
      BY <1>1, <1>2, <1>6
    <2>3. QED
      BY <1>10, <2>1, <2>2
  <1>16. Mask(e, len) = current.ip
    <2>1. ipToInt(e) \in Numbers(current)
      <3>1. boundary - 1 \in Nat /\ start <= boundary - 1 /\ boundary - 1 < start + h
        BY <1>1, <1>6
      <3>2. QED
        BY <1>1, <1>5, <1>8, <1>9, <3>1, NumbersAre DEF h
    <2>2. Contains(current, e)
      BY <1>5, <1>8, <2>1, ContainsIs
    <2>3. QED
      BY <1>5, <2>2 DEF Contains
  <1>17. back.net = current /\ back.rolled = (last = Zero)
    <2>1. current = [ip |-> current.ip, len |-> len]
      BY <1>5, NetworkIs
    <2>2. QED
      BY <1>4, <1>11, <1>14, <1>16, <2>1
  <1>18. M \in Numbers(back.net)
    BY <1>2, <1>5, <1>6, <1>17, NumbersAre DEF h
  <1>19. First(next.net) = IF boundary = Space THEN 0 ELSE boundary
    BY <1>10, <1>14 DEF First
  <1>20. QED
    <2>1. /\ next.net \in Network /\ next.net.len = len
          /\ next.rolled <=> boundary = Space
          /\ back.net \in Network
          /\ back.rolled <=> next.rolled
      BY <1>5, <1>13, <1>14, <1>15, <1>17
    <2>2. boundary \in Nat /\ M < boundary
      BY <1>1, <1>6
    <2>3. QED
      BY <1>7, <1>18, <1>19, <2>1, <2>2 DEF M, h, boundary, next, back

LEMMA PreviousIs ==
  ASSUME NEW net \in Network, NEW len \in 0..Width
  PROVE  PreviousSubnet(net, len).net \in Network
  <1>1. net.ip \in Address /\ First(net) \in 0..(Space - 1) /\ intToIP(First(net)) = net.ip
    BY NetworkIs
  <1> DEFINE n == First(net)  d == IF n = 0 THEN Space - 1 ELSE n - 1
  <1>2. d \in 0..(Space - 1) /\ Up(d) = n
    BY <1>1, Sizes DEF Up
  <1> HIDE DEF d
  <1>3. Dec(net.ip) = intToIP(d) /\ intToIP(d) \in Address
    BY <1>1, <1>2, DecIs, NumberOfAddress
  <1>4. [ip |-> Mask(Dec(net.ip), len), len |-> len] \in Network
    BY <1>3, MaskIs
  <1>5. QED
    BY <1>4 DEF PreviousSubnet
-----------------------------------------------------------------------------
(***************************************************************************)
(* The theorems.                                                           *)
(***************************************************************************)
\* Whatever is divided, visited and collected, the networks in hand are
\* networks: masked, and inside the address space.
THEOREM TypeCorrect == Spec => []TypeOK
  <1>1. Init => TypeOK
    <2> SUFFICES ASSUME Init PROVE TypeOK
      OBVIOUS
    <2>1. 0 \in 0..MaxSubnets
      BY SizeAssumption
    <2>2. <<>> \in [1..0 -> Network]
      OBVIOUS
    <2>3. QED
      BY <2>1, <2>2 DEF Init, TypeOK
  <1>2. TypeOK /\ [Next]_vars => TypeOK'
    <2> SUFFICES ASSUME TypeOK, [Next]_vars PROVE TypeOK'
      OBVIOUS
    <2>1. network \in Network /\ network.len \in 0..Width /\ Width \in Nat
      BY NetworkIs, Sizes DEF TypeOK
    <2>2. CASE Divide
      <3>1. PICK newBits \in 0..Width, num \in IntArg :
              \E sub \in Subnet(network, newBits, num) : network' = sub /\ UNCHANGED plan
        BY <2>2 DEF Divide
      <3>2. PICK sub \in Subnet(network, newBits, num) : network' = sub /\ UNCHANGED plan
        BY <3>1
      <3>3. newBits \in 0..(Width - network.len)
        <4>1. ~(network.len + newBits > Width)
          BY <3>2 DEF Subnet
        <4>2. QED
          BY <2>1, <4>1
      <3>4. sub \in Network
        BY <2>1, <3>2, <3>3, SubnetIs
      <3>5. QED
        BY <3>2, <3>4 DEF TypeOK
    <2>3. CASE GoNext
      <3>1. PICK len \in 0..Width : network' = NextSubnet(network, len).net /\ UNCHANGED plan
        BY <2>3 DEF GoNext
      <3>2. NextSubnet(network, len).net \in Network
        BY <2>1, NextIs
      <3>3. QED
        BY <3>1, <3>2 DEF TypeOK
    <2>4. CASE GoPrevious
      <3>1. PICK len \in 0..Width : network' = PreviousSubnet(network, len).net /\ UNCHANGED plan
        BY <2>4 DEF GoPrevious
      <3>2. PreviousSubnet(network, len).net \in Network
        BY <2>1, PreviousIs
      <3>3. QED
        BY <3>1, <3>2 DEF TypeOK
    <2>5. CASE Collect
      <3>1. PICK n \in 0..MaxSubnets : plan \in [1..n -> Network]
        BY DEF TypeOK
      <3>2. n \in Nat /\ MaxSubnets \in Nat
        BY SizeAssumption
      <3>3. Len(plan) = n /\ plan \in Seq(Network)
        BY <3>1, <3>2
      <3>4. n + 1 \in 0..MaxSubnets
        BY <2>5, <3>2, <3>3 DEF Collect
      <3>5. Append(plan, network) \in [1..(n + 1) -> Network]
        <4>1. Append(plan, network) \in Seq(Network) /\ Len(Append(plan, network)) = n + 1
          BY <2>1, <3>2, <3>3
        <4>2. QED
          BY <4>1, LenProperties
      <3>6. QED
        BY <2>1, <2>5, <3>4, <3>5 DEF Collect, TypeOK
    <2>6. CASE UNCHANGED vars
      BY <2>6 DEF vars, TypeOK
    <2>7. QED
      BY <2>2, <2>3, <2>4, <2>5, <2>6 DEF Next
  <1>3. QED
    BY <1>1, <1>2, PTL DEF Spec
\* VerifyNoOverlap errs on neither side: of two subnets that share an address
\* one begins inside the other.
THEOREM VerifyIsExact == Spec => []VerdictIsExact
  <1>1. ASSUME TypeOK PROVE VerdictIsExact
    <2>1. network \in Network
      BY <1>1 DEF TypeOK
    <2>2. \A i \in DOMAIN plan : plan[i] \in Network
      BY <1>1 DEF TypeOK
    <2> DEFINE a(i) == First(plan[i])  b(i) == First(plan[i]) + Size(plan[i].len) - 1
               f == First(network)  l == First(network) + Size(network.len) - 1
               range(i) == AddressRange(plan[i])
               Holds(net, i) == Contains(net, range(i).first) /\ Contains(net, range(i).last)
               Avoids(net, i) == ~Contains(net, range(i).first) /\ ~Contains(net, range(i).last)
    <2>3. ASSUME NEW net \in Network, NEW i \in DOMAIN plan
          PROVE  /\ Contains(net, range(i).first) <=> a(i) \in Numbers(net)
                 /\ Contains(net, range(i).last) <=> b(i) \in Numbers(net)
      <3>1. plan[i] \in Network
        BY <2>2
      <3>2. /\ range(i).first \in Address /\ ipToInt(range(i).first) = a(i)
            /\ range(i).last \in Address /\ ipToInt(range(i).last) = b(i)
        BY <3>1, RangeIs
      <3>3. QED
        BY <3>2, ContainsIs
    <2>4. \A i \in DOMAIN plan : /\ Numbers(plan[i]) = a(i)..b(i) /\ a(i) \in Nat /\ b(i) \in Nat
                                 /\ a(i) <= b(i)
      <3> SUFFICES ASSUME NEW i \in DOMAIN plan
                   PROVE  /\ Numbers(plan[i]) = a(i)..b(i) /\ a(i) \in Nat /\ b(i) \in Nat
                          /\ a(i) <= b(i)
        OBVIOUS
      <3>1. plan[i] \in Network /\ plan[i].len \in 0..Width
        BY <2>2, NetworkIs
      <3>2. Numbers(plan[i]) = a(i)..b(i) /\ a(i) \in Nat /\ Size(plan[i].len) \in Nat \ {0}
        BY <3>1, NumbersAre, NetworkIs, SizeIs
      <3>3. QED
        BY <3>2
    <2>5. Numbers(network) = f..l /\ f \in Nat /\ l \in Int
      <3>1. f \in Nat /\ Size(network.len) \in Nat
        BY <2>1, NetworkIs, SizeIs
      <3>2. QED
        BY <2>1, <3>1, NumbersAre
    <2>6. \A i \in DOMAIN plan : Holds(network, i) <=> Numbers(plan[i]) \subseteq Numbers(network)
      <3> SUFFICES ASSUME NEW i \in DOMAIN plan
                   PROVE  Holds(network, i) <=> Numbers(plan[i]) \subseteq Numbers(network)
        OBVIOUS
      <3>1. Holds(network, i) <=> a(i) \in Numbers(network) /\ b(i) \in Numbers(network)
        BY <2>1, <2>3
      <3>2. /\ Numbers(plan[i]) = a(i)..b(i) /\ a(i) \in Nat /\ b(i) \in Nat /\ a(i) <= b(i)
        BY <2>4
      <3> HIDE DEF a, b, f, l, Holds
      <3>3. QED
        BY <2>5, <3>1, <3>2
    <2>7. \A i, j \in DOMAIN plan :
            (Avoids(plan[i], j) /\ Avoids(plan[j], i)) <=> Numbers(plan[i]) \cap Numbers(plan[j]) = {}
      <3> SUFFICES ASSUME NEW i \in DOMAIN plan, NEW j \in DOMAIN plan
                   PROVE  (Avoids(plan[i], j) /\ Avoids(plan[j], i))
                             <=> Numbers(plan[i]) \cap Numbers(plan[j]) = {}
        OBVIOUS
      <3>1. /\ Avoids(plan[i], j) <=> a(j) \notin Numbers(plan[i]) /\ b(j) \notin Numbers(plan[i])
            /\ Avoids(plan[j], i) <=> a(i) \notin Numbers(plan[j]) /\ b(i) \notin Numbers(plan[j])
        BY <2>2, <2>3
      <3>2. /\ Numbers(plan[i]) = a(i)..b(i) /\ a(i) \in Nat /\ b(i) \in Nat /\ a(i) <= b(i)
            /\ Numbers(plan[j]) = a(j)..b(j) /\ a(j) \in Nat /\ b(j) \in Nat /\ a(j) <= b(j)
        BY <2>4
      <3> HIDE DEF a, b, Avoids
      <3>3. QED
        BY <3>1, <3>2
    <2>8. VerifyNoOverlap(plan, network) <=>
            \A i \in DOMAIN plan : /\ Holds(network, i)
                                   /\ \A j \in DOMAIN plan \ {i} : Avoids(plan[i], j)
      BY DEF VerifyNoOverlap
    <2> HIDE DEF a, b, f, l, range, Holds, Avoids
    <2>9. QED
      BY <2>6, <2>7, <2>8 DEF VerdictIsExact
  <1>2. QED
    BY <1>1, TypeCorrect, PTL

\* The addresses of a network are an interval.
LEMMA IntervalIs ==
  ASSUME NEW net \in Network
  PROVE  /\ Cardinality(Numbers(net)) = Size(net.len)
         /\ Min(Numbers(net)) = First(net)
         /\ Max(Numbers(net)) = First(net) + Size(net.len) - 1
  <1> DEFINE a == First(net)  b == First(net) + Size(net.len) - 1
  <1>1. net.len \in 0..Width /\ a \in Nat
    BY NetworkIs
  <1>2. Size(net.len) \in Nat \ {0}
    BY <1>1, SizeIs
  <1>3. Numbers(net) = a..b
    BY NumbersAre
  <1>4. b \in Nat /\ a <= b /\ b - a + 1 = Size(net.len)
    BY <1>1, <1>2
  <1> HIDE DEF a, b
  <1>5. Cardinality(a..b) = Size(net.len)
    BY <1>1, <1>4, FS_Interval
  <1>6. \A x \in a..b : (\A y \in a..b : x <= y) <=> x = a
    BY <1>1, <1>4
  <1>7. \A x \in a..b : (\A y \in a..b : x >= y) <=> x = b
    BY <1>1, <1>4
  <1>8. a \in a..b /\ b \in a..b
    BY <1>1, <1>4
  <1>9. Min(a..b) = a /\ Max(a..b) = b
    BY <1>6, <1>7, <1>8 DEF Min, Max
  <1>10. QED
    BY <1>3, <1>5, <1>9 DEF a, b

\* NextSubnet never goes past a boundary, and PreviousSubnet leads back.
THEOREM NextSubnetIsAdjacent == Spec => []NextIsAdjacent
  <1>1. ASSUME TypeOK PROVE NextIsAdjacent
    <2>1. network \in Network
      BY <1>1 DEF TypeOK
    <2> SUFFICES ASSUME NEW prefixLen \in 0..Width
                 PROVE  LET next == NextSubnet(network, prefixLen)
                            back == PreviousSubnet(next.net, prefixLen)
                            size == pow2[Width - prefixLen]
                            boundary == (Max(Numbers(network)) \div size + 1) * size
                        IN /\ Min(Numbers(next.net)) = boundary % Space
                           /\ next.rolled <=> boundary = Space
                           /\ ~next.rolled => Numbers(next.net) \cap Numbers(network) = {}
                           /\ Max(Numbers(network)) \in Numbers(back.net)
                           /\ (back.rolled <=> next.rolled)
      BY DEF NextIsAdjacent
    <2> DEFINE M == First(network) + Size(network.len) - 1
               h == Size(prefixLen)
               boundary == (M \div h + 1) * h
               next == NextSubnet(network, prefixLen)
               back == PreviousSubnet(next.net, prefixLen)
    <2>2. /\ next.net \in Network /\ next.net.len = prefixLen
          /\ boundary \in Nat /\ M < boundary /\ boundary <= Space
          /\ First(next.net) = IF boundary = Space THEN 0 ELSE boundary
          /\ next.rolled <=> boundary = Space
          /\ back.net \in Network /\ M \in Numbers(back.net)
          /\ back.rolled <=> next.rolled
      BY <2>1, NextIs
    <2>3. M = Max(Numbers(network)) /\ h = pow2[Width - prefixLen] /\ M \in Int
      BY <2>1, IntervalIs, RangeIs DEF Size
    <2> HIDE DEF boundary, next, back
    <2>4. Min(Numbers(next.net)) = First(next.net)
      BY <2>2, IntervalIs
    <2>5. Space \in Nat \ {0}
      BY Sizes
    <2>6. boundary % Space = IF boundary = Space THEN 0 ELSE boundary
      BY <2>2, <2>5
    <2>7. ASSUME ~next.rolled PROVE Numbers(next.net) \cap Numbers(network) = {}
      <3>1. First(next.net) = boundary
        BY <2>2, <2>7
      <3>2. \A n \in Numbers(next.net) : n \in Nat /\ boundary <= n
        BY <2>2, <3>1, NumbersAre
      <3>3. \A n \in Numbers(network) : n <= M
        <4>1. First(network) \in Nat /\ Size(network.len) \in Nat
          BY <2>1, NetworkIs, SizeIs
        <4>2. QED
          BY <2>1, <4>1, NumbersAre
      <3>4. boundary \in Nat /\ M \in Int /\ M < boundary
        BY <2>2, <2>3
      <3> HIDE DEF M
      <3>5. \A n \in Nat : n <= M => ~(boundary <= n)
        BY <3>4
      <3>6. QED
        BY <3>2, <3>3, <3>5
    <2>8. QED
      BY <2>2, <2>3, <2>4, <2>6, <2>7 DEF boundary, next, back
  <1>2. QED
    BY <1>1, TypeCorrect, PTL
\* Parts of different numbers are different parts of the network, and every
\* address of it is in one.
LEMMA PartsPartition ==
  ASSUME NEW base \in Network, NEW newBits \in 0..(Width - base.len)
  PROVE  LET part(num) == Numbers(Part(base, base.len + newBits, num))
             all == 0..(pow2[newBits] - 1) IN
         /\ \A num \in all : part(num) \subseteq Numbers(base)
         /\ \A i, j \in all : i # j => part(i) \cap part(j) = {}
         /\ \A x \in Numbers(base) : \E num \in all : x \in part(num)
  <1> DEFINE len == base.len + newBits  h == Size(len)  p == pow2[newBits]  a == First(base)
             all == 0..(p - 1)
             part(num) == Numbers(Part(base, len, num))
  <1>1. base.len \in 0..Width /\ Width \in Nat /\ a \in Nat
    BY NetworkIs, Sizes
  <1>2. len \in base.len..Width /\ len - base.len = newBits /\ len \in 0..Width
    BY <1>1
  <1>3. p \in Nat \ {0} /\ h \in Nat \ {0} /\ Size(base.len) = p * h
    <2> HIDE DEF len
    <2>1. QED
      BY <1>1, <1>2, SizesDivide, SizeIs
  <1>4. ASSUME NEW num \in all
        PROVE  /\ part(num) = (a + num * h)..(a + num * h + h - 1)
               /\ num \in Nat /\ num * h \in Nat /\ num * h + h <= p * h
    <2>1. num \in 0..(pow2[len - base.len] - 1)
      BY <1>2
    <2> HIDE DEF len
    <2>2. /\ Part(base, len, num) \in Network /\ Part(base, len, num).len = len
          /\ First(Part(base, len, num)) = a + num * h
      BY <1>2, <2>1, PartIs
    <2>3. part(num) = (a + num * h)..(a + num * h + h - 1)
      BY <2>2, NumbersAre
    <2> HIDE DEF h, p
    <2>4. num \in Nat /\ num + 1 <= p
      BY <1>3
    <2>5. (num + 1) * h <= p * h /\ (num + 1) * h = num * h + h /\ num * h \in Nat
      BY <1>3, <2>4
    <2>6. QED
      BY <2>3, <2>4, <2>5
  <1>5. Numbers(base) = a..(a + p * h - 1) /\ p * h \in Nat
    BY <1>3, NumbersAre
  <1> HIDE DEF a, h, p, part, len
  <1>6. ASSUME NEW num \in all PROVE part(num) \subseteq Numbers(base)
    <2> DEFINE b == a + num * h  c == num * h + h  d == p * h
    <2>2. b \in Nat /\ d \in Nat /\ c \in Nat /\ c <= d /\ b = a + num * h
      BY <1>1, <1>3, <1>4, <1>5
    <2>3. part(num) = b..(b + h - 1) /\ Numbers(base) = a..(a + d - 1) /\ a <= b /\ b + h <= a + d
      BY <1>1, <1>3, <1>4, <1>5
    <2> HIDE DEF b, c, d
    <2>4. QED
      BY <1>1, <1>3, <2>2, <2>3
  <1>7. ASSUME NEW i \in all, NEW j \in all, i < j PROVE part(i) \cap part(j) = {}
    <2>1. i * h + h <= j * h
      <3>1. i \in Nat /\ j \in Nat /\ i + 1 <= j
        BY <1>4, <1>7
      <3>2. (i + 1) * h <= j * h /\ (i + 1) * h = i * h + h
        BY <1>3, <3>1
      <3>3. QED
        BY <3>2
    <2> DEFINE b == a + i * h  c == a + j * h
    <2>2. b \in Nat /\ c \in Nat /\ b + h <= c
      BY <1>1, <1>3, <1>4, <2>1
    <2>3. part(i) = b..(b + h - 1) /\ part(j) = c..(c + h - 1)
      BY <1>4
    <2> HIDE DEF b, c
    <2>4. QED
      BY <1>3, <2>2, <2>3
  <1>8. ASSUME NEW x \in Numbers(base) PROVE \E num \in all : x \in part(num)
    <2> DEFINE d == p * h  y == x - a  q == y \div h  r == y % h
    <2>1. y \in Nat /\ y < d /\ x = a + y /\ d \in Nat
      <3>1. Numbers(base) = a..(a + d - 1) /\ d \in Nat
        BY <1>5
      <3> HIDE DEF d
      <3>2. QED
        BY <1>1, <3>1
    <2> HIDE DEF y
    <2>2. y = h * q + r /\ q \in Nat /\ r \in 0..(h - 1)
      BY <1>3, <2>1, Division
    <2> HIDE DEF q, r
    <2>3. q < p
      <3>1. SUFFICES ASSUME p <= q PROVE FALSE
        BY <1>3, <2>2
      <3>2. h * p <= h * q /\ h * p = p * h /\ h * q \in Nat
        BY <1>3, <2>2, <3>1
      <3>3. QED
        BY <1>3, <2>1, <2>2, <3>2
    <2>4. q \in all
      BY <1>3, <2>2, <2>3
    <2>5. part(q) = (a + q * h)..(a + q * h + h - 1) /\ q * h = h * q /\ q * h \in Nat
      BY <1>3, <1>4, <2>2, <2>4
    <2> DEFINE b == a + q * h
    <2>6. part(q) = b..(b + h - 1) /\ b \in Nat /\ x = b + r
      BY <1>1, <2>1, <2>2, <2>5
    <2> HIDE DEF b
    <2>7. x \in part(q)
      BY <1>3, <2>2, <2>6
    <2>8. QED
      BY <2>4, <2>7
  <1>9. \A i, j \in all : i # j => part(i) \cap part(j) = {}
    <2> SUFFICES ASSUME NEW i \in all, NEW j \in all, i # j PROVE part(i) \cap part(j) = {}
      OBVIOUS
    <2>1. i < j \/ j < i
      BY <1>4
    <2>2. QED
      BY <1>7, <2>1
  <1>10. QED
    BY <1>6, <1>8, <1>9 DEF part, len, p

\* Subnet divides a network exactly, up to the width of uint64.
THEOREM SubnetsArePartition == Spec => []SubnetsPartition
  <1>1. ASSUME TypeOK PROVE SubnetsPartition
    <2>1. network \in Network
      BY <1>1 DEF TypeOK
    <2> SUFFICES ASSUME NEW newBits \in 0..(Width - network.len)
                 PROVE  LET subs == [num \in IntArg |-> Subnet(network, newBits, num)]
                            valid == {num \in IntArg : 0 <= num /\ num < pow2[newBits]}
                            parts == UNION {subs[num] : num \in valid}
                        IN /\ \A num \in valid : Cardinality(subs[num]) = 1
                           /\ parts \subseteq Network
                           /\ UNION {Numbers(s) : s \in parts} \subseteq Numbers(network)
                           /\ \A i, j \in valid : i # j =>
                                \A s \in subs[i], t \in subs[j] : Numbers(s) \cap Numbers(t) = {}
                           /\ newBits < WordBits =>
                                /\ \A num \in IntArg \ valid : subs[num] = {}
                                /\ Numbers(network) \subseteq UNION {Numbers(s) : s \in parts}
      BY DEF SubnetsPartition
    <2> DEFINE subs == [num \in IntArg |-> Subnet(network, newBits, num)]
               valid == {num \in IntArg : 0 <= num /\ num < pow2[newBits]}
               parts == UNION {subs[num] : num \in valid}
               all == 0..(pow2[newBits] - 1)
               P(num) == Part(network, network.len + newBits, num)
    <2>2. newBits \in Nat /\ pow2[newBits] \in Nat \ {0} /\ IntArg \subseteq Int
      <3>1. network.len \in 0..Width /\ Width \in Nat
        BY <2>1, NetworkIs, Sizes
      <3>2. newBits \in Nat
        BY <3>1
      <3>3. QED
        BY <3>2, Pow2Step, Sizes DEF IntArg
    <2>3. /\ \A num \in all : Numbers(P(num)) \subseteq Numbers(network)
          /\ \A i, j \in all : i # j => Numbers(P(i)) \cap Numbers(P(j)) = {}
          /\ \A x \in Numbers(network) : \E num \in all : x \in Numbers(P(num))
      BY <2>1, PartsPartition
    <2>4. \A num \in IntArg :
            /\ num \in valid => subs[num] = {P(num)}
            /\ newBits < WordBits =>
                 /\ pow2[newBits] <= pow2[WordBits - 1]
                 /\ num \notin valid => subs[num] = {}
            /\ subs[num] \subseteq Network
      BY <2>1, SubnetIs
    <2>5. \A num \in valid : num \in IntArg /\ num \in all
      BY <2>2
    <2>6. newBits < WordBits => all \subseteq valid
      <3> SUFFICES ASSUME newBits < WordBits, NEW num \in all PROVE num \in valid
        OBVIOUS
      <3>1. pow2[WordBits - 1] \in Nat \ {0} /\ 0 \in IntArg
        BY Sizes DEF IntArg
      <3>2. pow2[newBits] <= pow2[WordBits - 1]
        BY <2>4, <3>1
      <3>3. num \in IntArg
        BY <2>2, <3>1, <3>2 DEF IntArg
      <3>4. QED
        BY <2>2, <3>3
    <2> HIDE DEF subs, valid, all, P
    <2>7. \A num \in valid : Cardinality(subs[num]) = 1
      <3> SUFFICES ASSUME NEW num \in valid PROVE Cardinality(subs[num]) = 1
        OBVIOUS
      <3>1. subs[num] = {P(num)}
        BY <2>4, <2>5
      <3>2. QED
        BY <3>1, FS_Singleton
    <2>8. parts \subseteq Network
      BY <2>4, <2>5
    <2>9. UNION {Numbers(s) : s \in parts} \subseteq Numbers(network)
      <3> SUFFICES ASSUME NEW s \in parts PROVE Numbers(s) \subseteq Numbers(network)
        OBVIOUS
      <3>1. PICK num \in valid : s \in subs[num]
        OBVIOUS
      <3>2. s = P(num)
        BY <2>4, <2>5, <3>1
      <3>3. QED
        BY <2>3, <2>5, <3>2
    <2>10. \A i, j \in valid : i # j => \A s \in subs[i], t \in subs[j] : Numbers(s) \cap Numbers(t) = {}
      BY <2>3, <2>4, <2>5
    <2>11. ASSUME newBits < WordBits
           PROVE  /\ \A num \in IntArg \ valid : subs[num] = {}
                  /\ Numbers(network) \subseteq UNION {Numbers(s) : s \in parts}
      <3>1. \A num \in IntArg \ valid : subs[num] = {}
        BY <2>4, <2>11
      <3>2. ASSUME NEW x \in Numbers(network) PROVE \E s \in parts : x \in Numbers(s)
        <4>1. PICK num \in all : x \in Numbers(P(num))
          BY <2>3
        <4>2. num \in valid /\ num \in IntArg
          BY <2>5, <2>6, <2>11
        <4>3. P(num) \in parts
          BY <2>4, <4>2
        <4>4. QED
          BY <4>1, <4>3
      <3> HIDE DEF parts
      <3>3. QED
        BY <3>1, <3>2
    <2> HIDE DEF parts
    <2>12. QED
      BY <2>7, <2>8, <2>9, <2>10, <2>11 DEF subs, valid, parts
  <1>2. QED
    BY <1>1, TypeCorrect, PTL

\* Host counts from either end of the network and never leaves it.
THEOREM HostIsCounted == Spec => []HostCounts
  <1>1. ASSUME TypeOK PROVE HostCounts
    <2>1. network \in Network
      BY <1>1 DEF TypeOK
    <2> DEFINE a == First(network)  h == Size(network.len)
    <2>2. Cardinality(Numbers(network)) = h /\ Min(Numbers(network)) = a
          /\ Max(Numbers(network)) = a + h - 1
      BY <2>1, IntervalIs
    <2>3. network.len \in 0..Width /\ Width \in Nat /\ a \in Nat
      BY <2>1, NetworkIs, Sizes
    <2>4. h \in Nat \ {0} /\ h = pow2[Width - network.len]
      BY <2>3, SizeIs DEF Size
    <2>5. ASSUME NEW k \in 0..(h - 1) PROVE ipToInt(insertNumIntoIP(network.ip, k, Width)) = a + k
      <3>1. Width \in network.len..Width /\ k \in 0..(pow2[Width - network.len] - 1)
        BY <2>3, <2>4
      <3>2. Size(Width) = 1
        <4>1. Width - Width = 0
          BY <2>3
        <4>2. QED
          BY <4>1, Pow2Step DEF Size
      <3>3. k * Size(Width) = k
        BY <2>4, <3>2
      <3>4. insertNumIntoIP(network.ip, k, Width) = intToIP(a + k) /\ a + k \in 0..(Space - 1)
        BY <2>1, <3>1, <3>3, InsertIs
      <3>5. QED
        BY <3>4, NumberOfAddress
    <2> HIDE DEF a, h
    <2>6. ASSUME NEW num \in (-h - 1)..h
          PROVE  {ipToInt(ip) : ip \in Host(network, num)} =
                   IF num \in 0..(h - 1) THEN {a + num}
                   ELSE IF num \in -h..-1 THEN {a + h - 1 + 1 + num} ELSE {}
      <3>1. num \in Int
        BY <2>4
      <3>2. Host(network, num) =
              IF (IF num < 0 THEN -num - 1 ELSE num) > h - 1 THEN {}
              ELSE {insertNumIntoIP(network.ip, IF num < 0 THEN h - 1 - (-num - 1) ELSE num, Width)}
        BY <2>4 DEF Host
      <3>3. CASE num \in 0..(h - 1)
        <4>1. Host(network, num) = {insertNumIntoIP(network.ip, num, Width)}
          BY <2>4, <3>1, <3>2, <3>3
        <4>2. ipToInt(insertNumIntoIP(network.ip, num, Width)) = a + num
          BY <2>5, <3>3
        <4>3. QED
          BY <3>3, <4>1, <4>2
      <3>4. CASE num \in -h..-1
        <4> DEFINE k == h + num
        <4>1. k \in 0..(h - 1) /\ h - 1 - (-num - 1) = k /\ num < 0 /\ ~(-num - 1 > h - 1)
              /\ num \notin 0..(h - 1) /\ a + h - 1 + 1 + num = a + k
          BY <2>3, <2>4, <3>1, <3>4
        <4> HIDE DEF k
        <4>2. Host(network, num) = {insertNumIntoIP(network.ip, k, Width)}
          BY <3>2, <4>1
        <4>3. ipToInt(insertNumIntoIP(network.ip, k, Width)) = a + k
          BY <2>5, <4>1
        <4>4. QED
          BY <3>4, <4>1, <4>2, <4>3
      <3>5. CASE num \notin 0..(h - 1) /\ num \notin -h..-1
        <4>1. (IF num < 0 THEN -num - 1 ELSE num) > h - 1
          BY <2>4, <3>1, <3>5
        <4>2. Host(network, num) = {}
          BY <3>2, <4>1
        <4>3. QED
          BY <3>5, <4>2
      <3>6. QED
        BY <3>3, <3>4, <3>5
    <2>7. QED
      BY <2>2, <2>6 DEF HostCounts
  <1>2. QED
    BY <1>1, TypeCorrect, PTL
\* The address that hosts reaches after k steps.
Reached(net, k) ==
  IF First(net) + k < Space THEN First(net) + k ELSE First(net) + k - Space

\* at is the walk of hosts, step by step.
IsWalk(at, net) ==
  /\ at \in [0..Space -> Address]
  /\ \A k \in 0..Space : ipToInt(at[k]) = Reached(net, k)
  /\ LET outside == {k \in 0..Space : ~Contains(net, at[k])}
         n == IF outside = {} THEN Space + 1 ELSE Min(outside)
     IN Walk(net) = [k \in 1..n |-> at[k - 1]]

LEMMA WalkExists ==
  ASSUME NEW net \in Network
  PROVE  \E at : IsWalk(at, net)
  <1> DEFINE step == [k \in Nat |-> [ip \in Address |-> Inc(ip)]]
             Def(f) == f = [k \in 0..Space |-> IF k = 0 THEN net.ip ELSE Inc(f[k - 1])]
             at == CHOOSE f : Def(f)
  <1>1. Space \in Nat \ {0}
    BY Sizes
  <1>2. \A ip \in Address : Inc(ip) \in Address
    BY IncIs
  <1>3. net.ip \in Address /\ First(net) \in 0..(Space - 1)
    BY NetworkIs
  <1>4. step \in [Nat -> [Address -> Address]] /\ \A k \in Nat, ip \in Address : step[k][ip] = Inc(ip)
    BY <1>2
  <1> HIDE DEF step
  <1>5. PICK f : Recursive(f, 0..Space, Address, net.ip, step)
    BY <1>1, <1>3, <1>4, BoundedRecursion
  <1>6. /\ f \in [0..Space -> Address] /\ f[0] = net.ip
        /\ \A k \in (0..Space) \ {0} : f[k] = step[k][f[k - 1]]
    BY <1>5 DEF Recursive
  <1>7. Def(f)
    <2>1. \A k \in (0..Space) \ {0} : k \in Nat /\ k - 1 \in 0..Space
      BY <1>1
    <2>2. \A k \in (0..Space) \ {0} : f[k] = Inc(f[k - 1])
      BY <1>4, <1>6, <2>1
    <2>3. QED
      BY <1>6, <2>2
  <1>8. Def(at)
    <2> HIDE DEF Def
    <2>1. QED
      BY <1>7
  <1>9. LET outside == {k \in 0..Space : ~Contains(net, at[k])}
            n == IF outside = {} THEN Space + 1 ELSE Min(outside)
        IN Walk(net) = [k \in 1..n |-> at[k - 1]]
    BY DEF Walk
  <1> HIDE DEF at
  <1>10. at[0] = net.ip /\ \A k \in (0..Space) \ {0} : at[k] = Inc(at[k - 1])
    BY <1>1, <1>8
  <1> DEFINE T == {k \in Nat : k <= Space => at[k] \in Address /\ ipToInt(at[k]) = Reached(net, k)}
  <1>11. 0 \in T
    <2>1. Reached(net, 0) = First(net)
      BY <1>1, <1>3 DEF Reached
    <2>2. QED
      BY <1>3, <1>10, <2>1 DEF First
  <1>12. ASSUME NEW k \in Nat, k \in T PROVE k + 1 \in T
    <2>1. SUFFICES ASSUME k + 1 <= Space
                   PROVE  at[k + 1] \in Address /\ ipToInt(at[k + 1]) = Reached(net, k + 1)
      OBVIOUS
    <2>2. k + 1 \in (0..Space) \ {0} /\ (k + 1) - 1 = k /\ k <= Space
      BY <1>1, <2>1
    <2>3. at[k + 1] = Inc(at[k])
      BY <1>10, <2>2
    <2>4. at[k] \in Address /\ ipToInt(at[k]) = Reached(net, k)
      BY <1>12, <2>2
    <2>5. Inc(at[k]) \in Address /\ ipToInt(Inc(at[k])) = Up(Reached(net, k))
      BY <2>4, IncIs
    <2>6. Up(Reached(net, k)) = Reached(net, k + 1)
      BY <1>1, <1>3, <2>2 DEF Up, Reached
    <2>7. QED
      BY <2>3, <2>5, <2>6
  <1> HIDE DEF T
  <1>13. Nat \subseteq T
    BY <1>11, <1>12, Induction
  <1>14. \A k \in 0..Space : at[k] \in Address /\ ipToInt(at[k]) = Reached(net, k)
    BY <1>1, <1>13 DEF T
  <1>15. at = [k \in 0..Space |-> at[k]]
    BY <1>8
  <1>16. at \in [0..Space -> Address]
    BY <1>14, <1>15
  <1>17. IsWalk(at, net)
    BY <1>9, <1>14, <1>16 DEF IsWalk
  <1>18. QED
    BY <1>17

\* The walk through the whole address space never leaves it, every other walk
\* visits the addresses of its network once.
LEMMA WalkIs ==
  ASSUME NEW net \in Network
  PROVE  LET h == Size(net.len) IN
         /\ net.len = 0 => ~HostsEnd(net)
         /\ net.len > 0 => /\ Walk(net) \in [1..h -> Address]
                           /\ \A k \in 1..h : ipToInt(Walk(net)[k]) = First(net) + k - 1
                           /\ HostsEnd(net) /\ Len(Walk(net)) = h
  <1> DEFINE a == First(net)  h == Size(net.len)
  <1>1. /\ net.len \in 0..Width /\ Width \in Nat /\ a \in 0..(Space - 1) /\ a + h <= Space
        /\ Space \in Nat \ {0}
    BY NetworkIs, Sizes
  <1>2. h \in Nat \ {0} /\ h <= Space /\ (net.len > 0 => 2 * h <= Space)
    BY <1>1, SizeIs
  <1>3. PICK at : IsWalk(at, net)
    BY WalkExists
  <1> DEFINE outside == {k \in 0..Space : ~Contains(net, at[k])}
             n == IF outside = {} THEN Space + 1 ELSE Min(outside)
  <1>4. Walk(net) = [k \in 1..n |-> at[k - 1]]
    BY <1>3 DEF IsWalk
  <1>5. \A k \in 0..Space : at[k] \in Address /\ ipToInt(at[k]) = Reached(net, k)
    BY <1>3 DEF IsWalk
  <1>6. ASSUME NEW k \in 0..Space
        PROVE  Contains(net, at[k]) <=> a <= Reached(net, k) /\ Reached(net, k) < a + h
    <2>1. at[k] \in Address /\ ipToInt(at[k]) = Reached(net, k)
      BY <1>5
    <2>2. ipToInt(at[k]) \in 0..(Space - 1)
      BY <2>1, Digits
    <2>3. Contains(net, at[k]) <=> ipToInt(at[k]) \in Numbers(net)
      BY <2>1, ContainsIs
    <2>4. QED
      BY <2>1, <2>2, <2>3, NumbersAre
  <1>7. \A k \in 0..Space : Reached(net, k) = IF a + k < Space THEN a + k ELSE a + k - Space
    BY DEF Reached
  <1> HIDE DEF a, h
  <1>8. ASSUME net.len = 0 PROVE ~HostsEnd(net)
    <2>1. h = Space
      <3>1. Width - 0 = Width
        BY <1>1
      <3>2. QED
        BY <1>8, <3>1 DEF h, Size, Space
    <2>2. a = 0
      BY <1>1, <2>1
    <2>3. \A k \in 0..Space : a <= Reached(net, k) /\ Reached(net, k) < a + h
      BY <1>1, <1>7, <2>1, <2>2
    <2>4. outside = {}
      BY <1>6, <2>3
    <2>5. Walk(net) = [k \in 1..(Space + 1) |-> at[k - 1]]
      BY <1>4, <2>4
    <2>6. \A k \in 1..(Space + 1) : k - 1 \in 0..Space
      BY <1>1
    <2>7. Walk(net) \in [1..(Space + 1) -> Address]
      BY <1>5, <2>5, <2>6
    <2>8. Space + 1 \in Nat /\ Space + 1 > Space
      BY <1>1
    <2>9. Len(Walk(net)) = Space + 1
      BY <2>7, <2>8
    <2>10. QED
      BY <1>1, <2>9 DEF HostsEnd
  <1>9. ASSUME net.len > 0
        PROVE  /\ Walk(net) \in [1..h -> Address]
               /\ \A k \in 1..h : ipToInt(Walk(net)[k]) = a + k - 1
               /\ HostsEnd(net) /\ Len(Walk(net)) = h
    <2>1. 2 * h <= Space /\ h \in 0..Space
      BY <1>1, <1>2, <1>9
    <2>2. \A k \in 0..(h - 1) : k \in 0..Space /\ Reached(net, k) = a + k /\ a + k < a + h /\ a <= a + k
      BY <1>1, <1>2, <1>7
    <2>3. \A k \in 0..(h - 1) : Contains(net, at[k])
      BY <1>6, <2>2
    <2>4. ~(a <= Reached(net, h) /\ Reached(net, h) < a + h)
      BY <1>1, <1>2, <1>7, <2>1
    <2>5. ~Contains(net, at[h])
      BY <1>6, <2>1, <2>4
    <2>6. h \in outside /\ \A k \in outside : k \in 0..Space /\ k \notin 0..(h - 1)
      BY <2>1, <2>3, <2>5
    <2>7. \A k \in outside : k \in Int /\ h <= k
      BY <1>2, <2>6
    <2>8. Min(outside) = h
      <3>1. h \in outside /\ \A y \in outside : h <= y
        BY <2>6, <2>7
      <3>2. \A x \in outside : (\A y \in outside : x <= y) => x = h
        BY <1>2, <2>6, <2>7
      <3> HIDE DEF outside
      <3>3. QED
        BY <3>1, <3>2 DEF Min
    <2>9. outside # {}
      BY <2>6
    <2>10. Walk(net) = [k \in 1..h |-> at[k - 1]]
      BY <1>4, <2>8, <2>9
    <2>11. \A k \in 1..h : k - 1 \in 0..(h - 1) /\ k - 1 \in 0..Space /\ a + (k - 1) = a + k - 1
      BY <1>1, <1>2
    <2>12. Walk(net) \in [1..h -> Address]
      BY <1>5, <2>10, <2>11
    <2>13. \A k \in 1..h : ipToInt(Walk(net)[k]) = a + k - 1
      BY <1>5, <2>2, <2>10, <2>11
    <2>14. Len(Walk(net)) = h
      BY <1>2, <2>12
    <2>15. QED
      BY <1>2, <2>12, <2>13, <2>14 DEF HostsEnd
  <1>10. QED
    BY <1>8, <1>9 DEF a, h

\* AllIps lists what is between the ends of a network, and does not end for the
\* whole address space.
THEOREM HostsOfNetwork == Spec => []HostsAreInner
  <1>1. ASSUME TypeOK PROVE HostsAreInner
    <2>1. network \in Network
      BY <1>1 DEF TypeOK
    <2> DEFINE a == First(network)  h == Size(network.len)  W == Walk(network)
               all == Numbers(network)  ips == hosts(network)
               inner == IF h = 1 THEN all ELSE IF h = 2 THEN {a + h - 1} ELSE all \ {a, a + h - 1}
    <2>2. Cardinality(all) = h /\ Min(all) = a /\ Max(all) = a + h - 1
      BY <2>1, IntervalIs
    <2>3. network.len \in 0..Width /\ Width \in Nat /\ a \in Nat
      BY <2>1, NetworkIs, Sizes
    <2>4. h \in Nat \ {0} /\ all = a..(a + h - 1)
      BY <2>1, <2>3, SizeIs, NumbersAre
    <2>5. /\ network.len = 0 => ~HostsEnd(network)
          /\ network.len > 0 => /\ W \in [1..h -> Address]
                                /\ \A k \in 1..h : ipToInt(W[k]) = a + k - 1
                                /\ HostsEnd(network) /\ Len(W) = h
      BY <2>1, WalkIs
    <2>6. HostsEnd(network) <=> network.len > 0
      BY <2>3, <2>5
    <2>7. ips = IF Len(W) = 1 THEN W ELSE IF Len(W) = 2 THEN <<W[2]>> ELSE SubSeq(W, 2, Len(W) - 1)
      BY DEF hosts
    <2> HIDE DEF a, h, W, all, ips
    <2>8. ASSUME network.len > 0
          PROVE  /\ {ipToInt(ips[k]) : k \in DOMAIN ips} = inner
                 /\ \A k \in 1..(Len(ips) - 1) : ipToInt(ips[k]) < ipToInt(ips[k + 1])
      <3>1. W \in [1..h -> Address] /\ (\A k \in 1..h : ipToInt(W[k]) = a + k - 1) /\ Len(W) = h
        BY <2>5, <2>8
      <3>2. CASE h = 1
        <4>1. ips = W /\ Len(ips) = 1 /\ DOMAIN ips = {1}
          BY <2>7, <3>1, <3>2
        <4>2. ipToInt(ips[1]) = a /\ all = {a}
          BY <2>3, <2>4, <3>1, <3>2, <4>1
        <4>3. QED
          BY <3>2, <4>1, <4>2
      <3>3. CASE h = 2
        <4>1. ips = <<W[2]>>
          BY <2>7, <3>1, <3>3
        <4>2. Len(ips) = 1 /\ DOMAIN ips = {1} /\ ips[1] = W[2]
          BY <4>1
        <4>3. ipToInt(ips[1]) = a + h - 1
          BY <2>3, <3>1, <3>3, <4>2
        <4>4. QED
          BY <3>3, <4>2, <4>3
      <3>4. CASE h > 2
        <4>1. ips = SubSeq(W, 2, h - 1) /\ h - 2 \in Nat
          BY <2>4, <2>7, <3>1, <3>4
        <4>2. ips = [k \in 1..(h - 2) |-> W[k + 1]]
          <5>1. (h - 1) - 2 + 1 = h - 2 /\ \A k \in 1..(h - 2) : k + 2 - 1 = k + 1
            BY <2>4
          <5>2. SubSeq(W, 2, h - 1) = [k \in 1..((h - 1) - 2 + 1) |-> W[k + 2 - 1]]
            BY <2>4, <3>1, <3>4
          <5>3. QED
            BY <4>1, <5>1, <5>2
        <4>3. \A k \in 1..(h - 2) : k + 1 \in 1..h /\ ipToInt(W[k + 1]) = a + k
          BY <2>3, <2>4, <3>1
        <4>4. /\ DOMAIN ips = 1..(h - 2) /\ Len(ips) = h - 2
              /\ \A k \in 1..(h - 2) : ipToInt(ips[k]) = a + k
          <5>1. DOMAIN ips = 1..(h - 2)
            BY <4>2
          <5>2. \A k \in 1..(h - 2) : W[k + 1] \in Address
            BY <3>1, <4>3
          <5>3. ips \in [1..(h - 2) -> Address]
            BY <4>2, <5>2
          <5>4. Len(ips) = h - 2
            <6>1. h - 2 \in Nat
              BY <4>1
            <6>2. QED
              BY <5>3, <6>1
          <5>5. \A k \in 1..(h - 2) : ips[k] = W[k + 1]
            BY <4>2
          <5>6. QED
            BY <4>3, <5>1, <5>4, <5>5
        <4>5. {ipToInt(ips[k]) : k \in DOMAIN ips} = {a + k : k \in 1..(h - 2)}
          BY <4>4
        <4>6. {a + k : k \in 1..(h - 2)} = all \ {a, a + h - 1}
          <5>1. \A k \in 1..(h - 2) : a + k \in all \ {a, a + h - 1}
            BY <2>3, <2>4
          <5>2. ASSUME NEW x \in all \ {a, a + h - 1} PROVE x \in {a + k : k \in 1..(h - 2)}
            <6>1. x - a \in 1..(h - 2) /\ x = a + (x - a)
              BY <2>3, <2>4
            <6>2. QED
              BY <6>1
          <5>3. QED
            BY <5>1, <5>2
        <4>7. \A k \in 1..(Len(ips) - 1) : ipToInt(ips[k]) < ipToInt(ips[k + 1])
          <5>1. \A k \in 1..((h - 2) - 1) : k \in 1..(h - 2) /\ k + 1 \in 1..(h - 2) /\ a + k < a + (k + 1)
            BY <2>3, <2>4
          <5>2. QED
            BY <4>4, <5>1
        <4>8. inner = all \ {a, a + h - 1}
          BY <2>4, <3>4
        <4> HIDE DEF inner
        <4>9. QED
          BY <4>5, <4>6, <4>7, <4>8
      <3>5. h = 1 \/ h = 2 \/ h > 2
        BY <2>4
      <3> HIDE DEF inner
      <3>6. QED
        BY <3>2, <3>3, <3>4, <3>5
    <2>9. QED
      BY <2>2, <2>6, <2>8 DEF HostsAreInner, a, h, all, ips
  <1>2. QED
    BY <1>1, TypeCorrect, PTL
=============================================================================
