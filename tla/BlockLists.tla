----------------------------- MODULE BlockLists -----------------------------
(***************************************************************************)
(* net.BlockList of the engine (builtins/js/net.js).  Addresses are scaled *)
(* numbers: an ipv4 address is one byte, an ipv6 address three, and the    *)
(* ipv6 addresses whose first bytes are <<0, 1>> carry an ipv4 address.    *)
(***************************************************************************)
EXTENDS Naturals, Sequences, SequencesExt

CONSTANTS ByteBits,      \* bits of a byte
          MaxRules       \* calls that add rules

VARIABLES rules,         \* this._rules
          asked,         \* the calls that were accepted, as sets of addresses
          restored       \* whether the list was read back from its JSON

blockVars == <<rules, asked, restored>>

Byte == 0..2^ByteBits - 1
Bytes(type) == [1..(IF type = "ipv4" THEN 1 ELSE 3) -> Byte]
AddressBits(type) == ByteBits * (IF type = "ipv4" THEN 1 ELSE 3)
(* Written with dots, the end of an ipv6 address gives an ipv4 address.    *)
Dotted(type) == IF type = "ipv6" THEN BOOLEAN ELSE {FALSE}

(* _ipv6Compare, and the comparison of numbers for ipv4.                   *)
Below(a, b) == \E i \in DOMAIN a : a[i] < b[i] /\ \A j \in 1..i - 1 : a[j] = b[j]
NoGreater(a, b) == a = b \/ Below(a, b)

-----------------------------------------------------------------------------
\* Mutant: the byte that a prefix cuts keeps one bit fewer.
CutShort(byte, keep) == byte - (byte % 2^(ByteBits - keep + 1))

(* addSubnet masks byte by byte: whole bytes of the prefix stay, the bytes *)
(* beyond it are free, and the one it cuts keeps its first bits.           *)
Cut(byte, keep) == byte - (byte % 2^(ByteBits - keep))
SubnetByte(bytes, prefix, i, fill) ==
  LET start == ByteBits * (i - 1)
      keep == prefix - start
  IN CASE start + ByteBits <= prefix -> bytes[i]
       [] start >= prefix -> fill
       [] OTHER -> Cut(bytes[i], keep) + (fill % 2^(ByteBits - keep))

SubnetBounds(bytes, prefix) ==
  << [i \in DOMAIN bytes |-> SubnetByte(bytes, prefix, i, 0)],
     [i \in DOMAIN bytes |-> SubnetByte(bytes, prefix, i, 2^ByteBits - 1)] >>

AddressRule(type, bytes, dots) ==
  [kind |-> "address", type |-> type, start |-> bytes, end |-> bytes,
   mapped |-> IF dots THEN <<bytes[3]>> ELSE <<>>]
RangeRule(type, from, to) ==
  [kind |-> "range", type |-> type, start |-> from, end |-> to, mapped |-> <<>>]
SubnetRule(type, bytes, prefix) ==
  LET b == SubnetBounds(bytes, prefix)
  IN [kind |-> "subnet", type |-> type, start |-> b[1], end |-> b[2], mapped |-> <<prefix>>]

(* What a rule is for, as a set.                                           *)
Value(bytes) == FoldLeft(LAMBDA n, x : n * 2^ByteBits + x, 0, bytes)
Share(type, bytes, prefix) ==
  {a \in Bytes(type) : Value(a) \div 2^(AddressBits(type) - prefix) = Value(bytes) \div 2^(AddressBits(type) - prefix)}

Add(rule, set, dots) ==
  /\ rules' = Append(rules, rule)
  /\ asked' = asked \cup {[type |-> rule.type, set |-> set, dots |-> dots]}
  /\ UNCHANGED restored

AddAddress ==
  \E type \in {"ipv4", "ipv6"} : \E bytes \in Bytes(type), dots \in Dotted(type) :
    Add(AddressRule(type, bytes, dots), {bytes}, dots)

(* A range that ends before it starts is refused.                          *)
AddRange ==
  \E type \in {"ipv4", "ipv6"} : \E from, to \in Bytes(type) :
    /\ NoGreater(from, to)
    /\ Add(RangeRule(type, from, to),
           {a \in Bytes(type) : Value(from) <= Value(a) /\ Value(a) <= Value(to)}, FALSE)

AddSubnet ==
  \E type \in {"ipv4", "ipv6"} : \E bytes \in Bytes(type), prefix \in 0..AddressBits(type) :
    Add(SubnetRule(type, bytes, prefix), Share(type, bytes, prefix), FALSE)

(* A label is what was written, newest first in `rules`; toJSON turns the  *)
(* list round, and fromJSON calls add... for each label.                   *)
Label(rule) == CASE rule.kind = "address" -> <<"Address", rule.type, rule.start, rule.mapped # <<>> >>
                 [] rule.kind = "range" -> <<"Range", rule.type, rule.start, rule.end>>
                 [] rule.kind = "subnet" -> <<"Subnet", rule.type, rule.start, rule.mapped[1]>>
Labels == Reverse([i \in DOMAIN rules |-> Label(rules[i])])
ToJSON == Reverse(Labels)
FromLabel(l) == CASE l[1] = "Address" -> AddressRule(l[2], l[3], l[4])
                  [] l[1] = "Range" -> RangeRule(l[2], l[3], l[4])
                  [] l[1] = "Subnet" -> SubnetRule(l[2], l[3], l[4])
FromJSON ==
  /\ rules # <<>> /\ ~restored /\ restored' = TRUE
  /\ LET json == ToJSON IN rules' = [i \in DOMAIN json |-> FromLabel(json[i])]
  /\ UNCHANGED asked

(* check: an ipv6 address that carries an ipv4 one meets the ipv4 rules;   *)
(* an ipv4 address meets, of the ipv6 rules, the addresses with dots.      *)
Carries(bytes) == bytes[1] = 0 /\ bytes[2] = 1
Within(rule, a) == NoGreater(rule.start, a) /\ NoGreater(a, rule.end)
Check(type, a) ==
  \E i \in DOMAIN rules :
    LET r == rules[i]
    IN \/ r.type = type /\ Within(r, a)
       \/ r.type = "ipv4" /\ type = "ipv6" /\ Carries(a) /\ Within(r, <<a[3]>>)
       \/ r.type = "ipv6" /\ type = "ipv4" /\ r.kind = "address" /\ r.mapped = a

-----------------------------------------------------------------------------
BlockInit == rules = <<>> /\ asked = {} /\ restored = FALSE
BlockNext == \/ Len(rules) < MaxRules /\ ~restored /\ (AddAddress \/ AddRange \/ AddSubnet)
             \/ FromJSON
BlockSpec == BlockInit /\ [][BlockNext]_blockVars

(* check blocks an address just when a call asked for it, by the numeric   *)
(* meaning of ranges and prefixes, also after a round trip through JSON:   *)
(* directly, as an ipv4 address carried by an ipv6 one, or by an ipv6      *)
(* address that was written with dots.                                     *)
Wanted(type, a) ==
  \E r \in asked : \/ r.type = type /\ a \in r.set
                   \/ r.type = "ipv4" /\ type = "ipv6" /\ Carries(a) /\ <<a[3]>> \in r.set
                   \/ r.dots /\ type = "ipv4" /\ \E b \in r.set : <<b[3]>> = a
BlocksWhatWasAsked ==
  \A type \in {"ipv4", "ipv6"} : \A a \in Bytes(type) : Check(type, a) <=> Wanted(type, a)
=============================================================================
