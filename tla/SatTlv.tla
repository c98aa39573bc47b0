------------------------------- MODULE SatTlv -------------------------------
(***************************************************************************)
(* The objects that a proactive command of the card is made of: tag,       *)
(* length, value.  One operator per decoder of src/co_sat.c (190-2452):    *)
(* what it makes of the object at an offset of a message, how many bytes   *)
(* it says it consumed, and the result that the command ends with if it    *)
(* cannot read it.                                                         *)
(*                                                                         *)
(* A message is [bytes, beyond]: decoders that do not look at the end of   *)
(* the message read what lies behind it, here one byte over and over.      *)
(* Bounds of arrays that one length byte can exceed are kept as they are.  *)
(***************************************************************************)
EXTENDS Naturals, Sequences, FiniteSets, SequencesExt, Codings

Success == "SUCCESS"
NotUnderstood == "COMMAND_NOT_UNDERSTOOD"
ValueMissing == "REQUIRED_VALUE_MISSING"
BeyondMe == "BEYOND_ME_CAPABILITY"
Fatal == "ERROR_FATAL"

PointerSize == 8

\* Offsets count from 0.
B(m, i) == IF i < Len(m.bytes) THEN m.bytes[i + 1] ELSE m.beyond
Size(m) == Len(m.bytes)
Bytes(m, from, n) == [i \in 1..n |-> B(m, from + i - 1)]
Tag(m, at) == B(m, at) % 128
Required(m, at) == B(m, at) >= 128

\* Mutant: lengths of two bytes are not known.
LengthSizeShort(b) == IF b < 128 THEN 1 ELSE 0
LengthSize(b) == IF b < 128 THEN 1 ELSE IF b = 129 THEN 2 ELSE 0

UpTo(s, b) ==
  LET i == SelectInSeq(s, LAMBDA x : x = b)
  IN IF i = 0 THEN s ELSE SubSeq(s, 1, i - 1)

AtMost(s, n) == IF Len(s) > n THEN SubSeq(s, 1, n) ELSE s

-----------------------------------------------------------------------------
(* What decoders have in common *)

Failed(rv) == [rv |-> rv, used |-> 0, has |-> FALSE]
Read(used, v) == [rv |-> Success, used |-> used, has |-> TRUE, value |-> v]
Nothing(used) == [rv |-> Success, used |-> used, has |-> FALSE]

\* An object of any length: Of(n, from) reads the n bytes of its value.
Object(m, at, tag, absent, Of(_, _)) ==
  LET ll == LengthSize(B(m, at + 1))
  IN IF Size(m) <= at + 1 THEN Failed(NotUnderstood)
     ELSE IF Tag(m, at) # tag THEN Failed(absent)
     ELSE IF ll = 0 THEN Failed(NotUnderstood)
     ELSE Of(B(m, at + ll), at + 1 + ll)

\* The same where the decoder sees to it that the value is within the message.
\* Mutant: the value may reach one byte behind the message.
WithinByOne(m, from, n) == from + n <= Size(m) + 1
Within(m, from, n) == from + n <= Size(m)
Bounded(m, at, tag, absent, Of(_, _)) ==
  Object(m, at, tag, absent,
         LAMBDA n, from : IF Within(m, from, n) THEN Of(n, from) ELSE Failed(NotUnderstood))

\* An object of a given length, in a message that has need bytes from it on.
Fixed(m, at, tag, len, need, v) ==
  IF Size(m) < at + need \/ Tag(m, at) # tag \/ B(m, at + 1) # len
  THEN Failed(NotUnderstood)
  ELSE Read(2 + len, v)

-----------------------------------------------------------------------------
(* Texts and numbers *)

Format(dcs) ==
  LET set == (dcs % 16) \div 4
  IN IF set = 1 THEN "8bit" ELSE IF set = 2 THEN "ucs2" ELSE "sms"

MessageClass(dcs) == IF (dcs \div 16) % 2 = 1 THEN {dcs % 4} ELSE {}
Compressed(dcs) == (dcs \div 32) % 2 = 1

\* Unpacked texts are C strings: they end before the first character 0.
StringData(format, s) ==
  AtMost(IF format = "sms" THEN UpTo(UnpackGsm7(s), 0) ELSE s, 500)

TextOf(dcs, s) ==
  [format |-> IF Format(dcs) = "sms" THEN "8bit" ELSE Format(dcs),
   class |-> MessageClass(dcs), compressed |-> Compressed(dcs),
   text |-> StringData(Format(dcs), s)]

NoText == [format |-> "unset", class |-> {}, compressed |-> FALSE, text |-> <<>>]

\* The text of a command, which may reach behind the message.
Text(m, at) ==
  Object(m, at, 13, NotUnderstood, LAMBDA n, from :
    Read(from + n - at,
         IF n <= 1 THEN NoText ELSE TextOf(B(m, from), Bytes(m, from + 1, n - 1))))

\* The format of an empty one is left as it was in the memory of the caller.
Alpha(m, at) ==
  Bounded(m, at, 5, NotUnderstood, LAMBDA n, from :
    Read(from + n - at,
         [format |-> IF n = 0 THEN "unset" ELSE IF B(m, from) \in 128..130 THEN "ucs2" ELSE "8bit",
          text |-> AtMost(Bytes(m, from, n), 254)]))

TonNpi(b) ==
  LET ton == (b \div 16) % 8
      npi == b % 16
  IN <<IF ton > 3 THEN 0 ELSE ton, IF npi \in {1, 3, 4, 9, 15} THEN npi ELSE 0>>

NumberOf(m, from, n, max) ==
  [plan |-> TonNpi(B(m, from)), number |-> Bcd(Bytes(m, from + 1, n - 1), max)]

Address(m, at) ==
  Bounded(m, at, 6, ValueMissing, LAMBDA n, from :
    LET dialled == IF n > 1 THEN NumberOf(m, from, n, 200)
                   ELSE [plan |-> <<>>, number |-> <<>>]
    IN IF dialled.number = <<>> /\ Required(m, at) THEN Failed(ValueMissing)
       ELSE Read(from + n - at, dialled))

\* Subaddress and capability parameters: 30 bytes, or none if there are more.
UpTo30(m, at, tag) ==
  Bounded(m, at, tag, ValueMissing, LAMBDA n, from :
    IF n = 0 \/ (n > 30 /\ Required(m, at)) THEN Failed(NotUnderstood)
    ELSE Read(from + n - at, IF n > 30 THEN <<>> ELSE Bytes(m, from, n)))

Subaddress(m, at) == UpTo30(m, at, 8)
Ccp(m, at) == UpTo30(m, at, 7)

\* A string that is copied through sizeof of the pointer to it, and the length
\* it is given; there is none if it may get longer than max.
AsPointer(s, max) ==
  IF 2 * Len(s) > max THEN [digits |-> <<>>, length |-> 0]
  ELSE [digits |-> AtMost(Digits(s), PointerSize), length |-> PointerSize]

\* The strings of SS and USSD: the length is taken from behind the length byte,
\* which passes for the one that tells whether the object is required.
Skipping(m, at, tag, Of(_, _)) ==
  IF Size(m) <= at + 1 \/ Tag(m, at) # tag \/ LengthSize(B(m, at + 2)) = 0
  THEN Failed(NotUnderstood)
  ELSE LET ll == LengthSize(B(m, at + 2))
           n == B(m, at + 1 + ll)
       IN IF n <= 1 THEN Failed(ValueMissing)
          ELSE Read(1 + ll + n, Of(n, at + 2 + ll))

SsString(m, at) ==
  Skipping(m, at, 9, LAMBDA n, from :
    [plan |-> TonNpi(B(m, from)), number |-> AsPointer(Bytes(m, from + 1, n - 1), 160)])

UssdString(m, at) ==
  Skipping(m, at, 10, LAMBDA n, from :
    [format |-> Format(B(m, from)), text |-> Bytes(m, from + 1, n - 1)])

Dtmf(m, at) ==
  Bounded(m, at, 44, ValueMissing, LAMBDA n, from :
    IF n \notin 1..15 THEN Failed(NotUnderstood)
    ELSE Read(from + n - at, AsPointer(Bytes(m, from, n), 30)))

SmsTpdu(m, at) ==
  Object(m, at, 11, NotUnderstood, LAMBDA n, from :
    IF n = 0 THEN Failed(ValueMissing)
    ELSE Read(from + n - at, Bytes(m, from, IF n > 175 THEN 175 ELSE n)))

-----------------------------------------------------------------------------
(* Menus, icons, tones *)

Item(m, at) ==
  Bounded(m, at, 15, NotUnderstood, LAMBDA n, from :
    LET text == UpTo(Bytes(m, from + 1, n - 1), 255)
    IN IF n = 0 THEN Read(from - at, [id |-> 0, text |-> <<>>])
       ELSE IF text = <<>> THEN Failed(NotUnderstood)
       ELSE Read(from + n - at, [id |-> B(m, from), text |-> AtMost(text, 45)]))

ItemIdentifier(m, at) == Fixed(m, at, 16, 1, 2, B(m, at + 2))

ResponseLength(m, at) ==
  IF B(m, at + 2) > B(m, at + 3) /\ Fixed(m, at, 17, 2, 2, 0).rv = Success
  THEN Failed(BeyondMe)
  ELSE Fixed(m, at, 17, 2, 2, Bytes(m, at + 2, 2))

\* An object whose length is always one byte.
Short(m, at, tag, need, Of(_, _)) ==
  IF Size(m) < at + need \/ Tag(m, at) # tag THEN Failed(NotUnderstood)
  ELSE Of(B(m, at + 1), at + 2)

NextAction(m, at) ==
  Short(m, at, 24, 2, LAMBDA n, from :
    IF ~Within(m, from, n) \/ n > 50 THEN Failed(NotUnderstood)
    ELSE Read(2 + n, Bytes(m, from, n)))

\* A wrong length is reported as FALSE, which is SUCCESS, with nothing consumed.
Icon(m, at) ==
  Short(m, at, 30, 2, LAMBDA n, from :
    IF n # 2 THEN Nothing(0)
    ELSE IF ~Within(m, from, 2) \/ B(m, from + 1) = 0 THEN Failed(NotUnderstood)
    ELSE Read(4, <<B(m, from) % 2, B(m, from + 1)>>))

IconList(m, at) ==
  Short(m, at, 31, 3, LAMBDA n, from :
    LET cnt == (n + 255) % 256
        ids == Bytes(m, from + 1, IF cnt > 50 THEN 0 ELSE cnt)
    IN IF (cnt > 50 /\ Required(m, at)) \/ Contains(ids, 0) THEN Failed(NotUnderstood)
       ELSE Read(2 + n, [qualifier |-> B(m, from) % 2, ids |-> ids]))

Tones == 1..8 \cup 16..21 \cup 48..52 \cup 64..71

\* A tone that is not known leaves what was in the memory of the caller.
Unset == 256
Tone(m, at) ==
  IF B(m, at + 2) \in Tones \/ Fixed(m, at, 14, 1, 3, 0).rv # Success
  THEN Fixed(m, at, 14, 1, 3, B(m, at + 2))
  ELSE IF Required(m, at) THEN Failed(NotUnderstood) ELSE Read(3, Unset)

\* Units are minutes, seconds, tenths of seconds, or reserved.
Duration(m, at) ==
  Fixed(m, at, 4, 2, 3, <<IF B(m, at + 2) > 2 THEN 255 ELSE B(m, at + 2), B(m, at + 3)>>)

-----------------------------------------------------------------------------
(* Files, events, language *)

\* Files are checked against two lists; those of applications (6Fxx) never get
\* to theirs, as (id & 0x2F00) == 0x2F00 holds of them too.
Refreshable(hi, lo) == hi = 47 /\ lo \in {0, 5, 226}

\* One position of the search for paths: s is [next, count, ids].
Visit(m, s, i, total) ==
  IF s.count = total \/ i < s.next THEN s
  ELSE IF Bytes(m, i, 2) # <<63, 0>> THEN [s EXCEPT !.next = i + 1]
  ELSE CASE B(m, i + 2) = 47 ->
              [next |-> i + 4, count |-> s.count + 1,
               ids |-> IF Refreshable(47, B(m, i + 3)) THEN Append(s.ids, B(m, i + 3)) ELSE s.ids]
         [] Bytes(m, i + 2, 2) \in {<<127, 255>>, <<127, 16>>, <<127, 32>>} ->
              [next |-> i + 6, count |-> s.count + 1, ids |-> s.ids]
         [] OTHER -> [s EXCEPT !.next = i + 3, !.count = @ + 1]

\* The tag is read as the length, and the length as the count of files.
FileList(m, at) ==
  IF Size(m) <= at + 1 \/ Tag(m, at) # 18 \/ Required(m, at)
     \/ ~Within(m, at + 1, 18) \/ B(m, at + 1) = 0
  THEN Failed(NotUnderstood)
  ELSE Read(1 + 1 + 18,
            FoldLeft(LAMBDA s, i : Visit(m, s, i, B(m, at + 1)),
                     [next |-> at + 2, count |-> 0, ids |-> <<>>],
                     [k \in 1..(Size(m) - at - 1) |-> at + 1 + k]).ids)

PdaEvents == {4, 5, 7, 8, 9, 10}
ModemEvents == {0, 1, 2, 3, 11}
Known(e) == e \in PdaEvents \cup ModemEvents

\* The two lists of the decoder are one for its only caller: an event that is not
\* known leaves a hole in it, and is not counted.
Kept(events) ==
  [list |-> [i \in 1..Len(events) |-> IF Known(events[i]) THEN events[i] ELSE 255],
   count |-> Len(SelectSeq(events, Known))]

\* If the object is required, the first event that is not known ends it: the
\* events before it are kept.
EventList(m, at) ==
  Bounded(m, at, 25, NotUnderstood, LAMBDA n, from :
    LET events == Bytes(m, from, IF n > 17 THEN 17 ELSE n)
        i == SelectInSeq(events, LAMBDA e : ~Known(e))
    IN IF n > 17 /\ Required(m, at) THEN Failed(NotUnderstood)
       ELSE IF i > 0 /\ Required(m, at)
       THEN [Read(0, Kept(SubSeq(events, 1, i - 1))) EXCEPT !.rv = BeyondMe]
       ELSE Read(from + Len(events) - at, Kept(events)))

LanguageOf ==
  <<101, 110>> :> "english" @@ <<100, 101>> :> "german" @@ <<105, 116>> :> "italian" @@
  <<102, 114>> :> "french" @@ <<101, 115>> :> "spanish" @@ <<110, 108>> :> "dutch" @@
  <<115, 118>> :> "swedish" @@ <<100, 97>> :> "danish" @@ <<112, 116>> :> "portuguese" @@
  <<102, 105>> :> "finnish" @@ <<110, 111>> :> "norwegian" @@ <<101, 108>> :> "greek" @@
  <<116, 114>> :> "turkish" @@ <<104, 117>> :> "hungarian" @@ <<112, 105>> :> "polish"

\* _sat_decode_language: what is not known is English.
DecodeLanguage(pair) == IF pair \in DOMAIN LanguageOf THEN LanguageOf[pair] ELSE "english"

Language(m, at) ==
  IF ~Within(m, at + 2, 2) THEN Failed(NotUnderstood)
  ELSE Fixed(m, at, 45, 2, 2, DecodeLanguage(Bytes(m, at + 2, 2)))

-----------------------------------------------------------------------------
(* The browser and the bearer independent protocol *)

BrowserId(m, at) == Fixed(m, at, 48, 1, 2, IF B(m, at + 2) > 4 THEN 255 ELSE B(m, at + 2))

Url(m, at) ==
  Object(m, at, 49, NotUnderstood, LAMBDA n, from :
    IF n > 129 THEN Failed(NotUnderstood) ELSE Read(from + n - at, Bytes(m, from, n)))

\* Of more than five bearers only five are consumed, and all are counted.
Bearers(m, at) ==
  Bounded(m, at, 50, NotUnderstood, LAMBDA n, from :
    LET kept == Bytes(m, from, IF n > 5 THEN 5 ELSE n)
    IN IF n = 0 THEN Failed(NotUnderstood)
       ELSE Read(from + Len(kept) - at,
                 [count |-> n,
                  list |-> [i \in 1..Len(kept) |-> IF kept[i] > 3 THEN 255 ELSE kept[i]]]))

ProvisioningFile(m, at) ==
  Object(m, at, 51, NotUnderstood, LAMBDA n, from :
    IF n \notin 1..50 THEN Failed(NotUnderstood) ELSE Read(from + n - at, Bytes(m, from, n)))

Bearer(m, from) ==
  CASE B(m, from) = 1 -> <<1>> \o Bytes(m, from + 1, 3)
    [] B(m, from) = 2 -> <<2>> \o Bytes(m, from + 1, 5)
                         \o <<IF B(m, from + 6) = 2 THEN 2 ELSE 255>>
    [] OTHER -> <<3>>

\* Looked for from the offset on, in the middle of other objects too.
BearerDescription(m, at) ==
  LET places == {i \in at..(Size(m) - 1) : Tag(m, i) = 53}
      i == CHOOSE i \in places : \A j \in places : i <= j
  IN IF Size(m) <= at + 2 THEN Failed(NotUnderstood)
     ELSE IF places = {} THEN Nothing(0)
     ELSE IF B(m, i + 2) \notin 1..4 THEN Failed(BeyondMe)
     ELSE Read(2 + B(m, i + 1), Bearer(m, i + 2))

ChannelData(m, at) ==
  Bounded(m, at, 54, NotUnderstood, LAMBDA n, from : Read(from + n - at, Bytes(m, from, n)))

ChannelDataLength(m, at) == Fixed(m, at, 55, 1, 0, B(m, at + 2))
BufferSize(m, at) == Fixed(m, at, 57, 2, 4, Bytes(m, at + 2, 2))
UiccInterface(m, at) ==
  Fixed(m, at, 60, 3, 5, [protocol |-> B(m, at + 2), port |-> 256 * B(m, at + 3) + B(m, at + 4)])

Hex(b) == IF b < 16 THEN <<b>> ELSE <<b \div 16, b % 16>>
Colon == 58

\* An address in print: bytes of IPv4; hexadecimal digits of IPv6, where a byte
\* below 16 gets one digit only.
Printed(m, from) ==
  CASE B(m, from) = 33 -> [type |-> "IPv4", text |-> Bytes(m, from + 1, 4)]
    [] B(m, from) = 87 ->
         [type |-> "IPv6",
          text |-> FlattenSeq([k \in 1..8 |->
            Hex(B(m, from + 2 * k - 1)) \o Hex(B(m, from + 2 * k)) \o <<Colon>>])]
    [] OTHER -> [type |-> "reserved", text |-> <<>>]

OtherAddress(m, at) ==
  Short(m, at, 62, 2, LAMBDA n, from :
    IF ~Within(m, from, n) THEN Failed(NotUnderstood)
    ELSE IF n > 31 THEN Failed(BeyondMe)
    ELSE Read(2 + n, Printed(m, from)))

Dot == 46
Letter(b) == b \in 65..90 \cup 97..122

\* Labels come with their lengths: a length of 2 is printed as a dot, other
\* lengths are dropped, and so is all that is no letter.
NetworkName(m, at) ==
  Short(m, at, 71, 2, LAMBDA n, from :
    IF ~Within(m, from, n) THEN Failed(NotUnderstood)
    ELSE IF n > 30 THEN Failed(BeyondMe)
    ELSE Read(2 + n,
              [length |-> n,
               name |-> LET kept == SelectSeq(Bytes(m, from, n), LAMBDA b : Letter(b) \/ b = 2)
                        IN [i \in 1..Len(kept) |-> IF kept[i] = 2 THEN Dot ELSE kept[i]]]))

\* Here too the tag is read as the length.  No command gets to it: the bearer
\* that needs it is never reported.
RemoteEntity(m, at) ==
  IF Size(m) <= at + 1 \/ Tag(m, at) # 72 \/ Required(m, at) THEN Failed(NotUnderstood)
  ELSE Read(2 + 72, [coding |-> B(m, at + 1), address |-> Bytes(m, at + 2, 71)])

-----------------------------------------------------------------------------
Devices == {1, 2, 3, 129, 130, 131} \cup 33..39

DeviceIdentities(m, at) ==
  IF Tag(m, at) # 2 \/ B(m, at + 1) # 2 \/ ~({B(m, at + 2), B(m, at + 3)} \subseteq Devices)
  THEN Failed(ValueMissing)
  ELSE Read(4, Bytes(m, at + 2, 2))
=============================================================================
