------------------------------ MODULE Adverts ------------------------------
(***************************************************************************)
(* What the bridge reads from BLE advertisements (keypad_advert.cpp,       *)
(* lock_advert.cpp): whether a device is a keypad, of which family, and    *)
(* battery levels.  Functions of the bytes of an advert, counted from 1.   *)
(***************************************************************************)
EXTENDS Integers, Sequences

Byte == 0 .. 255
NoLevel == -1

Families == {"ORIGINAL", "VISION"}
OnServiceData == {"LOCK", "LOCK_LITE", "LOCK_VISION"}
OnManufacturerData == {"LOCK_PRO", "LOCK_PRO_WIFI", "LOCK_ULTRA", "LOCK_VISION_PRO"}
Models == OnServiceData \cup OnManufacturerData \cup {"UNKNOWN"}

LowBits(byte) == byte % 128

-----------------------------------------------------------------------------
(* identify_keypad                                                         *)

KeypadTypeByte == 121
VisionSuffixes == {<<17, 3, 120>>, <<17, 81, 152>>}

HasTypeByte(service) == service # <<>> /\ LowBits(service[1]) = KeypadTypeByte

\* The four bytes from `first` on, after an encryption bit that may be set or not.
SuffixAt(service, first) ==
  /\ service[first] \in {0, 1}
  /\ <<service[first + 1], service[first + 2], service[first + 3]>> \in VisionSuffixes

\* The last four bytes, or the four before the last one.
HasVisionSuffix(service) ==
  /\ Len(service) > 5
  /\ \E first \in {Len(service) - 3, Len(service) - 4} : SuffixAt(service, first)

IsKeypad(service) == HasTypeByte(service) \/ HasVisionSuffix(service)
Family(service) ==
  IF HasVisionSuffix(service) /\ ~HasTypeByte(service) THEN "VISION" ELSE "ORIGINAL"

-----------------------------------------------------------------------------
(* parse_keypad_battery, parse_lock_battery                                *)

CompanyId == <<105, 9>>

\* The manufacturer data as NimBLE gives them begin with the company id.
KeypadLevel(family, service, manufacturer) ==
  CASE family = "ORIGINAL" /\ Len(service) >= 3 -> LowBits(service[3])
    [] family = "VISION" /\ Len(manufacturer) >= 10 /\ SubSeq(manufacturer, 1, 2) = CompanyId
         -> LowBits(manufacturer[10])
    [] OTHER -> NoLevel

Percent(byte) == IF LowBits(byte) =< 100 THEN LowBits(byte) ELSE NoLevel

\* switchbot_manufacturer_payload: what follows the company id.
Payload(manufacturer) ==
  IF Len(manufacturer) >= 2 /\ SubSeq(manufacturer, 1, 2) = CompanyId
  THEN SubSeq(manufacturer, 3, Len(manufacturer))
  ELSE <<>>

LockLevel(model, service, manufacturer) ==
  CASE model \in OnServiceData /\ Len(service) >= 3 -> Percent(service[3])
    [] model \in OnManufacturerData /\ Len(Payload(manufacturer)) >= 10
         -> Percent(Payload(manufacturer)[10])
    [] OTHER -> NoLevel
=============================================================================
