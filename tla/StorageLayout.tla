---------------------------- MODULE StorageLayout ----------------------------
(***************************************************************************)
(* The byte counts of a configuration file of n bytes on its way through   *)
(* upload_config.py, checkJson, moveJson and jsonFromFlash.                *)
(***************************************************************************)
EXTENDS Naturals

BlockBytes == 512    \* the data of a TFTP packet; also the metadata
PageBytes == 256     \* FLASH_PAGE_SIZE
RegionBytes == 32768 \* each of the two regions: (32/4) * FLASH_SECTOR_SIZE

\* The script pads the file to whole words and puts the metadata before it.
Words(n) == (n + 3) \div 4
UploadLength(n) == BlockBytes + 4 * Words(n)

\* TFTP: the last packet is the first that is not full.
PacketCount(n) == UploadLength(n) \div BlockBytes + 1
EndsEmpty(n) == UploadLength(n) % BlockBytes = 0

\* checkJson compares a number of words with a number of bytes, and sums up the
\* JSON and its padding.
LengthAccepted(n) == Words(n) <= RegionBytes
Padding(n) == IF n % 4 > 0 THEN 4 - (n % 4) ELSE 0
SummedUp(n) == n + Padding(n)

\* moveJson: pages is a uint8_t, its copy of the length a uint16_t.
PagesTooFew(n) == ((n + 4) \div PageBytes) % 256  \* a mutant: not rounded up
Pages(n) ==
  LET full == (n + 4) \div PageBytes
  IN IF full > 0 THEN (full + 1) % 256 ELSE 0
StoredLength(n) == n % 65536

\* What jsonFromFlash finds: an erased region, or the file with its length.
TakesNoPage(n) == Pages(n) = 0
StoredWhole(n) == StoredLength(n) = n /\ PageBytes * Pages(n) >= n + 4
=============================================================================
