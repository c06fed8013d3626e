------------------------------- MODULE MCAta -------------------------------
EXTENDS Ata
\* The disk, and one more drive: another disk, a drive for CDs, or none.
MCDrives == <<0, 2>>
MCValues == {"old", "new"}
============================================================================
