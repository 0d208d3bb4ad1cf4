SPECIFICATION Spec
CONSTANTS
    handbook = handbook
    invoice = invoice
    Uploads <- MCUploads
    MaxPieces = 2
INVARIANT NeverStuck
