---------------------------- MODULE MCWin32Window ---------------------------
EXTENDS Win32Window

MessageVal == {"WM_CLOSE", "WM_FONTCHANGE", "WM_SIZE"}
=============================================================================
